---------------------------- MODULE RefundsProofs ----------------------------
(* Refunds, late money and the types of Payments, for every number of bookings,
   payments, keys and windows.  The invariant RefundInv says of every refund
   which settled payment it is of. *)
EXTENDS PaymentsProofs, WellFoundedInduction

RefundStatuses == {"none", "requested", "succeeded"}

RefundType ==
    /\ refund \in [Keys -> [row : Nat, amount : Nat, status : RefundStatuses]]
    /\ \A i \in adminRefunds : i \in DOMAIN ledger /\ ledger[i].status = "succeeded"

\* A booking has no refund, or one of a settled payment of its own that no
\* administrator has refunded.
RefundsOfPayments ==
    \A k \in Keys : refund[k] # NoRefund =>
        /\ refund[k].row \in SettledRows(k) /\ refund[k].row \notin adminRefunds
        /\ refund[k].amount \in 1..Total
        /\ refund[k].status \in {"requested", "succeeded"}

\* The refund of a booking that reads "refunded" is whole, or the booking was
\* charged twice.
ReturnedWhole ==
    \A k \in Keys : status[k] = "refunded" =>
        /\ refund[k].status = "succeeded"
        /\ refund[k].amount = Total \/ \E i, j \in SettledRows(k) : i # j

RestType ==
    /\ intent \in [PayKeys -> {"none", "open", "settled", "closed"}]
    /\ processed \subseteq emitted
    /\ queue \subseteq Keys \X Kinds

RefundInv == RefundType /\ RefundsOfPayments /\ ReturnedWhole

-----------------------------------------------------------------------------
(* Greatest elements. *)

\* A set of natural numbers with a bound has a greatest element.
LEMMA HasGreatest ==
    ASSUME NEW n \in Nat, NEW S \in SUBSET (0..n), S # {}
    PROVE  \E m \in S : \A x \in S : x <= m
<1> DEFINE Above(x) == {y \in 0..n : y > x}
           T == {Above(x) : x \in S}
           F == FiniteSubsetsOf(0..n)
<1>1. T \subseteq F /\ T # {} /\ IsFiniteSet(0..n)
  <2>1. IsFiniteSet(0..n)
    BY FS_Interval
  <2>2. F = SUBSET (0..n)
    BY <2>1, FS_FiniteSubsetsOfFinite
  <2> HIDE DEF F
  <2> QED BY <2>1, <2>2
<1>2. PICK X \in T : \A Y \in T : ~(<<Y, X>> \in StrictSubsetOrdering(0..n))
  <2> HIDE DEF T, F
  <2>1. IsWellFoundedOn(StrictSubsetOrdering(0..n), F)
    BY FS_StrictSubsetOrderingWellFounded DEF F
  <2> QED BY <1>1, <2>1, WFMin
<1>3. PICK m \in S : X = Above(m)
  BY <1>2
<1>4. \A x \in S : x <= m
  <2> SUFFICES ASSUME NEW x \in S, m < x PROVE FALSE
    OBVIOUS
  <2>1. Above(x) \subseteq Above(m) /\ x \in Above(m) /\ x \notin Above(x)
    OBVIOUS
  <2>2. <<Above(x), Above(m)>> \in StrictSubsetOrdering(0..n)
    BY <2>1 DEF StrictSubsetOrdering
  <2> QED BY <1>2, <1>3, <2>2
<1> QED BY <1>4

\* The latest of some rows is one of them.
LEMMA LatestIsOne ==
    ASSUME ledger \in Seq(PaymentRow), NEW I \in SUBSET DOMAIN ledger, I # {}
    PROVE  Latest(I) \in I
<1>1. I \subseteq 0..Len(ledger) /\ Len(ledger) \in Nat
  OBVIOUS
<1>2. \E i \in I : \A j \in I : j <= i
  BY <1>1, HasGreatest
<1> QED BY <1>2 DEF Latest

\* The policy refunds a part of the price.
LEMMA PolicyRefundWithin == ASSUME NEW k \in Keys PROVE PolicyRefund(k) \in 0..Total
<1> DEFINE open == {w \in Windows : StartsAt[SlotOf[k]] - w.before >= now}
           R == {w.refund : w \in open} \cup {0}
<1>1. R \subseteq 0..Total /\ Total \in Nat
  BY PaymentAssumptions DEF PaymentAssumptions
<1>2. \E r \in R : \A x \in R : x <= r
  BY <1>1, HasGreatest
<1>3. \E r \in R : \A w \in open : w.refund <= r
  BY <1>2
<1>4. PolicyRefund(k) = CHOOSE r \in R : \A w \in open : w.refund <= r
  BY DEF PolicyRefund
<1> QED BY <1>1, <1>3, <1>4
-----------------------------------------------------------------------------
(* The ledger grows, and refunds stay of their payments. *)

LedgerGrows ==
    \A i \in DOMAIN ledger :
        /\ i \in DOMAIN ledger' /\ ledger'[i].booking = ledger[i].booking
        /\ ledger[i].status = "succeeded" => ledger'[i].status = "succeeded"

NoneRefunded == \A k \in Keys : status'[k] = "refunded" => status[k] = "refunded"

LEMMA OutcomeGrows ==
    ASSUME ledger \in Seq(PaymentRow), NEW rows \in Seq(PaymentRow), NEW i \in DOMAIN rows,
           \A j \in DOMAIN ledger : j \in DOMAIN rows /\ rows[j] = ledger[j],
           NEW outcome \in Outcomes, ApplyOutcome(rows, i, outcome)
    PROVE  LedgerGrows
<1>1. /\ rows[i].status = outcome \/ PaymentMoves(rows[i].status, outcome)
      /\ ledger' = [rows EXCEPT ![i].status = outcome]
  BY DEF ApplyOutcome
<1>2. rows[i] \in PaymentRow
  OBVIOUS
<1>3. /\ DOMAIN ledger' = DOMAIN rows
      /\ ledger'[i].status = outcome /\ ledger'[i].booking = rows[i].booking
      /\ \A j \in DOMAIN rows : j # i => ledger'[j] = rows[j]
  BY <1>1, <1>2 DEF PaymentRow
<1>4. rows[i].status = "succeeded" => outcome = "succeeded"
  BY <1>1 DEF PaymentMoves
<1> QED BY <1>3, <1>4 DEF LedgerGrows

\* What guard_refund leaves room for.
LEMMA FitsMeans ==
    ASSUME RefundType, RefundsOfPayments, NEW i \in DOMAIN ledger, NEW amount \in 1..Total,
           ledger[i].booking \in Keys, Fits(i, amount)
    PROVE  /\ i \notin adminRefunds
           /\ amount = Total => \A k \in Keys : refund[k] # NoRefund => refund[k].row # i
<1> DEFINE b == ledger[i].booking
           part == IF \E k \in Keys : refund[k].row = i THEN refund[b].amount ELSE 0
           rest == IF i \in adminRefunds THEN Total ELSE 0
<1>1. Total \in Nat \ {0} /\ part \in Nat /\ rest \in Nat /\ part + rest + amount <= Total
  <2>1. refund[b].amount \in Nat
    BY DEF RefundType
  <2>2. Total \in Nat \ {0}
    BY PaymentAssumptions DEF PaymentAssumptions
  <2> QED BY <2>1, <2>2 DEF Fits, Used
<1>2. i \notin adminRefunds
  BY <1>1
<1>3. ASSUME amount = Total, NEW k \in Keys, refund[k] # NoRefund, refund[k].row = i
      PROVE  FALSE
  <2>1. b = k /\ refund[k].amount \in 1..Total
    BY <1>3 DEF RefundsOfPayments, SettledRows
  <2>2. part = refund[k].amount
    BY <1>3, <2>1
  <2> QED BY <1>1, <1>3, <2>1, <2>2
<1> QED BY <1>2, <1>3

\* No refund is made.
LEMMA RefundKept ==
    ASSUME RefundInv, LedgerGrows, NoneRefunded, UNCHANGED <<refund, adminRefunds>>
    PROVE  RefundInv'
<1>1. \A k \in Keys : SettledRows(k) \subseteq SettledRows(k)'
  BY DEF LedgerGrows, SettledRows
<1>2. RefundType'
  BY DEF RefundInv, RefundType, LedgerGrows
<1>3. RefundsOfPayments'
  BY <1>1 DEF RefundInv, RefundsOfPayments
<1>4. ReturnedWhole'
  BY <1>1 DEF RefundInv, ReturnedWhole, NoneRefunded
<1> QED BY <1>2, <1>3, <1>4 DEF RefundInv

\* A refund of booking k is made, of row i.
LEMMA RefundMade ==
    ASSUME RefundInv, LedgerGrows, UNCHANGED adminRefunds,
           ledger \in Seq(PaymentRow),
           NEW k \in Keys, NEW i \in SettledRows(k), NEW amount \in 1..Total,
           MakeRefund(k, i, amount),
           \A j \in Keys : status'[j] = "refunded" =>
                              status[j] = "refunded" \/ (j = k /\ amount = Total)
    PROVE  RefundInv'
<1> DEFINE old == refund[k]
           fresh == [row |-> i, amount |-> amount,
                     status |-> IF amount = Total THEN "succeeded" ELSE "requested"]
<1>0. /\ \A j \in Keys : SettledRows(j) \subseteq SettledRows(j)'
      /\ i \in DOMAIN ledger /\ ledger[i].booking = k
      /\ refund \in [Keys -> [row : Nat, amount : Nat, status : RefundStatuses]]
  BY DEF LedgerGrows, SettledRows, RefundInv, RefundType
<1>1. /\ i \notin adminRefunds
      /\ amount = Total /\ old # NoRefund => old.row # i
  BY <1>0, FitsMeans DEF MakeRefund, RefundInv
<1>2. /\ \A j \in Keys : j # k => refund'[j] = refund[j]
      /\ old = NoRefund => refund'[k] = fresh
      /\ old # NoRefund /\ amount = Total => refund'[k] = [old EXCEPT !.status = "succeeded"]
      /\ old # NoRefund /\ amount # Total => refund'[k] = old
      /\ refund' \in [Keys -> [row : Nat, amount : Nat, status : RefundStatuses]]
  <2>1. i \in Nat /\ amount \in Nat
    BY <1>0, PaymentAssumptions DEF PaymentAssumptions
  <2> QED BY <1>0, <2>1 DEF MakeRefund, RefundStatuses
<1>3. RefundType'
  BY <1>2 DEF RefundInv, RefundType, LedgerGrows
<1>4. /\ old # NoRefund => /\ refund'[k].row = old.row /\ refund'[k].amount = old.amount
                           /\ refund'[k].status \in {old.status, "succeeded"}
      /\ amount = Total => refund'[k].status = "succeeded"
  BY <1>0, <1>2
<1>5. RefundsOfPayments'
  <2> SUFFICES ASSUME NEW j \in Keys, refund'[j] # NoRefund
               PROVE  /\ refund'[j].row \in SettledRows(j)' /\ refund'[j].row \notin adminRefunds
                      /\ refund'[j].amount \in 1..Total
                      /\ refund'[j].status \in {"requested", "succeeded"}
    BY DEF RefundsOfPayments
  <2>1. CASE j # k
    BY <1>0, <1>2, <2>1 DEF RefundInv, RefundsOfPayments
  <2>2. CASE j = k /\ old = NoRefund
    BY <1>0, <1>1, <1>2, <2>2
  <2>3. CASE j = k /\ old # NoRefund
    BY <1>0, <1>4, <2>3 DEF RefundInv, RefundsOfPayments
  <2> QED BY <2>1, <2>2, <2>3
<1>6. ReturnedWhole'
  <2> SUFFICES ASSUME NEW j \in Keys, status'[j] = "refunded"
               PROVE  /\ refund'[j].status = "succeeded"
                      /\ refund'[j].amount = Total \/ \E g, h \in SettledRows(j)' : g # h
    BY DEF ReturnedWhole
  <2>1. CASE status[j] = "refunded" /\ j # k
    BY <1>0, <1>2, <2>1 DEF RefundInv, ReturnedWhole
  <2>2. CASE status[j] = "refunded" /\ j = k
    <3>1. old.status = "succeeded" /\ old # NoRefund
      BY <2>2 DEF RefundInv, ReturnedWhole, NoRefund
    <3> QED BY <1>0, <1>4, <2>2, <3>1 DEF RefundInv, ReturnedWhole
  <2>3. CASE j = k /\ amount = Total /\ old = NoRefund
    BY <1>2, <2>3
  <2>4. CASE j = k /\ amount = Total /\ old # NoRefund
    <3>1. old.row \in SettledRows(k)' /\ i \in SettledRows(k)' /\ old.row # i
      BY <1>0, <1>1, <2>4 DEF RefundInv, RefundsOfPayments
    <3> QED BY <1>4, <2>4, <3>1
  <2> QED BY <2>1, <2>2, <2>3, <2>4
<1> QED BY <1>3, <1>5, <1>6 DEF RefundInv
-----------------------------------------------------------------------------
(* Where the money of a step goes. *)

\* Every success of the step is placed.
AllPlaced == \A k \in Keys : SettledRows(k)' \subseteq SettledRows(k) \/ SuccessPlaced(k)

\* A step that makes no row succeed.
LEMMA SameLedgerPlaced == ledger' = ledger => AllPlaced
BY DEF AllPlaced, SettledRows

\* A finite set with two different members has more than one.
LEMMA TwoMembers ==
    ASSUME NEW S, IsFiniteSet(S), NEW i \in S, NEW j \in S, i # j
    PROVE  Cardinality(S) \in Nat /\ Cardinality(S) > 1
<1>1. Cardinality({i}) = 1 /\ IsFiniteSet({i})
  BY FS_Singleton
<1>2. Cardinality({i} \cup {j}) = Cardinality({i}) + 1
  BY <1>1, FS_AddElement
<1>3. {i} \cup {j} = {i, j}
  OBVIOUS
<1>4. Cardinality({i, j}) = 2
  BY <1>1, <1>2, <1>3
<1>5. Cardinality({i, j}) <= Cardinality(S)
  BY FS_Subset
<1>6. Cardinality(S) \in Nat
  BY FS_CardinalityType
<1> QED BY <1>4, <1>5, <1>6

\* Two succeeded payments of a booking are seen by the view.
LEMMA TwiceIsFlagged ==
    ASSUME ledger' \in Seq(PaymentRow), NEW k \in Keys,
           NEW i \in SettledRows(k)', NEW j \in SettledRows(k)', i # j
    PROVE  NeedsReconciliation(k)'
<1>1. IsFiniteSet(DOMAIN ledger')
  BY FS_Interval
<1>2. IsFiniteSet(SettledRows(k)')
  BY <1>1, FS_Subset DEF SettledRows
<1>3. Cardinality(SettledRows(k)') > 1
  BY <1>2, TwoMembers
<1> QED BY <1>3 DEF NeedsReconciliation

\* The rows that an outcome makes succeed are one row, of the booking it is about.
LEMMA OutcomeSettles ==
    ASSUME ledger \in Seq(PaymentRow), NEW rows \in Seq(PaymentRow), NEW i \in DOMAIN rows,
           \A j \in DOMAIN ledger : j \in DOMAIN rows /\ rows[j] = ledger[j],
           \A j \in DOMAIN rows : j \in DOMAIN ledger \/ rows[j].status = "created",
           NEW outcome \in Outcomes, ApplyOutcome(rows, i, outcome),
           NEW k \in Keys, NEW j \in SettledRows(k)', j \notin SettledRows(k)
    PROVE  j = i /\ k = rows[i].booking /\ outcome = "succeeded"
<1>1. ledger' = [rows EXCEPT ![i].status = outcome] /\ rows[i] \in PaymentRow
  BY DEF ApplyOutcome
<1>2. /\ DOMAIN ledger' = DOMAIN rows
      /\ ledger'[i].status = outcome /\ ledger'[i].booking = rows[i].booking
      /\ \A x \in DOMAIN rows : x # i => ledger'[x] = rows[x]
  BY <1>1 DEF PaymentRow
<1>3. j \in DOMAIN rows /\ ledger'[j].booking = k /\ ledger'[j].status = "succeeded"
  BY <1>2 DEF SettledRows
<1>4. j = i
  <2> SUFFICES ASSUME j # i PROVE FALSE
    OBVIOUS
  <2>1. rows[j].booking = k /\ rows[j].status = "succeeded"
    BY <1>2, <1>3
  <2> QED BY <1>3, <2>1 DEF SettledRows
<1> QED BY <1>2, <1>3, <1>4

-----------------------------------------------------------------------------
(* The steps of Payments. *)

\* A cancellation makes a refund, or none.
LEMMA CancelRefunds ==
    ASSUME IInv, PayInv, RefundInv, LedgerGrows, UNCHANGED adminRefunds,
           NEW k \in Keys, NEW amount \in 0..Total, CancelAndRefund(k, amount)
    PROVE  RefundInv'
<1> DEFINE paid == SettledRows(k)
           full == paid # {} /\ amount = Total
<1>0. status \in [Keys -> Statuses \cup {"none"}] /\ Total \in Nat \ {0} /\ ledger \in Seq(PaymentRow)
  BY PaymentAssumptions DEF PaymentAssumptions, IInv, TypeOK, PayInv, MoneyType
<1>1. \A j \in Keys : status'[j] = "refunded" =>
                          status[j] = "refunded" \/ (j = k /\ paid # {} /\ amount = Total)
  <2>1. PICK f \in BOOLEAN : /\ f => paid # {} /\ amount = Total
                             /\ CancelBooking(k, f) \/ (RefundCancelled(k) /\ f) \/ UNCHANGED vars
    <3>1. full \in BOOLEAN
      OBVIOUS
    <3> QED BY <3>1 DEF CancelAndRefund
  <2>2. CASE CancelBooking(k, f)
    <3>1. status' = [status EXCEPT ![k] = IF f THEN "refunded" ELSE "cancelled"]
      BY <2>2 DEF CancelBooking
    <3> QED BY <1>0, <2>1, <3>1
  <2>3. CASE RefundCancelled(k) /\ f
    BY <1>0, <2>1, <2>3 DEF RefundCancelled, Retire
  <2>4. CASE UNCHANGED vars
    BY <2>4 DEF vars, rowVars
  <2> QED BY <2>1, <2>2, <2>3, <2>4
<1>2. CASE paid # {} /\ amount > 0
  <2>1. Latest(paid) \in paid
    BY <1>0, <1>2, LatestIsOne DEF SettledRows
  <2>2. MakeRefund(k, Latest(paid), amount) /\ amount \in 1..Total
    BY <1>0, <1>2 DEF CancelAndRefund
  <2>3. \A j \in Keys : status'[j] = "refunded" => status[j] = "refunded" \/ (j = k /\ amount = Total)
    BY <1>1
  <2> QED BY <1>0, <2>1, <2>2, <2>3, RefundMade
<1>3. CASE ~(paid # {} /\ amount > 0)
  <2>1. UNCHANGED refund /\ ~full
    BY <1>0, <1>3 DEF CancelAndRefund
  <2>2. NoneRefunded
    BY <1>1, <2>1 DEF NoneRefunded
  <2> QED BY <2>1, <2>2, RefundKept
<1> QED BY <1>2, <1>3

\* An outcome refunds nothing, and places what it settles.
LEMMA OutcomePlaces ==
    ASSUME IInv, PayInv, RefundInv, PaidBeforeConfirmed, queue \subseteq Keys \X Kinds,
           NEW rows \in Seq(PaymentRow), NEW i \in DOMAIN rows,
           \A j \in DOMAIN ledger : j \in DOMAIN rows /\ rows[j] = ledger[j],
           \A j \in DOMAIN rows : j \in DOMAIN ledger \/ rows[j].status = "created",
           NEW outcome \in Outcomes, ApplyOutcome(rows, i, outcome)
    PROVE  NoneRefunded /\ AllPlaced /\ queue' \subseteq Keys \X Kinds
<1> DEFINE k == rows[i].booking
<1>0. k \in Keys /\ status \in [Keys -> Statuses \cup {"none"}] /\ ledger \in Seq(PaymentRow)
  <2>1. rows[i] \in PaymentRow
    OBVIOUS
  <2> QED BY <2>1 DEF PaymentRow, IInv, TypeOK, PayInv, MoneyType
<1>1. CASE /\ outcome = "succeeded" /\ PaymentSucceeds(k)
           /\ queue' = queue \cup {<<k, "paid_unconfirmed">> : s \in {status[k]} \cap Late}
  <2>1. /\ NoneRefunded /\ PaymentRequired(k) /\ status[k] \notin {"none", "draft"}
        /\ status'[k] = IF status[k] = "pending" /\ mode[k] = "instant" THEN "confirmed" ELSE status[k]
    BY <1>0, <1>1 DEF PaymentSucceeds, Confirm, rowVars, NoneRefunded
  <2>2. queue' \subseteq Keys \X Kinds
    BY <1>0, <1>1 DEF Kinds
  <2>3. ASSUME NEW x \in Keys, ~(SettledRows(x)' \subseteq SettledRows(x)) PROVE SuccessPlaced(x)
    <3>1. PICK j \in SettledRows(x)' : j \notin SettledRows(x)
      BY <2>3
    <3>2. x = k
      BY <1>0, <3>1, OutcomeSettles
    <3> HIDE DEF k
    <3>3. CASE status[k] \in Released \ {"refunded"}
      <4>1. status[k] \in Late
        BY <3>3 DEF Late, Released
      <4> QED BY <1>1, <2>1, <3>2, <3>3, <4>1 DEF SuccessPlaced, Released
    <3>4. CASE status[k] = "pending" /\ SettledRows(k) = {}
      BY <2>1, <3>2, <3>4 DEF SuccessPlaced
    <3>5. CASE status[k] \notin Released \ {"refunded"} /\ SettledRows(k) # {}
      <4>1. PICK h \in SettledRows(k) : TRUE
        BY <3>5
      <4>2. LedgerGrows /\ ledger' \in Seq(PaymentRow)
        <5>1. LedgerGrows
          BY <1>0, OutcomeGrows
        <5>2. settled = PaidIn(rows)
          BY <1>0 DEF PayInv, PaidIn
        <5> QED BY <5>1, <5>2, OutcomeIsBookingStep
      <4>3. h \in SettledRows(k)' /\ h # j
        BY <3>1, <3>2, <4>1, <4>2 DEF LedgerGrows, SettledRows
      <4>4. NeedsReconciliation(k)'
        BY <1>0, <3>1, <3>2, <4>2, <4>3, TwiceIsFlagged
      <4>5. status[k] \in {"pending", "confirmed", "completed", "refunded"}
        BY <1>0, <2>1, <3>5 DEF Statuses, Released
      <4> QED BY <3>2, <3>5, <4>4, <4>5 DEF SuccessPlaced
    <3>6. CASE status[k] \notin Released \ {"refunded"} /\ SettledRows(k) = {} /\ status[k] # "pending"
      <4>1. status[k] \in {"confirmed", "completed", "refunded"}
        BY <1>0, <2>1, <3>6 DEF Statuses, Released
      <4>2. k \notin settled
        BY <1>0, <3>6 DEF PayInv, PaidIn, SettledRows
      <4>3. status[k] # "refunded"
        BY <1>0, <3>6 DEF RefundInv, ReturnedWhole, RefundsOfPayments, NoRefund
      <4> QED BY <1>0, <2>1, <4>1, <4>2, <4>3 DEF PaidBeforeConfirmed, PaymentRequired
    <3> QED BY <3>3, <3>4, <3>5, <3>6
  <2> QED BY <2>1, <2>2, <2>3 DEF AllPlaced
<1>2. CASE outcome # "succeeded"
  <2>1. AllPlaced
    BY <1>0, <1>2, OutcomeSettles DEF AllPlaced
  <2>2. CASE /\ PaymentFails(k)
             /\ queue' = queue \cup {<<k, "confirmed_unpaid">> : s \in {status[k]} \cap {"confirmed"}}
    BY <1>0, <2>1, <2>2 DEF PaymentFails, Retire, NoneRefunded, Kinds
  <2>3. CASE UNCHANGED <<vars, queue>>
    BY <2>1, <2>3 DEF vars, rowVars, NoneRefunded
  <2> QED BY <1>2, <2>2, <2>3 DEF ApplyOutcome
<1> QED BY <1>1, <1>2 DEF ApplyOutcome

\* The ledger is as it was.
LEMMA SameLedgerGrows == ledger' = ledger => LedgerGrows
BY DEF LedgerGrows

\* The record of a payment request.
LEMMA RecordRefunds ==
    ASSUME IInv, PayInv, RefundInv, RestType, PaidBeforeConfirmed, NEW q \in paying, PayRecord(q)
    PROVE  RefundInv' /\ AllPlaced /\ queue' \subseteq Keys \X Kinds
<1> DEFINE known == RowsFor(q.pay)
           new == [pay |-> q.pay, booking |-> q.booking, status |-> "created"]
           rows == IF known # {} THEN ledger ELSE Append(ledger, new)
           at == IF known # {} THEN known ELSE {Len(ledger) + 1}
<1>0. q.booking \in Keys /\ new \in PaymentRow /\ ledger \in Seq(PaymentRow)
  BY DEF PayInv, MoneyType, PaymentRow, RowStatuses
<1>1. /\ rows \in Seq(PaymentRow) /\ at \subseteq DOMAIN rows
      /\ \A j \in DOMAIN ledger : j \in DOMAIN rows /\ rows[j] = ledger[j]
      /\ \A j \in DOMAIN rows : j \in DOMAIN ledger \/ rows[j].status = "created"
  BY <1>0 DEF RowsFor
<1>2. UNCHANGED adminRefunds
  BY DEF PayRecord
<1> HIDE DEF at
<1>3. CASE q.answer = "created"
  <2>1. ledger' = rows /\ UNCHANGED <<vars, refund, queue>>
    BY <1>3 DEF PayRecord, Outcomes
  <2>2. LedgerGrows /\ NoneRefunded /\ settled' = settled
    BY <1>1, <2>1 DEF LedgerGrows, NoneRefunded, vars, rowVars
  <2>3. AllPlaced
    BY <1>0, <2>1 DEF AllPlaced, SettledRows
  <2> QED BY <1>2, <2>1, <2>2, <2>3, RefundKept DEF RestType
<1>4. CASE q.answer \in Outcomes
  <2>1. PICK i \in at : ApplyOutcome(rows, i, q.answer)
    BY <1>4 DEF PayRecord, Outcomes, at
  <2>2. UNCHANGED refund
    BY <1>4 DEF PayRecord, Outcomes
  <2>3. i \in DOMAIN rows
    BY <1>1
  <2> HIDE DEF rows
  <2>4. LedgerGrows
    BY <1>0, <1>1, <1>4, <2>1, <2>3, OutcomeGrows
  <2>5. NoneRefunded /\ AllPlaced /\ queue' \subseteq Keys \X Kinds
    BY <1>1, <1>4, <2>1, <2>3, OutcomePlaces DEF RestType
  <2> QED BY <1>2, <2>2, <2>4, <2>5, RefundKept
<1>5. CASE q.answer = "timeout"
  <2>1. ledger' = rows /\ CancelAndRefund(q.booking, PolicyRefund(q.booking)) /\ UNCHANGED queue
    BY <1>5 DEF PayRecord, Outcomes
  <2>2. LedgerGrows
    BY <1>1, <2>1 DEF LedgerGrows
  <2>3. PolicyRefund(q.booking) \in 0..Total
    BY <1>0, PolicyRefundWithin
  <2>4. RefundInv'
    BY <1>0, <1>2, <2>1, <2>2, <2>3, CancelRefunds
  <2>5. AllPlaced
    BY <1>0, <2>1 DEF AllPlaced, SettledRows
  <2> QED BY <2>1, <2>4, <2>5 DEF RestType
<1> QED BY <1>3, <1>4, <1>5 DEF PayInv, MoneyType, Answers, Outcomes

\* A step in which no money moves refunds no booking.
LEMMA MoneylessRefunds == ASSUME IInv, MoneylessStep PROVE NoneRefunded
<1> USE DEF NoneRefunded, IInv, TypeOK
<1>1. CASE Tick \/ (\E r \in Requests, k \in Keys : QuoteCommit(r, k))
  BY <1>1 DEF Tick, QuoteCommit, rowVars
<1>2. CASE ExpireBookings
  BY <1>2 DEF ExpireBookings, Sweep
<1>3. CASE \E q \in inflight : CommitStep(q)
  <2>1. PICK q \in inflight : CommitStep(q)
    BY <1>3
  <2>2. status' = status \/ status' = [status EXCEPT ![q.key] = StatusAfterCommit(q)]
    BY <2>1 DEF CommitStep, CommitDraft, CommitNew, WriteCommit, CommitReplay, CommitAborts, rowVars
  <2>3. StatusAfterCommit(q) # "refunded"
    BY DEF StatusAfterCommit
  <2> QED BY <2>2, <2>3
<1>4. CASE \E k \in Keys : CreateDraft(k) \/ BusinessConfirms(k) \/ BusinessRejects(k) \/ AdminForceCancel(k)
  BY <1>4 DEF CreateDraft, BusinessConfirms, Confirm, BusinessRejects, AdminForceCancel, Retire
<1>5. CASE \E s \in Slots : SlotStep(s)
  BY <1>5 DEF SlotStep, CompleteDay, AddBlackout, DeleteBlackout, MarkAuthoritative, rowVars
<1> QED BY <1>1, <1>2, <1>3, <1>4, <1>5 DEF MoneylessStep

\* admin_mark_refunded.
LEMMA AdminRefunds ==
    ASSUME IInv, PayInv, RefundInv, NEW k \in Keys, AdminMarkRefunded(k)
    PROVE  RefundInv'
<1> DEFINE mine == {i \in DOMAIN ledger : ledger[i].booking = k}
           i == Latest(mine)
<1>0. ledger \in Seq(PaymentRow) /\ Total \in 1..Total
  BY PaymentAssumptions DEF PaymentAssumptions, PayInv, MoneyType
<1>1. mine # {} /\ mine \subseteq DOMAIN ledger
  BY DEF AdminMarkRefunded
<1>2. i \in mine
  <2> HIDE DEF mine
  <2> QED BY <1>0, <1>1, LatestIsOne
<1>3. /\ ledger[i].status = "succeeded" /\ Fits(i, Total)
      /\ adminRefunds' = adminRefunds \cup {i}
      /\ UNCHANGED <<vars, ledger, refund>>
  BY DEF AdminMarkRefunded
<1> HIDE DEF i
<1>4. \A j \in Keys : refund[j] # NoRefund => refund[j].row # i
  BY <1>0, <1>2, <1>3, FitsMeans DEF RefundInv
<1>5. LedgerGrows /\ status' = status
  BY <1>3 DEF LedgerGrows, vars, rowVars
<1>6. RefundType'
  BY <1>2, <1>3 DEF RefundInv, RefundType
<1>7. RefundsOfPayments'
  BY <1>3, <1>4 DEF RefundInv, RefundsOfPayments, SettledRows
<1>8. ReturnedWhole'
  BY <1>3, <1>5 DEF RefundInv, ReturnedWhole, SettledRows
<1> QED BY <1>6, <1>7, <1>8 DEF RefundInv

\* Every step of the money.
LEMMA PayNextRefunds ==
    ASSUME IInv, PayInv, RefundInv, RestType, PaidBeforeConfirmed, [PayNext]_payVars
    PROVE  RefundInv' /\ RestType' /\ AllPlaced
<1>0. Total \in Nat \ {0} /\ ledger \in Seq(PaymentRow)
  BY PaymentAssumptions DEF PaymentAssumptions, PayInv, MoneyType
<1>1. CASE MoneylessStep
  <2>1. NoneRefunded /\ UNCHANGED moneyVars
    BY <1>1, MoneylessRefunds DEF MoneylessStep
  <2> QED BY <2>1, SameLedgerGrows, SameLedgerPlaced, RefundKept DEF moneyVars, RestType
<1>2. CASE \E k \in Keys : TravellerCancels(k) \/ BusinessCancels(k)
  <2>1. PICK k \in Keys, amount \in {PolicyRefund(j) : j \in Keys} \cup {Total} : CancelAndRefund(k, amount)
    BY <1>2 DEF TravellerCancels, BusinessCancels
  <2>2. UNCHANGED <<intent, emitted, processed, paying, ledger, adminRefunds, queue>>
    BY <1>2 DEF TravellerCancels, BusinessCancels
  <2>3. amount \in 0..Total
    BY <1>0, PolicyRefundWithin
  <2>4. RefundInv'
    BY <2>1, <2>2, <2>3, SameLedgerGrows, CancelRefunds
  <2> QED BY <2>2, <2>4, SameLedgerPlaced DEF RestType
<1>3. CASE \E k \in Keys : AdminMarkRefunded(k)
  <2>1. RefundInv'
    BY <1>3, AdminRefunds
  <2> QED BY <1>3, <2>1, SameLedgerPlaced DEF AdminMarkRefunded, RestType
<1>4. CASE \E p \in PayKeys, k \in Keys : PayRead(p, k)
  <2>1. PICK p \in PayKeys, k \in Keys, answer \in Answers :
          /\ intent' = [intent EXCEPT ![p] =
                 IF answer = "succeeded" THEN "settled" ELSE IF @ = "none" THEN "open" ELSE @]
          /\ emitted' = IF answer = "succeeded" THEN emitted \cup {<<p, "succeeded">>} ELSE emitted
    BY <1>4 DEF PayRead
  <2>2. UNCHANGED <<vars, processed, ledger, refund, adminRefunds, queue>>
    BY <1>4 DEF PayRead
  <2>3. RefundInv'
    BY <2>2, SameLedgerGrows, RefundKept DEF NoneRefunded, vars, rowVars
  <2>4. intent' \in [PayKeys -> {"none", "open", "settled", "closed"}]
    BY <2>1 DEF RestType
  <2> QED BY <2>1, <2>2, <2>3, <2>4, SameLedgerPlaced DEF RestType
<1>5. CASE \E q \in paying : PayRecord(q)
  <2>1. PICK q \in paying : PayRecord(q)
    BY <1>5
  <2>2. RefundInv' /\ AllPlaced /\ queue' \subseteq Keys \X Kinds
    BY <2>1, RecordRefunds
  <2> QED BY <2>1, <2>2 DEF PayRecord, RestType
<1>6. CASE \E q \in paying : PayAborts(q)
  <2>1. UNCHANGED <<vars, intent, emitted, processed, ledger, refund, adminRefunds, queue>>
    BY <1>6 DEF PayAborts
  <2>2. RefundInv'
    BY <2>1, SameLedgerGrows, RefundKept DEF NoneRefunded, vars, rowVars
  <2> QED BY <2>1, <2>2, SameLedgerPlaced DEF RestType
<1>7. CASE \E p \in PayKeys, outcome \in Outcomes : ProviderResolves(p, outcome)
  <2>1. PICK p \in PayKeys, outcome \in Outcomes : ProviderResolves(p, outcome)
    BY <1>7
  <2>2. RefundInv'
    BY <2>1, SameLedgerGrows, RefundKept DEF ProviderResolves, NoneRefunded, vars, rowVars
  <2>3. intent' \in [PayKeys -> {"none", "open", "settled", "closed"}]
    BY <2>1 DEF RestType, ProviderResolves
  <2> QED BY <2>1, <2>2, <2>3, SameLedgerPlaced DEF ProviderResolves, RestType
<1>8. CASE \E e \in emitted : DeliverWebhook(e)
  <2>1. PICK e \in emitted : DeliverWebhook(e)
    BY <1>8
  <2>2. PICK i \in RowsFor(e[1]) : ApplyOutcome(ledger, i, e[2])
    BY <2>1 DEF DeliverWebhook
  <2>3. e[2] \in Outcomes /\ i \in DOMAIN ledger
    BY DEF PayInv, MoneyType, RowsFor
  <2>4. NoneRefunded /\ AllPlaced /\ queue' \subseteq Keys \X Kinds
    BY <1>0, <2>2, <2>3, OutcomePlaces DEF RestType
  <2>5. LedgerGrows
    BY <1>0, <2>2, <2>3, OutcomeGrows
  <2>6. RefundInv'
    BY <2>1, <2>4, <2>5, RefundKept DEF DeliverWebhook
  <2> QED BY <2>1, <2>4, <2>6 DEF DeliverWebhook, RestType
<1>9. CASE ReconcilePayments
  <2>1. PICK F \in SUBSET Keys :
          /\ queue' = queue \cup (F \X {"financial_mismatch"})
          /\ UNCHANGED <<vars, intent, emitted, processed, paying, ledger, refund, adminRefunds>>
    BY <1>9 DEF ReconcilePayments
  <2>2. RefundInv'
    BY <2>1, SameLedgerGrows, RefundKept DEF NoneRefunded, vars, rowVars
  <2>3. queue' \subseteq Keys \X Kinds
    BY <2>1 DEF RestType, Kinds
  <2> QED BY <2>1, <2>2, <2>3, SameLedgerPlaced DEF RestType
<1>10. CASE UNCHANGED payVars
  <2>1. RefundInv'
    BY <1>10, SameLedgerGrows, RefundKept DEF payVars, moneyVars, NoneRefunded, vars, rowVars
  <2> QED BY <1>10, <2>1, SameLedgerPlaced DEF payVars, moneyVars, RestType
<1> QED BY <1>1, <1>2, <1>3, <1>4, <1>5, <1>6, <1>7, <1>8, <1>9, <1>10 DEF PayNext

-----------------------------------------------------------------------------
(* Theorems. *)

RefundsIInv == RefundInv /\ RestType

LEMMA RefundsInvariance == PaySpec => []RefundsIInv
<1>1. PayInit => RefundsIInv
  <2> SUFFICES ASSUME PayInit PROVE RefundsIInv
    OBVIOUS
  <2>1. RefundInv
    BY DEF PayInit, Init, RefundInv, RefundType, RefundsOfPayments, ReturnedWhole, NoRefund, RefundStatuses
  <2>2. RestType
    BY DEF PayInit, RestType
  <2> QED BY <2>1, <2>2 DEF RefundsIInv
<1>2. IInv /\ PayInv /\ PaidBeforeConfirmed /\ RefundsIInv /\ [PayNext]_payVars => RefundsIInv'
  BY PayNextRefunds DEF RefundsIInv
<1> QED BY <1>1, <1>2, PayInvariance, ComposedSafety, PTL DEF PaySpec

\* Policy, business and administrator refunds together never exceed a payment,
\* and only settled payments are refunded (002: guard_refund, 016, 026).
THEOREM RefundsSound == PaySpec => []RefundsWithinPayment
<1>1. PayInv /\ RefundsIInv => RefundsWithinPayment
  <2> SUFFICES ASSUME PayInv, RefundInv, NEW i \in DOMAIN ledger
               PROVE  Used(i) <= Total /\ (Used(i) > 0 => ledger[i].status = "succeeded")
    BY DEF RefundsIInv, RefundsWithinPayment
  <2>0. Total \in Nat \ {0} /\ i # NoRefund.row
    BY PaymentAssumptions DEF PaymentAssumptions, PayInv, MoneyType, NoRefund
  <2>1. CASE \E k \in Keys : refund[k].row = i
    <3>1. PICK k \in Keys : refund[k].row = i
      BY <2>1
    <3>2. /\ i \in SettledRows(k) /\ i \notin adminRefunds
          /\ refund[k].amount \in 1..Total
      BY <2>0, <3>1 DEF RefundInv, RefundsOfPayments
    <3>3. ledger[i].booking = k /\ ledger[i].status = "succeeded"
      BY <3>2 DEF SettledRows
    <3>4. Used(i) = refund[k].amount + 0
      BY <2>1, <3>2, <3>3 DEF Used
    <3> QED BY <2>0, <3>2, <3>3, <3>4
  <2>2. CASE ~\E k \in Keys : refund[k].row = i
    <3>1. Used(i) = 0 + (IF i \in adminRefunds THEN Total ELSE 0)
      BY <2>2 DEF Used
    <3> QED BY <2>0, <3>1 DEF RefundInv, RefundType
  <2> QED BY <2>1, <2>2
<1> QED BY <1>1, PayInvariance, RefundsInvariance, PTL

\* No success is recorded unnoticed: it is the first of a booking that waits for
\* it; or it meets a booking cancelled, rejected or expired, which stays so and is
\* queued with it; or the view shows the booking as charged twice (019:836, 003:127).
THEOREM MoneyNoticed == PaySpec => NoMoneyUnnoticed
<1>1. IInv /\ PayInv /\ PaidBeforeConfirmed /\ RefundsIInv /\ [PayNext]_payVars => AllPlaced
  BY PayNextRefunds DEF RefundsIInv
<1>2. AllPlaced => \A k \in Keys : SettledRows(k)' \subseteq SettledRows(k) \/ SuccessPlaced(k)
  BY DEF AllPlaced
<1> QED BY <1>1, <1>2, PayInvariance, RefundsInvariance, ComposedSafety, PTL DEF PaySpec, NoMoneyUnnoticed

\* A booking that reads "refunded" has given its payment back, or was charged
\* twice and is flagged by the view (003:127).
THEOREM RefundedSound == PaySpec => []RefundedMeansReturned
<1>1. PayInv /\ RefundsIInv => RefundedMeansReturned
  <2> SUFFICES ASSUME PayInv, RefundInv, NEW k \in Keys, status[k] = "refunded"
               PROVE  Refunded(k) >= Paid(k) \/ NeedsReconciliation(k)
    BY DEF RefundsIInv, RefundedMeansReturned
  <2> DEFINE c == Cardinality(SettledRows(k))
             a == Cardinality({i \in adminRefunds : ledger[i].booking = k})
  <2>0. Total \in Nat \ {0} /\ ledger \in Seq(PaymentRow)
    BY PaymentAssumptions DEF PaymentAssumptions, PayInv, MoneyType
  <2>1. IsFiniteSet(DOMAIN ledger)
    BY <2>0, FS_Interval
  <2>2. IsFiniteSet(SettledRows(k)) /\ IsFiniteSet({i \in adminRefunds : ledger[i].booking = k})
    BY <2>1, FS_Subset DEF SettledRows, RefundInv, RefundType
  <2>3. c \in Nat /\ a \in Nat
    BY <2>2, FS_CardinalityType
  <2>4. CASE c > 1
    BY <2>4 DEF NeedsReconciliation
  <2>5. CASE c <= 1
    <3>1. \A i, j \in SettledRows(k) : i = j
      <4> SUFFICES ASSUME NEW i \in SettledRows(k), NEW j \in SettledRows(k), i # j PROVE FALSE
        OBVIOUS
      <4>1. c > 1
        BY <2>2, TwoMembers
      <4> QED BY <2>3, <2>5, <4>1
    <3>2. refund[k].status = "succeeded" /\ refund[k].amount = Total
      BY <3>1 DEF RefundInv, ReturnedWhole
    <3>3. Refunded(k) = Total + Total * a /\ Paid(k) = Total * c
      BY <3>2 DEF Refunded, Paid
    <3>4. Total * a \in Nat /\ Total * c <= Total
      <4>1. c = 0 \/ c = 1
        BY <2>3, <2>5
      <4>2. Total * a \in Nat
        BY <2>0, <2>3
      <4> QED BY <2>0, <4>1, <4>2
    <3> HIDE DEF a, c
    <3>5. Total * c \in Int
      BY <2>0, <2>3
    <3> QED BY <2>0, <3>3, <3>4, <3>5
  <2> QED BY <2>3, <2>4, <2>5
<1> QED BY <1>1, PayInvariance, RefundsInvariance, PTL

\* Every variable of Payments keeps its type.
THEOREM PaymentsTypeCorrect == PaySpec => []PayTypeOK
<1>1. IInv /\ PayInv /\ RefundsIInv => PayTypeOK
  <2> SUFFICES ASSUME IInv, PayInv, RefundsIInv PROVE PayTypeOK
    OBVIOUS
  <2>1. refund \in [Keys -> [row : DOMAIN ledger, amount : 1..Total,
                              status : {"requested", "succeeded"}] \cup {NoRefund}]
    <3>1. \A k \in Keys : refund[k] \in [row : DOMAIN ledger, amount : 1..Total,
                              status : {"requested", "succeeded"}] \cup {NoRefund}
      <4> SUFFICES ASSUME NEW k \in Keys, refund[k] # NoRefund
                   PROVE  refund[k] \in [row : DOMAIN ledger, amount : 1..Total,
                                          status : {"requested", "succeeded"}]
        OBVIOUS
      <4>1. /\ refund[k].row \in DOMAIN ledger /\ refund[k].amount \in 1..Total
            /\ refund[k].status \in {"requested", "succeeded"}
        BY DEF RefundsIInv, RefundInv, RefundsOfPayments, SettledRows
      <4>2. refund[k] = [row |-> refund[k].row, amount |-> refund[k].amount, status |-> refund[k].status]
        BY DEF RefundsIInv, RefundInv, RefundType
      <4> QED BY <4>1, <4>2
    <3> QED BY <3>1 DEF RefundsIInv, RefundInv, RefundType
  <2> QED BY <2>1 DEF PayTypeOK, IInv, PayInv, MoneyType, PaymentRow, RefundsIInv, RefundInv, RefundType, RestType
<1> QED BY <1>1, PayInvariance, RefundsInvariance, PTL
=============================================================================
