--------------------------- MODULE PaymentsProofs ---------------------------
(* Payments implements Bookings, and its ledger is what Bookings calls settled:
   whatever the money does, the theorems of BookingsProofs hold of it. *)
EXTENDS Payments, BookingsProofs

PaymentRow == [pay : PayKeys, booking : Keys, status : RowStatuses]

\* The bookings with a succeeded row in a ledger.
PaidIn(rows) ==
    {k \in Keys : \E j \in DOMAIN rows : rows[j].booking = k /\ rows[j].status = "succeeded"}

MoneyType ==
    /\ ledger \in Seq(PaymentRow)
    /\ paying \subseteq [pay : PayKeys, booking : Keys, answer : Answers]
    /\ emitted \subseteq PayKeys \X Outcomes

PayInv == MoneyType /\ settled = PaidIn(ledger)

-----------------------------------------------------------------------------
(* Every step of Payments is a step of Bookings, or leaves it alone. *)

\* Cancelling with a refund.
LEMMA CancelIsBookingStep ==
    ASSUME NEW k \in Keys, NEW amount, CancelAndRefund(k, amount)
    PROVE  [Next]_vars /\ settled' = settled
<1> DEFINE full == SettledRows(k) # {} /\ amount = Total
<1>1. full \in BOOLEAN
  OBVIOUS
<1>2. CancelBooking(k, full) \/ RefundCancelled(k) \/ UNCHANGED vars
  BY DEF CancelAndRefund
<1> HIDE DEF full
<1>3. CASE CancelBooking(k, full)
  BY <1>1, <1>3 DEF Next, BookingStep, CancelBooking, others
<1>4. CASE RefundCancelled(k)
  BY <1>4 DEF Next, BookingStep, RefundCancelled, others
<1>5. CASE UNCHANGED vars
  BY <1>5 DEF vars
<1> QED BY <1>2, <1>3, <1>4, <1>5

\* Applying an outcome, to a row of a ledger that is the present one or has one
\* more row, not settled.
LEMMA OutcomeIsBookingStep ==
    ASSUME NEW rows \in Seq(PaymentRow), NEW i \in DOMAIN rows, NEW outcome \in Outcomes,
           settled = PaidIn(rows), ApplyOutcome(rows, i, outcome)
    PROVE  [Next]_vars /\ ledger' \in Seq(PaymentRow) /\ settled' = PaidIn(ledger')
<1> DEFINE k == rows[i].booking
<1>0. k \in Keys /\ rows[i] \in PaymentRow
  <2>1. rows[i] \in PaymentRow
    OBVIOUS
  <2> QED BY <2>1 DEF PaymentRow
<1>1. /\ rows[i].status = outcome \/ PaymentMoves(rows[i].status, outcome)
      /\ ledger' = [rows EXCEPT ![i].status = outcome]
  BY DEF ApplyOutcome
<1>2. ledger' \in Seq(PaymentRow)
  BY <1>0, <1>1 DEF PaymentRow, RowStatuses, Outcomes
<1>3. /\ DOMAIN ledger' = DOMAIN rows
      /\ ledger'[i].status = outcome /\ ledger'[i].booking = k
      /\ \A j \in DOMAIN rows : j # i => ledger'[j] = rows[j]
  BY <1>0, <1>1 DEF PaymentRow
<1>4. CASE outcome = "succeeded"
  <2>1. PaymentSucceeds(k)
    BY <1>4 DEF ApplyOutcome
  <2>2. [Next]_vars
    BY <1>0, <2>1 DEF Next, BookingStep
  <2>3. settled' = settled \cup {k}
    BY <2>1 DEF PaymentSucceeds
  <2>4. PaidIn(ledger') = PaidIn(rows) \cup {k}
    BY <1>0, <1>3, <1>4 DEF PaidIn
  <2> QED BY <1>2, <2>2, <2>3, <2>4
<1>5. CASE outcome # "succeeded"
  <2>1. PaymentFails(k) \/ UNCHANGED vars
    BY <1>5 DEF ApplyOutcome
  <2>2. [Next]_vars /\ settled' = settled
    BY <1>0, <2>1 DEF Next, BookingStep, PaymentFails, others, vars
  <2>3. rows[i].status # "succeeded"
    BY <1>1, <1>5 DEF PaymentMoves
  <2>4. PaidIn(ledger') = PaidIn(rows)
    BY <1>3, <1>5, <2>3 DEF PaidIn
  <2> QED BY <1>2, <2>2, <2>4
<1> QED BY <1>4, <1>5

\* A payment request's record.
LEMMA RecordIsBookingStep ==
    ASSUME TypeOK, PayInv, NEW q \in paying, PayRecord(q)
    PROVE  [Next]_vars /\ ledger' \in Seq(PaymentRow) /\ settled' = PaidIn(ledger')
<1> DEFINE known == RowsFor(q.pay)
           new == [pay |-> q.pay, booking |-> q.booking, status |-> "created"]
           rows == IF known # {} THEN ledger ELSE Append(ledger, new)
           at == IF known # {} THEN known ELSE {Len(ledger) + 1}
<1>0. q.pay \in PayKeys /\ q.booking \in Keys /\ new \in PaymentRow /\ ledger \in Seq(PaymentRow)
  BY DEF PayInv, MoneyType, PaymentRow, RowStatuses
<1>1. rows \in Seq(PaymentRow)
  BY <1>0
<1>2. settled = PaidIn(rows)
  <2>1. PaidIn(Append(ledger, new)) = PaidIn(ledger)
    BY <1>0 DEF PaidIn
  <2> QED BY <2>1 DEF PayInv
<1>3. CASE q.answer = "created"
  <2>1. ledger' = rows /\ UNCHANGED vars
    BY <1>3 DEF PayRecord, Outcomes
  <2> QED BY <1>1, <1>2, <2>1 DEF vars
<1>4. CASE q.answer \in Outcomes
  <2>1. PICK i \in at : ApplyOutcome(rows, i, q.answer)
    BY <1>4 DEF PayRecord, Outcomes
  <2>2. i \in DOMAIN rows
    BY <1>0 DEF RowsFor
  <2> HIDE DEF rows, at
  <2> QED BY <1>1, <1>2, <1>4, <2>1, <2>2, OutcomeIsBookingStep
<1>5. CASE q.answer = "timeout"
  <2>1. ledger' = rows /\ CancelAndRefund(q.booking, PolicyRefund(q.booking))
    BY <1>5 DEF PayRecord, Outcomes
  <2>2. [Next]_vars /\ settled' = settled
    BY <1>0, <2>1, CancelIsBookingStep
  <2> QED BY <1>1, <1>2, <2>1, <2>2
<1> QED BY <1>3, <1>4, <1>5 DEF PayInv, MoneyType, Answers, Outcomes

\* A step in which no money moves.
LEMMA MoneylessIsBookingStep ==
    ASSUME IInv, MoneylessStep
    PROVE  [Next]_vars /\ settled' = settled
<1>1. CASE Tick \/ ExpireBookings \/ (\E r \in Requests, k \in Keys : QuoteCommit(r, k))
  BY <1>1 DEF Next, Tick, ExpireBookings, Sweep, QuoteCommit, others
<1>2. CASE \E q \in inflight : CommitStep(q)
  BY <1>2, CommitPreserves DEF Next
<1>3. CASE \E k \in Keys : CreateDraft(k) \/ BusinessConfirms(k) \/ BusinessRejects(k) \/ AdminForceCancel(k)
  BY <1>3 DEF Next, BookingStep, CreateDraft, BusinessConfirms, BusinessRejects, AdminForceCancel, others
<1>4. CASE \E s \in Slots : SlotStep(s)
  BY <1>4, SlotPreserves DEF Next
<1> QED BY <1>1, <1>2, <1>3, <1>4 DEF MoneylessStep

\* The whole next-state relation: a step of Bookings, and PayInv kept.
LEMMA PayNextStep ==
    ASSUME IInv, PayInv, [PayNext]_payVars
    PROVE  [Next]_vars /\ PayInv'
<1> DEFINE Kept == /\ [Next]_vars
                   /\ ledger' \in Seq(PaymentRow) /\ settled' = PaidIn(ledger')
                   /\ paying' \subseteq [pay : PayKeys, booking : Keys, answer : Answers]
                   /\ emitted' \subseteq PayKeys \X Outcomes
<1> SUFFICES Kept
  BY DEF PayInv, MoneyType, PaidIn
<1> USE DEF PayInv, MoneyType
<1>1. CASE MoneylessStep
  <2>1. [Next]_vars /\ settled' = settled
    BY <1>1, MoneylessIsBookingStep
  <2> QED BY <1>1, <2>1 DEF MoneylessStep, moneyVars
<1>2. CASE \E k \in Keys : TravellerCancels(k) \/ BusinessCancels(k)
  <2>1. PICK k \in Keys, amount \in {PolicyRefund(k2) : k2 \in Keys} \cup {Total} : CancelAndRefund(k, amount)
    BY <1>2 DEF TravellerCancels, BusinessCancels
  <2>2. [Next]_vars /\ settled' = settled
    BY <2>1, CancelIsBookingStep
  <2> QED BY <1>2, <2>2 DEF TravellerCancels, BusinessCancels
<1>3. CASE \/ ReconcilePayments
           \/ \E k \in Keys : AdminMarkRefunded(k)
           \/ \E q \in paying : PayAborts(q)
  BY <1>3 DEF ReconcilePayments, AdminMarkRefunded, PayAborts, vars
<1>4. CASE \E p \in PayKeys, k \in Keys : PayRead(p, k)
  <2>1. PICK p \in PayKeys, k \in Keys, answer \in Answers :
           /\ paying' = paying \cup {[pay |-> p, booking |-> k, answer |-> answer]}
           /\ emitted' = IF answer = "succeeded" THEN emitted \cup {<<p, "succeeded">>} ELSE emitted
    BY <1>4 DEF PayRead
  <2>2. UNCHANGED <<vars, ledger>>
    BY <1>4 DEF PayRead
  <2> QED BY <2>1, <2>2 DEF vars, Outcomes
<1>5. CASE \E q \in paying : PayRecord(q)
  <2>1. PICK q \in paying : PayRecord(q)
    BY <1>5
  <2>2. [Next]_vars /\ ledger' \in Seq(PaymentRow) /\ settled' = PaidIn(ledger')
    BY <2>1, RecordIsBookingStep DEF IInv
  <2> QED BY <2>1, <2>2 DEF PayRecord
<1>6. CASE \E p \in PayKeys, outcome \in Outcomes : ProviderResolves(p, outcome)
  <2>1. PICK p \in PayKeys, outcome \in Outcomes : emitted' = emitted \cup {<<p, outcome>>}
    BY <1>6 DEF ProviderResolves
  <2>2. UNCHANGED <<vars, ledger, paying>>
    BY <1>6 DEF ProviderResolves
  <2> QED BY <2>1, <2>2 DEF vars
<1>7. CASE \E e \in emitted : DeliverWebhook(e)
  <2>1. PICK e \in emitted : DeliverWebhook(e)
    BY <1>7
  <2>2. PICK i \in RowsFor(e[1]) : ApplyOutcome(ledger, i, e[2])
    BY <2>1 DEF DeliverWebhook
  <2>3. [Next]_vars /\ ledger' \in Seq(PaymentRow) /\ settled' = PaidIn(ledger')
    BY <2>2, OutcomeIsBookingStep DEF RowsFor
  <2> QED BY <2>1, <2>3 DEF DeliverWebhook
<1>8. CASE UNCHANGED payVars
  BY <1>8 DEF payVars, moneyVars, vars
<1> QED BY <1>1, <1>2, <1>3, <1>4, <1>5, <1>6, <1>7, <1>8 DEF PayNext

-----------------------------------------------------------------------------
(* Theorems. *)

\* IInv of Bookings and the ledger invariant hold together.
LEMMA PayInvariance == PaySpec => [](IInv /\ PayInv)
<1>1. PayInit => IInv /\ PayInv
  <2> SUFFICES ASSUME PayInit PROVE PayInv
    BY InitIInv DEF PayInit
  <2> QED BY DEF PayInit, Init, PayInv, MoneyType, PaidIn
<1>2. IInv /\ PayInv /\ [PayNext]_payVars => (IInv /\ PayInv)'
  BY PayNextStep, NextIInv
<1> QED BY <1>1, <1>2, PTL DEF PaySpec

\* Payments implements Bookings: with it, every theorem about Spec is one about
\* the composed system.
THEOREM PaymentsRefinement == PaySpec => ImplementsBookings
<1>1. PayInit => Init
  BY DEF PayInit
<1>2. IInv /\ PayInv /\ [PayNext]_payVars => [Next]_vars
  BY PayNextStep
<1> QED BY <1>1, <1>2, PayInvariance, PTL DEF PaySpec, Spec, ImplementsBookings

\* The sum check_booking_update takes over payments is what Bookings calls
\* settled (019:165-168).
THEOREM LedgerSound == PaySpec => []SettledMeansPaid
<1>1. PayInv => SettledMeansPaid
  BY DEF PayInv, PaidIn, SettledMeansPaid, SettledRows
<1> QED BY <1>1, PayInvariance, PTL

\* In the composed system no slot is oversold and no unit sold twice, paid inventory
\* is confirmed only against a succeeded payment in the ledger, and no webhook,
\* refund or reconciliation revives a booking or moves it outside its life cycle.
THEOREM ComposedSafety ==
    PaySpec => /\ []InventoryConsistent /\ []NoSeatSoldTwice
               /\ []PaidBeforeConfirmed /\ []SettledMeansPaid
               /\ NeverRevived /\ ImplementsLifecycle
BY PaymentsRefinement, InventorySound, SeatsSound, PaymentSound, LedgerSound, ReleasedForGood, Refinement, PTL
   DEF ImplementsBookings
=============================================================================
