------------------------------ MODULE Payments ------------------------------
(* The money behind a booking: the provider, the payment attempts, the webhook
   inbox, refunds and the reconciliation queue (002, 003, 016, 019, 026 and
   payments/checkout_service.py).  Every step is a step of Bookings, or leaves
   the bookings alone, joined with what the same transaction does to the money.
   All bookings cost the same, so that an idempotency key names one intent. *)
EXTENDS Bookings, Sequences

CONSTANTS
    PayKeys,    \* the Idempotency-Keys of payment requests
    Total,      \* bookings.total_minor
    Windows     \* refund windows of the policy: [before : Nat, refund : 0..Total]

ASSUME PaymentAssumptions ==
    /\ Total \in Nat \ {0}
    /\ Windows \subseteq [before : Nat, refund : 0..Total]

VARIABLES
    intent,       \* the provider's side of each key
    emitted,      \* events the provider will deliver until they are accepted
    processed,    \* webhook_inbox rows with processed_at
    paying,       \* payment requests between the provider's answer and the record
    ledger,       \* app.payments, in the order of created_at
    refund,       \* the refund keyed 'refund-<booking>', row 0 when there is none
    adminRefunds, \* payments with an 'admin-refund-...' row
    queue         \* open reconciliation_items

moneyVars == <<intent, emitted, processed, paying, ledger, refund, adminRefunds, queue>>
payVars == <<vars, moneyVars>>

Outcomes    == {"succeeded", "failed", "cancelled"}
Answers     == {"created", "succeeded", "failed", "timeout"}
RowStatuses == Outcomes \cup {"created"}
Kinds       == {"paid_unconfirmed", "confirmed_unpaid", "financial_mismatch"}
NoRefund    == [row |-> 0, amount |-> 0, status |-> "none"]

PayTypeOK ==
    /\ TypeOK
    /\ intent \in [PayKeys -> {"none", "open", "settled", "closed"}]
    /\ emitted \subseteq PayKeys \X Outcomes /\ processed \subseteq emitted
    /\ paying \subseteq [pay : PayKeys, booking : Keys, answer : Answers]
    /\ ledger \in Seq([pay : PayKeys, booking : Keys, status : RowStatuses])
    /\ refund \in [Keys -> [row : DOMAIN ledger, amount : 1..Total,
                            status : {"requested", "succeeded"}] \cup {NoRefund}]
    /\ adminRefunds \subseteq DOMAIN ledger
    /\ queue \subseteq Keys \X Kinds

-----------------------------------------------------------------------------
(* Reading the ledger. *)

RowsFor(p)     == {i \in DOMAIN ledger : ledger[i].pay = p}
SettledRows(k) == {i \in DOMAIN ledger : ledger[i].booking = k /\ ledger[i].status = "succeeded"}
OpenRows(k)    == {i \in DOMAIN ledger : ledger[i].booking = k /\ ledger[i].status = "created"}
Latest(I)      == CHOOSE i \in I : \A j \in I : j <= i

\* Requested, pending and succeeded refunds of one payment (guard_refund).
Used(i) ==
    (IF \E k \in Keys : refund[k].row = i THEN refund[ledger[i].booking].amount ELSE 0)
        + (IF i \in adminRefunds THEN Total ELSE 0)

\* booking_financial_status
Paid(k) == Total * Cardinality(SettledRows(k))
Refunded(k) ==
    (IF refund[k].status = "succeeded" THEN refund[k].amount ELSE 0)
        + Total * Cardinality({i \in adminRefunds : ledger[i].booking = k})
NeedsReconciliation(k) ==
    \/ PaymentRequired(k) /\ status[k] \in {"confirmed", "completed"} /\ Paid(k) < Total
    \/ Paid(k) > Refunded(k) /\ status[k] \in {"expired", "cancelled", "rejected"}
    \/ Cardinality(SettledRows(k)) > 1

-----------------------------------------------------------------------------
(* Refunds. *)

\* refund_bps_from_snapshot: the best window still open.
PolicyRefund(k) ==
    LET open == {w \in Windows : StartsAt[SlotOf[k]] - w.before >= now}
    IN  CHOOSE r \in {w.refund : w \in open} \cup {0} : \A w \in open : w.refund <= r

\* Mutant: each refund is held against the payment alone.
FitsAlone(i, amount) == amount <= Total

\* guard_refund: a refund and those already made fit the payment.
Fits(i, amount) == Used(i) + amount <= Total

\* The insert of a refund keyed by its booking.  guard_refund fires before the
\* conflict on the key is found, so a second refund that does not fit raises; one
\* that fits is dropped, and a full one marks the row already there.
MakeRefund(k, i, amount) ==
    LET full == amount = Total
        old  == refund[k]
        new  == [row |-> i, amount |-> amount, status |-> IF full THEN "succeeded" ELSE "requested"]
    IN  /\ Fits(i, amount)
        /\ refund' = [refund EXCEPT ![k] =
                          CASE old = NoRefund -> new
                            [] old # NoRefund /\ full -> [old EXCEPT !.status = "succeeded"]
                            [] OTHER -> old]

\* Mutant: a refund of nothing is inserted.
CancelAndRefundZero(k, amount) ==
    /\ IF SettledRows(k) # {} THEN MakeRefund(k, Latest(SettledRows(k)), amount) ELSE UNCHANGED refund
    /\ CancelBooking(k, SettledRows(k) # {} /\ amount = Total)

\* cancel_checkout_booking with `amount` to refund.  On a booking already
\* cancelled the transition is a no-op and the refund is made all the same.
CancelAndRefund(k, amount) ==
    LET paid == SettledRows(k)
        full == paid # {} /\ amount = Total
    IN  /\ IF paid # {} /\ amount > 0 THEN MakeRefund(k, Latest(paid), amount)
           ELSE UNCHANGED refund
        /\ \/ CancelBooking(k, full)
           \/ full /\ RefundCancelled(k)
           \/ status[k] = "cancelled" /\ ~full /\ UNCHANGED vars

TravellerCancels(k) ==
    /\ CancelAndRefund(k, PolicyRefund(k))
    /\ UNCHANGED <<intent, emitted, processed, paying, ledger, adminRefunds, queue>>

\* Cancelled by the business: the policy window is set aside for a full refund.
BusinessCancels(k) ==
    /\ CancelAndRefund(k, Total)
    /\ UNCHANGED <<intent, emitted, processed, paying, ledger, adminRefunds, queue>>

\* Mutant: the mark moves the booking as well, around transition_booking.
AdminMarkAndMove(k) ==
    /\ \E i \in SettledRows(k) : Fits(i, Total) /\ adminRefunds' = adminRefunds \cup {i}
    /\ status' = [status EXCEPT ![k] = "refunded"]
    /\ UNCHANGED <<mode, hold, seatVars, others>>
    /\ UNCHANGED <<intent, emitted, processed, paying, ledger, refund, queue>>

\* admin_mark_refunded: the whole of the latest payment, whatever the booking's
\* status, which stays as it is.
AdminMarkRefunded(k) ==
    LET mine == {i \in DOMAIN ledger : ledger[i].booking = k}
        i == Latest(mine)
    IN  /\ mine # {} /\ ledger[i].status = "succeeded"
        /\ Fits(i, Total)
        /\ adminRefunds' = adminRefunds \cup {i}
        /\ UNCHANGED <<vars, intent, emitted, processed, paying, ledger, refund, queue>>

-----------------------------------------------------------------------------
(* Payment outcomes. *)

\* Mutant: any payment may change to any outcome.
AnyMove(from, to) == from # to

\* Mutant: a failed attempt is final.
NoLateMove(from, to) == from = "created"

\* guard_payment: money that has settled stays settled, and may settle late.
PaymentMoves(from, to) ==
    \/ from = "created"
    \/ from \in {"failed", "cancelled"} /\ to = "succeeded"

\* Mutant: a success that meets a cancellation is not queued.
LateForgetsCancelled == {"expired", "rejected", "draft"}

\* The statuses on which a success is late.
Late == {"cancelled", "expired", "rejected", "draft"}

\* apply_payment_outcome on row i of the ledger `rows`.
ApplyOutcome(rows, i, outcome) ==
    LET k == rows[i].booking
    IN  /\ rows[i].status = outcome \/ PaymentMoves(rows[i].status, outcome)
        /\ ledger' = [rows EXCEPT ![i].status = outcome]
        /\ \/ /\ outcome = "succeeded"
              /\ PaymentSucceeds(k)
              /\ queue' = queue \cup
                     {<<k, "paid_unconfirmed">> : s \in {status[k]} \cap Late}
           \/ /\ outcome # "succeeded" /\ status[k] \in {"pending", "confirmed"}
              /\ PaymentFails(k)
              /\ queue' = queue \cup
                     {<<k, "confirmed_unpaid">> : s \in {status[k]} \cap {"confirmed"}}
           \/ /\ outcome # "succeeded" /\ status[k] \notin {"pending", "confirmed"}
              /\ UNCHANGED <<vars, queue>>

-----------------------------------------------------------------------------
(* pay_for_booking. *)

\* The booking is read without a lock, and the provider answers: an intent still
\* open, one settled or declined at once, or none in time.  The same key gets the
\* same intent.
PayRead(p, k) ==
    /\ status[k] = "pending" /\ PaymentRequired(k)
    /\ \A q \in paying : q.pay # p
    /\ \E answer \in Answers :
          /\ intent[p] \in {"none", "open"} \/ answer \in {"succeeded", "timeout"}
          /\ intent[p] = "settled" => answer # "created"
          /\ paying' = paying \cup {[pay |-> p, booking |-> k, answer |-> answer]}
          /\ intent' = [intent EXCEPT ![p] =
                 IF answer = "succeeded" THEN "settled" ELSE IF @ = "none" THEN "open" ELSE @]
          /\ emitted' = IF answer = "succeeded" THEN emitted \cup {<<p, "succeeded">>} ELSE emitted
    /\ UNCHANGED <<vars, processed, ledger, refund, adminRefunds, queue>>

\* create_payment_for_booking under the booking's lock, then the outcome, in one
\* transaction.  A key seen before answers with its row, whichever its booking; a
\* new row needs a live hold and no other open attempt.
PayRecord(q) ==
    LET k == q.booking
        known == RowsFor(q.pay)
        rows == IF known # {} THEN ledger
                ELSE Append(ledger, [pay |-> q.pay, booking |-> k, status |-> "created"])
        at == IF known # {} THEN known ELSE {Len(ledger) + 1}
    IN  /\ status[k] = "pending"
        /\ known # {} \/ (hold[k] > now /\ OpenRows(k) = {})
        /\ paying' = paying \ {q}
        /\ \/ q.answer = "created" /\ ledger' = rows /\ UNCHANGED <<vars, refund, queue>>
           \/ /\ q.answer \in Outcomes
              /\ \E i \in at : ApplyOutcome(rows, i, q.answer)
              /\ UNCHANGED refund
           \/ /\ q.answer = "timeout" /\ ledger' = rows
              /\ CancelAndRefund(k, PolicyRefund(k)) /\ UNCHANGED queue
        /\ UNCHANGED <<intent, emitted, processed, adminRefunds>>

\* Any refusal or a crash after the provider answered: nothing is recorded.
PayAborts(q) ==
    /\ paying' = paying \ {q}
    /\ UNCHANGED <<vars, intent, emitted, processed, ledger, refund, adminRefunds, queue>>

-----------------------------------------------------------------------------
(* The provider and its webhooks. *)

\* The customer completes, fails or abandons an open intent at the provider.
ProviderResolves(p, outcome) ==
    /\ intent[p] = "open"
    /\ intent' = [intent EXCEPT ![p] =
                      CASE outcome = "succeeded" -> "settled"
                        [] outcome = "cancelled" -> "closed"
                        [] OTHER -> "open"]
    /\ emitted' = emitted \cup {<<p, outcome>>}
    /\ UNCHANGED <<vars, processed, paying, ledger, refund, adminRefunds, queue>>

\* One delivery, in any order: ingest_webhook and process_webhook_inbox in one
\* transaction.  A repeated event is answered from the inbox; an event whose
\* payment is missing, or whose outcome raises, leaves nothing behind and is
\* delivered again.
DeliverWebhook(e) ==
    /\ e \notin processed
    /\ \E i \in RowsFor(e[1]) : ApplyOutcome(ledger, i, e[2])
    /\ processed' = processed \cup {e}
    /\ UNCHANGED <<intent, emitted, paying, refund, adminRefunds>>

\* reconcile_payments, for at most p_limit of the bookings the view flags.
ReconcilePayments ==
    LET flagged == {k \in Keys : NeedsReconciliation(k)}
    IN  \E F \in SUBSET flagged :
            /\ F # {} /\ (F = flagged \/ Cardinality(F) = Limit)
            /\ queue' = queue \cup (F \X {"financial_mismatch"})
            /\ UNCHANGED <<vars, intent, emitted, processed, paying, ledger, refund, adminRefunds>>

-----------------------------------------------------------------------------
(* The composition. *)

PayInit ==
    /\ Init
    /\ intent = [p \in PayKeys |-> "none"]
    /\ emitted = {} /\ processed = {} /\ paying = {}
    /\ ledger = <<>>
    /\ refund = [k \in Keys |-> NoRefund]
    /\ adminRefunds = {} /\ queue = {}

\* Steps of Bookings that no money moves in.
MoneylessStep ==
    /\ \/ Tick \/ ExpireBookings
       \/ \E r \in Requests, k \in Keys : QuoteCommit(r, k)
       \/ \E q \in inflight : CommitStep(q)
       \/ \E k \in Keys : CreateDraft(k) \/ BusinessConfirms(k) \/ BusinessRejects(k)
                             \/ AdminForceCancel(k)
       \/ \E s \in Slots : SlotStep(s)
    /\ UNCHANGED moneyVars

PayNext ==
    \/ MoneylessStep
    \/ \E k \in Keys : TravellerCancels(k) \/ BusinessCancels(k) \/ AdminMarkRefunded(k)
    \/ \E p \in PayKeys, k \in Keys : PayRead(p, k)
    \/ \E q \in paying : PayRecord(q) \/ PayAborts(q)
    \/ \E p \in PayKeys, outcome \in Outcomes : ProviderResolves(p, outcome)
    \/ \E e \in emitted : DeliverWebhook(e)
    \/ ReconcilePayments

PaySpec == PayInit /\ [][PayNext]_payVars

\* Besides the clock and the sweep, the provider repeats a webhook until it is
\* accepted, and a request in flight ends.
PayFairSpec ==
    /\ PaySpec
    /\ WF_payVars(Tick /\ UNCHANGED moneyVars)
    /\ WF_payVars(Sweep({}) /\ UNCHANGED moneyVars)
    /\ \A e \in PayKeys \X Outcomes : WF_payVars(e \in emitted /\ DeliverWebhook(e))
    /\ WF_payVars(\E q \in paying : PayRecord(q) \/ PayAborts(q))

-----------------------------------------------------------------------------
(* Properties. *)

\* Every step of the money does to bookings only what Bookings allows.
ImplementsBookings == Spec

\* check_booking_update's sum over payments (019:165-168) is what Bookings calls
\* settled: a booking is settled if and only if the ledger has a succeeded row.
SettledMeansPaid == settled = {k \in Keys : SettledRows(k) # {}}

\* ARCHITECTURE.md:64, refunds are limited to the settled amount: policy and
\* administrator refunds together never exceed a payment, and only settled
\* payments are refunded.
RefundsWithinPayment ==
    \A i \in DOMAIN ledger :
        /\ Used(i) <= Total
        /\ Used(i) > 0 => ledger[i].status = "succeeded"

\* A booking that reads "refunded" has given its whole payment back, unless it
\* was charged twice, which the reconciliation view flags (003:127).
RefundedMeansReturned ==
    \A k \in Keys :
        status[k] = "refunded" => Refunded(k) >= Paid(k) \/ NeedsReconciliation(k)

\* Where the success of one more payment of booking k may end up.
SuccessPlaced(k) ==
    \/ /\ status[k] \in Released \ {"refunded"} /\ status'[k] = status[k]
       /\ <<k, "paid_unconfirmed">> \in queue'
    \/ /\ status[k] = "pending" /\ SettledRows(k) = {}
       /\ status'[k] = IF mode[k] = "instant" THEN "confirmed" ELSE "pending"
    \/ /\ status[k] \in {"pending", "confirmed", "completed", "refunded"}
       /\ SettledRows(k) # {} /\ NeedsReconciliation(k)'

\* ARCHITECTURE.md:60, 019:836 and 003:127: no success is recorded unnoticed.  It is
\* the first of a booking that waits for it; or the booking was cancelled, rejected
\* or expired, stays so, and is queued in the same transaction; or the booking was
\* paid before, and the view shows it as charged twice.
NoMoneyUnnoticed ==
    [][\A k \in Keys : SettledRows(k)' \subseteq SettledRows(k) \/ SuccessPlaced(k)]_payVars

\* ARCHITECTURE.md:60, "A late settlement must still be recorded after a timeout
\* or cancellation": once the attempt is in the ledger, the provider's success
\* reaches it, whatever the booking is doing meanwhile.
SettlementRecorded ==
    \A p \in PayKeys :
        (<<p, "succeeded">> \in emitted /\ RowsFor(p) # {})
            ~> (\E i \in RowsFor(p) : ledger[i].status = "succeeded")

\* The same sentence without the proviso: every settled intent is recorded.
SettlementNeverLost ==
    \A p \in PayKeys :
        (<<p, "succeeded">> \in emitted)
            ~> (\E i \in RowsFor(p) : ledger[i].status = "succeeded")
=============================================================================
