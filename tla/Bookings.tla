------------------------------ MODULE Bookings ------------------------------
(* Bookings, slots and seats: migrations 003, 005, 019 and 026 of
   mshwar-database.  One action is one database transaction, except that a
   checkout commit is two steps: quote_checkout reads the slot without a lock,
   and the rest of the transaction runs after the advisory and row locks are
   granted, when the quote may be stale. *)
EXTENDS Integers, FiniteSets

CONSTANTS
    Keys,           \* bookings, each named by its customer's request key
    Requests,       \* checkout commits in flight at one time
    Slots,
    SlotOf,         \* Keys -> Slots: the slot in the hashed request body
    PartyOf,        \* Keys -> Nat: the party size in the hashed request body
    Capacity,       \* Slots -> Nat
    StartsAt, EndsAt, \* Slots -> Nat
    FreshUntil,     \* Slots -> Nat: observed_at + freshness_seconds
    InstantSlots,   \* slots of listings whose booking_mode is 'instant'
    PaidSlots,      \* slots of listings with a price above zero
    InitiallyAuthoritative,
    DraftKeys,      \* keys whose customer saves a draft first
    DraftHold, InstantHold, RequestHold,   \* 30 minutes, 15 minutes, 24 hours
    Limit,          \* p_limit of expire_bookings
    MaxNow          \* bound on the clock

ASSUME BookingAssumptions ==
    /\ IsFiniteSet(Keys) /\ DraftKeys \subseteq Keys
    /\ SlotOf \in [Keys -> Slots]
    /\ PartyOf \in [Keys -> Nat \ {0}]
    /\ Capacity \in [Slots -> Nat]
    /\ StartsAt \in [Slots -> Nat] /\ EndsAt \in [Slots -> Nat] /\ FreshUntil \in [Slots -> Nat]
    /\ \A s \in Slots : StartsAt[s] < EndsAt[s]
    /\ InitiallyAuthoritative \subseteq Slots
    /\ DraftHold \in Nat /\ InstantHold \in Nat /\ RequestHold \in Nat
    /\ Limit \in Nat \ {0} /\ MaxNow \in Nat

VARIABLES
    now,            \* clock_timestamp()
    unavailable,    \* slots that are closed or under a blackout
    authoritative,  \* slots whose capacity is authoritative
    reserved,       \* slots.reserved
    unitHolds,      \* the rows of slot_unit_holds
    status,         \* bookings.status; "none" before the row exists
    mode,           \* bookings.mode
    hold,           \* bookings.hold_until
    held,           \* bookings.inventory_reserved
    settled,        \* bookings whose settled payments cover the total
    inflight        \* commits between their quote and their locks

slotVars == <<unavailable, authoritative>>
seatVars == <<reserved, unitHolds, held>>
rowVars  == <<status, mode, hold>>
vars == <<now, slotVars, seatVars, rowVars, settled, inflight>>

Modes    == {"instant", "request"}
Statuses == {"draft", "pending", "confirmed", "rejected",
             "cancelled", "expired", "completed", "refunded"}
Released == {"rejected", "cancelled", "expired", "refunded"}

TypeOK ==
    /\ now \in 0..MaxNow
    /\ unavailable \subseteq Slots
    /\ authoritative \subseteq Slots
    /\ reserved \in [Slots -> Nat]
    /\ unitHolds \subseteq [slot : Slots, unit : Nat \ {0}, booking : Keys]
    /\ status \in [Keys -> Statuses \cup {"none"}]
    /\ mode \in [Keys -> Modes]
    /\ hold \in [Keys -> Nat]
    /\ held \in [Keys -> BOOLEAN]
    /\ settled \subseteq Keys
    /\ inflight \subseteq [req : Requests, key : Keys, mode : Modes]

-----------------------------------------------------------------------------
(* The transition table and the helpers of 019. *)

\* Mutant: a completed booking may still be cancelled.
CompletedCancels(from, to) ==
    \/ from = "pending"   /\ to \in {"confirmed", "cancelled"}
    \/ from \in {"confirmed", "completed"} /\ to = "cancelled"

\* booking_allowed_transitions
Allowed(from, to) ==
    \/ from = "draft"     /\ to \in {"pending", "cancelled"}
    \/ from = "pending"   /\ to \in {"confirmed", "rejected", "cancelled", "expired"}
    \/ from = "confirmed" /\ to \in {"cancelled", "completed", "refunded"}
    \/ from \in {"cancelled", "completed"} /\ to = "refunded"

Started(s) == StartsAt[s] <= now

\* effective_booking_mode: stale or non-authoritative stock is request-to-book.
EffectiveMode(s) ==
    IF s \in InstantSlots /\ s \in authoritative /\ now <= FreshUntil[s]
    THEN "instant" ELSE "request"

PaymentRequired(k) == SlotOf[k] \in PaidSlots

\* quote_checkout's refusals, read from an unlocked slot row.
Quotable(k) ==
    LET s == SlotOf[k]
    IN  ~Started(s) /\ s \notin unavailable /\ reserved[s] + PartyOf[k] <= Capacity[s]

\* least(starts_at, now + the hold of the mode)
HoldUntil(k, m) ==
    LET t == now + (IF m = "instant" THEN InstantHold ELSE RequestHold)
    IN  IF t <= StartsAt[SlotOf[k]] THEN t ELSE StartsAt[SlotOf[k]]

\* The unit rows allocate_slot_units inserts: it numbers them from the counter
\* it has just raised, reserved - party + 1.
NewUnits(k) ==
    LET s == SlotOf[k]
    IN  {[slot |-> s, unit |-> u, booking |-> k] :
            u \in (reserved[s] + 1)..(reserved[s] + PartyOf[k])}

\* The EXCLUDE constraint on slot_unit_holds.
UnitTaken(s, u) == \E h \in unitHolds : h.slot = s /\ h.unit = u

\* Mutant: the update trusts the quote's look at the counter.
ReserveOnQuote(k) ==
    /\ reserved' = [reserved EXCEPT ![SlotOf[k]] = @ + PartyOf[k]]
    /\ unitHolds' = unitHolds \cup NewUnits(k)
    /\ held' = [held EXCEPT ![k] = TRUE]

\* Raise the counter under the slot's lock and allocate the units.  A full slot
\* or a unit collision raises, and the whole transaction rolls back.
Reserve(k) ==
    LET s == SlotOf[k]
    IN  /\ reserved[s] + PartyOf[k] <= Capacity[s]
        /\ \A h \in NewUnits(k) : ~UnitTaken(s, h.unit)
        /\ reserved' = [reserved EXCEPT ![s] = @ + PartyOf[k]]
        /\ unitHolds' = unitHolds \cup NewUnits(k)
        /\ held' = [held EXCEPT ![k] = TRUE]

\* One pair per seat of the bookings B that hold seats on slot s; its
\* cardinality is the sum of their party sizes.
SeatsOf(B, s) ==
    UNION {{k} \X (1..PartyOf[k]) : k \in {b \in B : held[b] /\ SlotOf[b] = s}}

\* Mutant: seats are given back for bookings that hold none.
ReleaseUnheld(B) ==
    /\ reserved' = [s \in Slots |->
          reserved[s] - Cardinality(UNION {{k} \X (1..PartyOf[k]) : k \in {b \in B : SlotOf[b] = s}})]
    /\ unitHolds' = {h \in unitHolds : h.booking \notin B}
    /\ held' = [k \in Keys |-> held[k] /\ k \notin B]

\* Mutant: the unit rows stay.
ReleaseNotRows(B) ==
    /\ reserved' = [s \in Slots |-> reserved[s] - Cardinality(SeatsOf(B, s))]
    /\ held' = [k \in Keys |-> held[k] /\ k \notin B]
    /\ UNCHANGED unitHolds

\* The inventory half of transition_booking to a released status, for every
\* booking of B: the counter and the unit rows go back only for a booking that
\* holds seats.
Release(B) ==
    /\ reserved' = [s \in Slots |-> reserved[s] - Cardinality(SeatsOf(B, s))]
    /\ unitHolds' = {h \in unitHolds : ~(h.booking \in B /\ held[h.booking])}
    /\ held' = [k \in Keys |-> held[k] /\ k \notin B]

\* Mutant: no look at the payments.
ConfirmableUnpaid(k, until, paid) ==
    /\ SlotOf[k] \notin unavailable /\ ~Started(SlotOf[k])
    /\ until > now

\* The guards of transition_booking and check_booking_update on a confirmation,
\* for a hold that ends at `until` and money that is or is not settled.
Confirmable(k, until, paid) ==
    /\ SlotOf[k] \notin unavailable /\ ~Started(SlotOf[k])
    /\ until > now
    /\ PaymentRequired(k) => paid

\* transition_booking(k, 'confirmed') of a row already pending: a booking with no
\* seats takes them now, if the slot's capacity is authoritative.
Confirm(k, paid) ==
    /\ status[k] = "pending"
    /\ Confirmable(k, hold[k], paid)
    /\ IF held[k] THEN UNCHANGED seatVars
       ELSE SlotOf[k] \in authoritative /\ Reserve(k)
    /\ status' = [status EXCEPT ![k] = "confirmed"]
    /\ UNCHANGED <<mode, hold>>

\* transition_booking(k, to) for a released status `to`.
Retire(k, to) ==
    /\ Allowed(status[k], to)
    /\ Release({k})
    /\ status' = [status EXCEPT ![k] = to]
    /\ UNCHANGED <<mode, hold>>

-----------------------------------------------------------------------------
(* Checkout. *)

Init ==
    /\ now = 0
    /\ unavailable = {}
    /\ authoritative = InitiallyAuthoritative
    /\ reserved = [s \in Slots |-> 0]
    /\ unitHolds = {}
    /\ status = [k \in Keys |-> "none"]
    /\ mode = [k \in Keys |-> "request"]
    /\ hold = [k \in Keys |-> 0]
    /\ held = [k \in Keys |-> FALSE]
    /\ settled = {}
    /\ inflight = {}

\* create_checkout_draft: no seats, a thirty-minute hold_until.
CreateDraft(k) ==
    /\ k \in DraftKeys /\ status[k] = "none"
    /\ Quotable(k)
    /\ status' = [status EXCEPT ![k] = "draft"]
    /\ mode' = [mode EXCEPT ![k] = EffectiveMode(SlotOf[k])]
    /\ hold' = [hold EXCEPT ![k] = now + DraftHold]
    /\ UNCHANGED <<now, slotVars, seatVars, settled, inflight>>

\* commit_checkout up to its first lock: the quote is taken before the booking
\* is looked up, for a first request and for a retry alike.
QuoteCommit(r, k) ==
    /\ \A q \in inflight : q.req # r
    /\ Quotable(k)
    /\ inflight' = inflight \cup {[req |-> r, key |-> k, mode |-> EffectiveMode(SlotOf[k])]}
    /\ UNCHANGED <<now, slotVars, seatVars, rowVars, settled>>

\* An instant commit with nothing to pay confirms in the same transaction, on
\* the mode of the quote.
StatusAfterCommit(q) ==
    IF q.mode = "instant" /\ ~PaymentRequired(q.key) THEN "confirmed" ELSE "pending"

\* The write both commit paths share, for a booking of mode m.
WriteCommit(q, m) ==
    LET k == q.key
    IN  /\ IF SlotOf[k] \in authoritative THEN Reserve(k) ELSE UNCHANGED seatVars
        /\ StatusAfterCommit(q) = "confirmed" =>
               SlotOf[k] \in authoritative /\ Confirmable(k, HoldUntil(k, m), TRUE)
        /\ status' = [status EXCEPT ![k] = StatusAfterCommit(q)]
        /\ mode' = [mode EXCEPT ![k] = m]
        /\ hold' = [hold EXCEPT ![k] = HoldUntil(k, m)]
        /\ inflight' = inflight \ {q}
        /\ UNCHANGED <<now, slotVars, settled>>

\* commit_checkout of a saved draft: no look at the slot's status or start after
\* the quote, and no look at the draft's own hold.
CommitDraft(q) == status[q.key] = "draft" /\ WriteCommit(q, q.mode)

\* Mutant: the retry of an expired key books again.
CommitAgain(q) ==
    /\ status[q.key] \in {"none", "expired"}
    /\ ~Started(SlotOf[q.key]) /\ SlotOf[q.key] \notin unavailable
    /\ WriteCommit(q, EffectiveMode(SlotOf[q.key]))

\* commit_checkout through reserve_booking, which reads the slot again under its
\* lock and derives the mode again.
CommitNew(q) ==
    /\ status[q.key] = "none"
    /\ ~Started(SlotOf[q.key]) /\ SlotOf[q.key] \notin unavailable
    /\ WriteCommit(q, EffectiveMode(SlotOf[q.key]))

\* commit_checkout of a key already committed answers with the booking.
CommitReplay(q) ==
    /\ status[q.key] \notin {"none", "draft"}
    /\ inflight' = inflight \ {q}
    /\ UNCHANGED <<now, slotVars, seatVars, rowVars, settled>>

\* A refused or lost commit: the transaction rolls back whole.
CommitAborts(q) ==
    /\ inflight' = inflight \ {q}
    /\ UNCHANGED <<now, slotVars, seatVars, rowVars, settled>>

-----------------------------------------------------------------------------
(* The business, the traveller and the administrator. *)

others == <<now, slotVars, settled, inflight>>

\* respond_portal_booking(..., 'confirmed')
BusinessConfirms(k) == Confirm(k, k \in settled) /\ UNCHANGED others

\* respond_portal_booking(..., 'rejected')
BusinessRejects(k) == Retire(k, "rejected") /\ UNCHANGED others

\* cancel_checkout_booking, by the traveller or the business; a full refund
\* goes on from "cancelled" to "refunded" in the same transaction.
CancelBooking(k, fullRefund) ==
    /\ fullRefund => k \in settled
    /\ Allowed(status[k], "cancelled")
    /\ Release({k})
    /\ status' = [status EXCEPT ![k] = IF fullRefund THEN "refunded" ELSE "cancelled"]
    /\ UNCHANGED <<mode, hold, others>>

\* cancel_checkout_booking again, after a late settlement: the transition to
\* "cancelled" is a no-op and the refund is made.
RefundCancelled(k) ==
    /\ status[k] = "cancelled" /\ k \in settled
    /\ Retire(k, "refunded")
    /\ UNCHANGED others

\* admin_force_cancel: cancelled with no refund.
AdminForceCancel(k) == Retire(k, "cancelled") /\ UNCHANGED others

\* guide_complete_day: every confirmed booking of an ended slot.
CompleteDay(s) ==
    /\ EndsAt[s] <= now
    /\ \E k \in Keys : SlotOf[k] = s /\ status[k] = "confirmed"
    /\ status' = [k \in Keys |-> IF SlotOf[k] = s /\ status[k] = "confirmed"
                                 THEN "completed" ELSE status[k]]
    /\ UNCHANGED <<mode, hold, seatVars, others>>

\* upsert_blackout and delete_blackout: bookings already made are not touched.
AddBlackout(s) ==
    /\ unavailable' = unavailable \cup {s} /\ s \notin unavailable
    /\ UNCHANGED <<now, authoritative, seatVars, rowVars, settled, inflight>>
DeleteBlackout(s) ==
    /\ unavailable' = unavailable \ {s} /\ s \in unavailable
    /\ UNCHANGED <<now, authoritative, seatVars, rowVars, settled, inflight>>

\* No function of the repository does this: the operator's statement that
\* guard_slot_contract admits, after reconciling the real capacity.
MarkAuthoritative(s) ==
    /\ authoritative' = authoritative \cup {s} /\ s \notin authoritative
    /\ UNCHANGED <<now, unavailable, seatVars, rowVars, settled, inflight>>

-----------------------------------------------------------------------------
(* Payment outcomes, as far as they touch bookings: see module Payments for the
   rows and the provider behind them. *)

\* apply_payment_outcome(..., 'succeeded'): a pending instant booking must be
\* confirmed or the whole outcome rolls back; any other booking stays as it is.
PaymentSucceeds(k) ==
    /\ PaymentRequired(k) /\ status[k] \notin {"none", "draft"}
    /\ settled' = settled \cup {k}
    /\ IF status[k] = "pending" /\ mode[k] = "instant"
       THEN Confirm(k, TRUE)
       ELSE UNCHANGED <<seatVars, rowVars>>
    /\ UNCHANGED <<now, slotVars, inflight>>

\* apply_payment_outcome(..., 'failed' or 'cancelled'): a pending or a confirmed
\* booking is cancelled.
PaymentFails(k) ==
    /\ PaymentRequired(k) /\ status[k] \in {"pending", "confirmed"}
    /\ Retire(k, "cancelled")
    /\ UNCHANGED others

-----------------------------------------------------------------------------
(* The clock and the sweep. *)

Tick == now < MaxNow /\ now' = now + 1
        /\ UNCHANGED <<slotVars, seatVars, rowVars, settled, inflight>>

\* Mutant: the sweep passes over slots that have started.
DueUnstarted ==
    {k \in Keys : status[k] \in {"pending", "draft"} /\ hold[k] <= now /\ ~Started(SlotOf[k])}

Due == {k \in Keys : status[k] \in {"pending", "draft"} /\ hold[k] <= now}

\* The rows one call selects while other transactions hold locks on L: the
\* earliest p_limit of the others due.
Batches(L) ==
    LET free == Due \ L
    IN  {B \in SUBSET free :
            /\ Cardinality(B) = IF Cardinality(free) <= Limit THEN Cardinality(free) ELSE Limit
            /\ \A b \in B, d \in free \ B : hold[b] <= hold[d]}

\* expire_bookings: one transaction for the batch.  A row that may not expire
\* raises, and then none of the batch does.
Sweep(L) ==
    \E B \in Batches(L) :
        /\ B # {}
        /\ \A k \in B : Allowed(status[k], "expired")
        /\ Release(B)
        /\ status' = [k \in Keys |-> IF k \in B THEN "expired" ELSE status[k]]
        /\ UNCHANGED <<mode, hold, others>>

ExpireBookings == \E L \in SUBSET Due : Sweep(L)

CommitStep(q) ==
    CommitDraft(q) \/ CommitNew(q) \/ CommitReplay(q) \/ CommitAborts(q)

BookingStep(k) ==
    \/ CreateDraft(k) \/ BusinessConfirms(k) \/ BusinessRejects(k)
    \/ \E full \in BOOLEAN : CancelBooking(k, full)
    \/ RefundCancelled(k) \/ AdminForceCancel(k)
    \/ PaymentSucceeds(k) \/ PaymentFails(k)

SlotStep(s) ==
    CompleteDay(s) \/ AddBlackout(s) \/ DeleteBlackout(s) \/ MarkAuthoritative(s)

Next ==
    \/ Tick \/ ExpireBookings
    \/ \E r \in Requests, k \in Keys : QuoteCommit(r, k)
    \/ \E q \in inflight : CommitStep(q)
    \/ \E k \in Keys : BookingStep(k)
    \/ \E s \in Slots : SlotStep(s)

Spec == Init /\ [][Next]_vars

\* The clock moves, and the scheduler calls expire-holds for ever (scheduler.py
\* run_forever), in the end while nobody holds a row.  Nothing obliges a customer,
\* a business or the provider to act.
Fairness == WF_vars(Tick) /\ WF_vars(Sweep({}))
FairSpec == Spec /\ Fairness

-----------------------------------------------------------------------------
(* Properties. *)

\* guard_inventory_consistency (019:288-306) never raises at commit: the slot's
\* counter is the sum of the parties of the bookings flagged inventory_reserved
\* and fits its capacity, confirmed and completed bookings are flagged, released
\* ones are not.
InventoryConsistent ==
    /\ \A s \in Slots : /\ reserved[s] = Cardinality(SeatsOf(Keys, s))
                        /\ reserved[s] <= Capacity[s]
    /\ \A k \in Keys : /\ status[k] \in {"confirmed", "completed"} => held[k]
                       /\ status[k] \in Released => ~held[k]

\* The unit rows tell the same story as the counter (019:62-78): every booking
\* with seats owns one row per person, inside the slot, and no seat is in two
\* rows.
NoSeatSoldTwice ==
    /\ \A k \in Keys :
          LET mine == {h \in unitHolds : h.booking = k}
          IN  /\ Cardinality(mine) = IF held[k] THEN PartyOf[k] ELSE 0
              /\ \A h \in mine : h.slot = SlotOf[k] /\ h.unit <= Capacity[h.slot]
    /\ \A g, h \in unitHolds : g.slot = h.slot /\ g.unit = h.unit => g = h

\* docs/payments.md:26, never confirm paid inventory without a successful
\* payment: in every interleaving of settlement, confirmation and refund, a
\* confirmed or completed booking with a price is settled.
PaidBeforeConfirmed ==
    \A k \in Keys :
        status[k] \in {"confirmed", "completed"} /\ PaymentRequired(k) => k \in settled

\* ARCHITECTURE.md:60, payment success never silently revives a booking: once
\* released a booking never takes seats or becomes live again, whichever late
\* outcome, retry or sweep arrives.
NeverRevived ==
    [][\A k \in Keys : status[k] \in Released =>
            status'[k] \in Released /\ ~held'[k]]_vars

\* Every step is one the transition table of state_machine.py allows.
Abstract == INSTANCE Lifecycle
ImplementsLifecycle == Abstract!Spec

\* scheduler.py:61, "Expires unanswered requests and lapsed holds": a pending
\* booking whose hold has elapsed does not stay pending.
LapsedHoldsEnd ==
    \A k \in Keys :
        (status[k] = "pending" /\ hold[k] <= now) ~> (status[k] # "pending")
=============================================================================
