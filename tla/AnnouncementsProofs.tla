------------------------- MODULE AnnouncementsProofs -------------------------
(* Whatever ends or confirms a booking is announced to its traveller, for every
   set of bookings.  The argument is the life cycle: Moved, of BookingsProofs,
   gives the pairs of statuses a step may join, and each pair has a write whose
   event is the one that the new status asks for, or follows a status that was
   announced when it was reached.  That nothing is told twice is Fits: what was told
   of a booking can be read off its status, and no move of the life cycle writes a
   status whose event was told by then. *)
EXTENDS Announcements, BookingsProofs

AInv == IInv /\ TravellerTold

EventNames == {"booking.requested", "business.booking.requested",
               "confirmed", "rejected", "cancelled", "expired"}

\* The statuses a booking may have once event e was emitted for it.
Since(e) ==
    CASE e = "confirmed" -> {"confirmed", "completed", "cancelled", "refunded"}
      [] e = "cancelled" -> {"cancelled", "refunded"}
      [] e \in {"rejected", "expired"} -> {e}
      [] OTHER -> Statuses \ {"draft"}

Fits == /\ told \subseteq Keys \X EventNames
        /\ \A k \in Keys : \A e \in EventNames : <<k, e>> \in told => status[k] \in Since(e)

\* What the trigger emits for a write is told, and nothing told is forgotten.
LEMMA Emitted ==
    ASSUME Announce, NEW k \in Keys
    PROVE  /\ told \subseteq told'
           /\ \A x \in RowWrites(k) : \A e \in Events(x[1], x[2], mode'[k]) : <<k, e>> \in told'
<1>1. told \subseteq told'
  BY DEF Announce
<1>2. ASSUME NEW x \in RowWrites(k), NEW e \in Events(x[1], x[2], mode'[k])
      PROVE  <<k, e>> \in told'
  <2>1. e \in EventsOf(k)
    BY <1>2 DEF EventsOf
  <2>2. told' = told \cup UNION {{j} \X EventsOf(j) : j \in Keys}
    BY DEF Announce
  <2>3. <<k, e>> \in {k} \X EventsOf(k)
    BY <2>1
  <2> QED BY <2>2, <2>3
<1> QED BY <1>1, <1>2

\* A step that leaves a booking's status leaves its mode.
LEMMA ModeKept ==
    ASSUME IInv, [Next]_vars, NEW k \in Keys, status'[k] = status[k]
    PROVE  mode'[k] = mode[k]
<1> USE DEF IInv, TypeOK
<1>1. CASE \E q \in inflight : CommitStep(q)
  <2>1. PICK q \in inflight : CommitStep(q)
    BY <1>1
  <2>2. CASE CommitDraft(q) \/ CommitNew(q)
    <3>1. /\ status[q.key] \in {"none", "draft"}
          /\ status' = [status EXCEPT ![q.key] = StatusAfterCommit(q)]
          /\ \E m : mode' = [mode EXCEPT ![q.key] = m]
      BY <2>2 DEF CommitDraft, CommitNew, WriteCommit
    <3>2. StatusAfterCommit(q) \in {"pending", "confirmed"}
      BY DEF StatusAfterCommit
    <3>3. k # q.key
      BY <3>1, <3>2
    <3> QED BY <3>1, <3>3
  <2>3. CASE CommitReplay(q) \/ CommitAborts(q)
    BY <2>3 DEF CommitReplay, CommitAborts, rowVars
  <2> QED BY <2>1, <2>2, <2>3 DEF CommitStep
<1>2. CASE \E j \in Keys : BookingStep(j)
  BY <1>2 DEF BookingStep, CreateDraft, BusinessConfirms, BusinessRejects, CancelBooking,
              RefundCancelled, AdminForceCancel, PaymentSucceeds, PaymentFails, Confirm, Retire,
              rowVars
<1>3. CASE \E s \in Slots : SlotStep(s)
  BY <1>3 DEF SlotStep, CompleteDay, AddBlackout, DeleteBlackout, MarkAuthoritative, rowVars
<1>4. CASE Tick \/ ExpireBookings \/ (\E r \in Requests, j \in Keys : QuoteCommit(r, j)) \/ UNCHANGED vars
  BY <1>4 DEF Tick, ExpireBookings, Sweep, QuoteCommit, rowVars, vars
<1> QED BY <1>1, <1>2, <1>3, <1>4 DEF Next

\* Only a draft's key becomes a draft.
LEMMA OnlyDraftKeys ==
    ASSUME IInv, [Next]_vars, NEW k \in Keys \ DraftKeys, status[k] = "none"
    PROVE  status'[k] # "draft"
<1> USE DEF IInv, TypeOK
<1>1. CASE \E q \in inflight : CommitStep(q)
  <2>1. PICK q \in inflight : CommitStep(q)
    BY <1>1
  <2>2. CASE CommitDraft(q) \/ CommitNew(q)
    BY <2>2 DEF CommitDraft, CommitNew, WriteCommit, StatusAfterCommit
  <2>3. CASE CommitReplay(q) \/ CommitAborts(q)
    BY <2>3 DEF CommitReplay, CommitAborts, rowVars
  <2> QED BY <2>1, <2>2, <2>3 DEF CommitStep
<1>2. CASE \E j \in Keys : BookingStep(j)
  BY <1>2 DEF BookingStep, CreateDraft, BusinessConfirms, BusinessRejects, CancelBooking,
              RefundCancelled, AdminForceCancel, PaymentSucceeds, PaymentFails, Confirm, Retire,
              rowVars
<1>3. CASE \E s \in Slots : SlotStep(s)
  BY <1>3 DEF SlotStep, CompleteDay, AddBlackout, DeleteBlackout, MarkAuthoritative, rowVars
<1>4. CASE Tick \/ ExpireBookings \/ (\E r \in Requests, j \in Keys : QuoteCommit(r, j)) \/ UNCHANGED vars
  BY <1>4 DEF Tick, ExpireBookings, Sweep, QuoteCommit, rowVars, vars
<1> QED BY <1>1, <1>2, <1>3, <1>4 DEF Next

\* A booking that moves to an announced status has been told of it in that step.
LEMMA MoveTold ==
    ASSUME Announce, NEW k \in Keys, Moved(k), status'[k] # status[k]
    PROVE  /\ status'[k] \in {"confirmed", "rejected", "cancelled"} => <<k, status'[k]>> \in told'
           /\ status'[k] = "completed" => status[k] = "confirmed"
           /\ status'[k] = "refunded" => status[k] = "cancelled" \/ <<k, "cancelled">> \in told'
           /\ status'[k] = "expired" /\ mode'[k] = "request" => <<k, "expired">> \in told'
<1>0. <<status[k], status'[k]>> \in Abstract!Moves
  BY DEF Moved
<1>1. CASE status'[k] = "confirmed"
  <2>1. \E y : <<y, "confirmed">> \in RowWrites(k)
    BY <1>1 DEF RowWrites
  <2> QED BY <1>1, <2>1, Emitted DEF Events
<1>2. CASE status'[k] \in {"rejected", "cancelled"}
  <2>1. <<status[k], status'[k]>> \in RowWrites(k)
    BY <1>2 DEF RowWrites
  <2> QED BY <1>2, <2>1, Emitted DEF Events
<1>3. CASE status'[k] = "completed"
  BY <1>0, <1>3 DEF Abstract!Moves, Abstract!AllowedTransitions
<1>4. CASE status'[k] = "refunded" /\ status[k] # "cancelled"
  <2>1. <<status[k], "cancelled">> \in RowWrites(k)
    BY <1>4 DEF RowWrites
  <2> QED BY <1>4, <2>1, Emitted DEF Events
<1>5. CASE status'[k] = "expired" /\ mode'[k] = "request"
  <2>1. <<status[k], "expired">> \in RowWrites(k)
    BY <1>5 DEF RowWrites
  <2>2. status[k] # "none"
    BY <1>0, <1>5 DEF Abstract!Moves, Abstract!AllowedTransitions
  <2> QED BY <1>5, <2>1, <2>2, Emitted DEF Events
<1> QED BY <1>1, <1>2, <1>3, <1>4, <1>5

\* What a step emits was not told before, and is what the new status asks for.
LEMMA EmittedIsNew ==
    ASSUME NEW k \in Keys, Moved(k), NEW e \in EventsOf(k)
    PROVE  e \in EventNames /\ status[k] \notin Since(e) /\ status'[k] \in Since(e)
<1>1. PICK x \in RowWrites(k) : e \in Events(x[1], x[2], mode'[k])
  BY DEF EventsOf
<1>2. status'[k] # status[k] /\ <<status[k], status'[k]>> \in Abstract!Moves
  BY <1>1 DEF Moved, RowWrites
<1>3. CASE x = <<status[k], status'[k]>>
  <2>1. e \in Events(status[k], status'[k], mode'[k])
    BY <1>1, <1>3
  <2> QED BY <1>2, <2>1 DEF Events, EventNames, Since, Statuses, Abstract!Moves, Abstract!AllowedTransitions
<1>4. CASE /\ status'[k] = "confirmed" /\ status[k] \in {"none", "draft"}
           /\ x \in {<<status[k], "pending">>, <<"pending", "confirmed">>}
  <2>1. e \in Events(status[k], "pending", mode'[k]) \cup Events("pending", "confirmed", mode'[k])
    BY <1>1, <1>4
  <2> QED BY <1>4, <2>1 DEF Events, EventNames, Since, Statuses
<1>5. CASE /\ status'[k] = "refunded" /\ status[k] # "cancelled"
           /\ x \in {<<status[k], "cancelled">>, <<"cancelled", "refunded">>}
  <2>1. e \in Events(status[k], "cancelled", mode'[k]) \cup Events("cancelled", "refunded", mode'[k])
    BY <1>1, <1>5
  <2> QED BY <1>2, <1>5, <2>1 DEF Events, EventNames, Since
<1> QED BY <1>1, <1>3, <1>4, <1>5 DEF RowWrites

\* Fits is kept, and nothing is repeated.
LEMMA FitsKept ==
    ASSUME IInv, Fits, [Next]_vars, Announce
    PROVE  Fits' /\ repeated' = repeated
<1> DEFINE emitted == UNION {{k} \X EventsOf(k) : k \in Keys}
<1>1. \A k \in Keys : Moved(k)
  BY NextMoves
<1>2. /\ told' = told \cup emitted /\ repeated' = repeated \cup (told \cap emitted)
  BY DEF Announce
<1>3. ASSUME NEW x \in emitted
      PROVE  \E k \in Keys : \E e \in EventsOf(k) : x = <<k, e>>
  BY <1>3
<1> HIDE DEF emitted
<1>4. ASSUME NEW x \in emitted
      PROVE  x \in Keys \X EventNames /\ x \notin told /\ status'[x[1]] \in Since(x[2])
  <2>0. PICK k \in Keys : \E e \in EventsOf(k) : x = <<k, e>>
    BY <1>3, <1>4
  <2>1. PICK e \in EventsOf(k) : x = <<k, e>>
    BY <2>0
  <2>2. e \in EventNames /\ status[k] \notin Since(e) /\ status'[k] \in Since(e)
    BY <1>1, EmittedIsNew
  <2> QED BY <2>1, <2>2 DEF Fits
<1>5. ASSUME NEW k \in Keys, NEW e \in EventNames, status[k] \in Since(e)
      PROVE  status'[k] \in Since(e)
  <2>1. status'[k] # status[k] => <<status[k], status'[k]>> \in Abstract!Moves
    BY <1>1 DEF Moved
  <2> QED BY <1>5, <2>1 DEF EventNames, Since, Statuses, Abstract!Moves, Abstract!AllowedTransitions
<1>6. \A k \in Keys : \A e \in EventNames : <<k, e>> \in told' => status'[k] \in Since(e)
  <2> SUFFICES ASSUME NEW k \in Keys, NEW e \in EventNames, <<k, e>> \in told'
               PROVE  status'[k] \in Since(e)
    OBVIOUS
  <2>1. CASE <<k, e>> \in told
    BY <1>5, <2>1 DEF Fits
  <2>2. CASE <<k, e>> \in emitted
    <3>1. status'[<<k, e>>[1]] \in Since(<<k, e>>[2])
      BY <1>4, <2>2
    <3> QED BY <3>1
  <2> QED BY <1>2, <2>1, <2>2
<1> QED BY <1>2, <1>4, <1>6 DEF Fits

\* The business is asked about a booking as it begins, if it is not a draft.
LEMMA BusinessAsked ==
    ASSUME IInv, [Next]_vars, Announce, NEW k \in Keys \ DraftKeys,
           status[k] = "none", status'[k] # "none"
    PROVE  {k} \X {"booking.requested", "business.booking.requested"} \subseteq told'
<1>1. status'[k] \in {"draft", "pending", "confirmed"}
  BY NextMoves DEF Moved, Abstract!Moves, Abstract!AllowedTransitions
<1>2. status'[k] # "draft"
  BY OnlyDraftKeys
<1>3. <<"none", "pending">> \in RowWrites(k)
  BY <1>1, <1>2 DEF RowWrites
<1> QED BY <1>3, Emitted DEF Events

-----------------------------------------------------------------------------
\* The traveller of every booking has been told how it stands.
THEOREM TravellerAlwaysTold == AnnSpec => []TravellerTold
<1>1. AnnInit => AInv
  BY InitIInv DEF AnnInit, Init, TravellerTold, AInv
<1>2. AInv /\ [Next /\ Announce]_annVars => AInv'
  <2> SUFFICES ASSUME AInv, [Next /\ Announce]_annVars
               PROVE  AInv'
    OBVIOUS
  <2>1. IInv /\ [Next]_vars
    BY DEF AInv, annVars
  <2>2. CASE UNCHANGED annVars
    BY <2>1, <2>2, NextIInv DEF AInv, TravellerTold, annVars, vars, rowVars
  <2>3. CASE Next /\ Announce
    <3> SUFFICES ASSUME NEW k \in Keys
                 PROVE  /\ status'[k] \in {"confirmed", "rejected", "cancelled"} => <<k, status'[k]>> \in told'
                        /\ status'[k] = "completed" => <<k, "confirmed">> \in told'
                        /\ status'[k] = "refunded" => <<k, "cancelled">> \in told'
                        /\ status'[k] = "expired" /\ mode'[k] = "request" => <<k, "expired">> \in told'
      BY <2>1, NextIInv DEF AInv, TravellerTold
    <3>1. /\ status[k] \in {"confirmed", "rejected", "cancelled"} => <<k, status[k]>> \in told'
          /\ status[k] = "completed" => <<k, "confirmed">> \in told'
          /\ status[k] = "refunded" => <<k, "cancelled">> \in told'
          /\ status[k] = "expired" /\ mode[k] = "request" => <<k, "expired">> \in told'
      BY <2>3, Emitted DEF AInv, TravellerTold
    <3>2. CASE status'[k] = status[k]
      BY <2>1, <3>1, <3>2, ModeKept
    <3>3. CASE status'[k] # status[k]
      BY <2>1, <2>3, <3>1, <3>3, NextMoves, MoveTold
    <3> QED BY <3>2, <3>3
  <2> QED BY <2>2, <2>3
<1>3. AInv => TravellerTold
  BY DEF AInv
<1> QED BY <1>1, <1>2, <1>3, PTL DEF AnnSpec

\* No event of a booking is emitted twice, and the business has been asked about every
\* booking that did not begin as a draft (020:402, 062:872).
THEOREM NothingToldTwice == AnnSpec => []ToldOnce
<1>1. AnnInit => IInv /\ Fits /\ ToldOnce
  BY InitIInv DEF AnnInit, Init, Fits, ToldOnce
<1>2. IInv /\ Fits /\ ToldOnce /\ [Next /\ Announce]_annVars => (IInv /\ Fits /\ ToldOnce)'
  <2> SUFFICES ASSUME IInv, Fits, ToldOnce, [Next /\ Announce]_annVars
               PROVE  IInv' /\ Fits' /\ ToldOnce'
    OBVIOUS
  <2>1. [Next]_vars /\ IInv'
    BY NextIInv DEF annVars
  <2>2. CASE UNCHANGED annVars
    BY <2>1, <2>2 DEF Fits, ToldOnce, annVars, vars, rowVars
  <2>3. CASE Next /\ Announce
    <3>1. Fits' /\ repeated' = {}
      BY <2>1, <2>3, FitsKept DEF ToldOnce
    <3>2. ASSUME NEW k \in Keys \ DraftKeys, status'[k] # "none"
          PROVE  {k} \X {"booking.requested", "business.booking.requested"} \subseteq told'
      <4>1. CASE status[k] = "none"
        BY <2>1, <2>3, <3>2, <4>1, BusinessAsked
      <4>2. CASE status[k] # "none"
        BY <2>3, <4>2, Emitted DEF ToldOnce
      <4> QED BY <4>1, <4>2
    <3> QED BY <2>1, <3>1, <3>2 DEF ToldOnce
  <2> QED BY <2>2, <2>3
<1> QED BY <1>1, <1>2, PTL DEF AnnSpec

\* The trigger only adds what is told: the bookings behave as Bookings says.
THEOREM AnnouncedIsBookings == AnnSpec => Spec
<1>1. AnnInit => Init
  BY DEF AnnInit
<1>2. [Next /\ Announce]_annVars => [Next]_vars
  BY DEF annVars
<1> QED BY <1>1, <1>2, PTL DEF AnnSpec, Spec

\* With the trigger too no slot is oversold and no unit sold twice, paid inventory is
\* confirmed only against a payment, every step is one of the life cycle, and what
\* was released, and told so, is not revived.
THEOREM AnnouncedSafety ==
    AnnSpec => /\ []TypeOK /\ []InventoryConsistent /\ []NoSeatSoldTwice /\ []PaidBeforeConfirmed
               /\ NeverRevived /\ ImplementsLifecycle
BY AnnouncedIsBookings, TypeCorrect, InventorySound, SeatsSound, PaymentSound, ReleasedForGood, Refinement, PTL
=============================================================================
