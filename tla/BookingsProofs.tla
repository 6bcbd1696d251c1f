--------------------------- MODULE BookingsProofs ---------------------------
(* What module Bookings keeps true for every set of bookings, every slot and
   every capacity.  The inductive invariant is IInv; three lemmas say what the
   two inventory operators, Reserve and Release, do to the sum of the parties. *)
EXTENDS Bookings, FiniteSetTheorems, TLAPS

\* The counter of every slot is the sum of the parties that hold seats on it.
Counted ==
    \A s \in Slots : reserved[s] = Cardinality(SeatsOf(Keys, s)) /\ reserved[s] <= Capacity[s]

\* Which statuses hold seats: the strengthening is the last conjunct, without
\* which a commit could take seats a second time for the same booking.
Flagged ==
    \A k \in Keys : /\ status[k] \in {"confirmed", "completed"} => held[k]
                    /\ status[k] \in Released => ~held[k]
                    /\ status[k] \in {"none", "draft"} => ~held[k]

\* The unit rows of each booking, and no seat in two of them.
RowsOf(k) == {h \in unitHolds : h.booking = k}

UnitRows ==
    /\ \A k \in Keys : /\ IsFiniteSet(RowsOf(k))
                       /\ Cardinality(RowsOf(k)) = IF held[k] THEN PartyOf[k] ELSE 0
                       /\ \A h \in RowsOf(k) : h.slot = SlotOf[k] /\ h.unit <= Capacity[h.slot]
    /\ \A g, h \in unitHolds : g.slot = h.slot /\ g.unit = h.unit => g = h

\* Nothing is settled before the booking is committed.
DraftsUnpaid == \A k \in settled : status[k] \notin {"none", "draft"}

IInv == TypeOK /\ Counted /\ UnitRows /\ Flagged /\ DraftsUnpaid

-----------------------------------------------------------------------------
(* Sums of parties. *)

\* One booking's seats are as many as its party.
LEMMA PartySeats ==
    ASSUME NEW k \in Keys
    PROVE  /\ IsFiniteSet({k} \X (1..PartyOf[k]))
           /\ Cardinality({k} \X (1..PartyOf[k])) = PartyOf[k]
<1>1. PartyOf[k] \in Nat \ {0}
  BY BookingAssumptions DEF BookingAssumptions
<1>2. IsFiniteSet({k}) /\ Cardinality({k}) = 1
  BY FS_Singleton
<1>3. IsFiniteSet(1..PartyOf[k]) /\ Cardinality(1..PartyOf[k]) = PartyOf[k]
  BY <1>1, FS_Interval
<1>4. IsFiniteSet({k} \X (1..PartyOf[k]))
      /\ Cardinality({k} \X (1..PartyOf[k])) = Cardinality({k}) * Cardinality(1..PartyOf[k])
  BY <1>2, <1>3, FS_Product
<1> QED
  BY <1>1, <1>2, <1>3, <1>4

\* The seats of any set of bookings are finitely many.
LEMMA SeatsFinite ==
    ASSUME NEW B \in SUBSET Keys, NEW s
    PROVE  IsFiniteSet(SeatsOf(B, s))
<1> DEFINE X == {b \in B : held[b] /\ SlotOf[b] = s}
           F == {{k} \X (1..PartyOf[k]) : k \in X}
           f == [k \in X |-> {k} \X (1..PartyOf[k])]
<1>1. IsFiniteSet(X)
  <2>1. IsFiniteSet(Keys) /\ X \in SUBSET Keys
    BY BookingAssumptions DEF BookingAssumptions
  <2> HIDE DEF X
  <2> QED BY <2>1, FS_Subset
<1>2. f \in Surjection(X, F)
  BY DEF Surjection
<1>3. IsFiniteSet(F)
  <2> HIDE DEF X, F, f
  <2> QED BY <1>1, <1>2, FS_Surjection
<1>4. \A T \in F : IsFiniteSet(T)
  <2>1. \A k \in X : IsFiniteSet({k} \X (1..PartyOf[k]))
    BY PartySeats
  <2> QED BY <2>1
<1>5. IsFiniteSet(UNION F)
  <2> HIDE DEF F
  <2> QED BY <1>3, <1>4, FS_UNION
<1> QED
  BY <1>5 DEF SeatsOf

\* Reserving for a booking without seats adds exactly its party to its slot.
LEMMA ReserveCounts ==
    ASSUME TypeOK, Counted, NEW k \in Keys, ~held[k], Reserve(k)
    PROVE  Counted'
<1> DEFINE new == {k} \X (1..PartyOf[k])
<1>0. /\ SlotOf[k] \in Slots /\ PartyOf[k] \in Nat \ {0} /\ Capacity \in [Slots -> Nat]
      /\ reserved \in [Slots -> Nat] /\ held \in [Keys -> BOOLEAN]
  BY BookingAssumptions DEF BookingAssumptions, TypeOK
<1> SUFFICES ASSUME NEW s \in Slots
             PROVE  reserved'[s] = Cardinality(SeatsOf(Keys, s)') /\ reserved'[s] <= Capacity[s]
  BY DEF Counted
<1>1. CASE s # SlotOf[k]
  <2>1. SeatsOf(Keys, s)' = SeatsOf(Keys, s)
    BY <1>0, <1>1 DEF Reserve, SeatsOf
  <2>2. reserved'[s] = reserved[s]
    BY <1>0, <1>1 DEF Reserve
  <2> QED BY <2>1, <2>2 DEF Counted
<1>2. CASE s = SlotOf[k]
  <2>1. SeatsOf(Keys, s)' = SeatsOf(Keys, s) \cup new
    BY <1>0, <1>2 DEF Reserve, SeatsOf
  <2>2. SeatsOf(Keys, s) \cap new = {}
    BY DEF SeatsOf
  <2>3. IsFiniteSet(SeatsOf(Keys, s)) /\ IsFiniteSet(new) /\ Cardinality(new) = PartyOf[k]
    BY SeatsFinite, PartySeats
  <2>4. Cardinality(SeatsOf(Keys, s) \cup new) = Cardinality(SeatsOf(Keys, s)) + PartyOf[k]
    <3> HIDE DEF new
    <3>1. Cardinality(SeatsOf(Keys, s) \cup new)
             = Cardinality(SeatsOf(Keys, s)) + Cardinality(new) - Cardinality(SeatsOf(Keys, s) \cap new)
      BY <2>3, FS_Union
    <3>2. Cardinality(SeatsOf(Keys, s) \cap new) = 0
      BY <2>2, FS_EmptySet
    <3>3. Cardinality(SeatsOf(Keys, s)) \in Nat
      BY <2>3, FS_CardinalityType
    <3> QED BY <1>0, <2>3, <3>1, <3>2, <3>3
  <2>5. reserved'[s] = reserved[s] + PartyOf[k] /\ reserved'[s] <= Capacity[s]
    BY <1>0, <1>2 DEF Reserve
  <2> QED BY <2>1, <2>4, <2>5 DEF Counted
<1> QED BY <1>1, <1>2

\* Releasing a set of bookings takes exactly their parties off every slot.
LEMMA ReleaseCounts ==
    ASSUME TypeOK, Counted, NEW B \in SUBSET Keys, Release(B)
    PROVE  Counted' /\ reserved' \in [Slots -> Nat]
<1>0. Capacity \in [Slots -> Nat] /\ reserved \in [Slots -> Nat] /\ held \in [Keys -> BOOLEAN]
  BY BookingAssumptions DEF BookingAssumptions, TypeOK
<1>1. ASSUME NEW s \in Slots
      PROVE  /\ reserved'[s] = Cardinality(SeatsOf(Keys, s)')
             /\ reserved'[s] <= Capacity[s]
             /\ reserved'[s] \in Nat
  <2> DEFINE all == SeatsOf(Keys, s)
             gone == SeatsOf(B, s)
  <2>1. gone \in SUBSET all
    BY DEF SeatsOf
  <2>2. SeatsOf(Keys, s)' = all \ gone
    <3>1. \A k \in Keys : held'[k] <=> held[k] /\ k \notin B
      BY DEF Release
    <3>2. \A x : x \in SeatsOf(Keys, s)'
                   <=> \E k \in Keys : held'[k] /\ SlotOf[k] = s /\ x \in {k} \X (1..PartyOf[k])
      BY DEF SeatsOf
    <3>3. \A x : x \in all
                   <=> \E k \in Keys : held[k] /\ SlotOf[k] = s /\ x \in {k} \X (1..PartyOf[k])
      BY DEF SeatsOf
    <3>4. \A x : x \in gone
                   <=> \E k \in B : held[k] /\ SlotOf[k] = s /\ x \in {k} \X (1..PartyOf[k])
      BY DEF SeatsOf
    <3>5. \A x, j, k : x \in {j} \X (1..PartyOf[j]) /\ x \in {k} \X (1..PartyOf[k]) => j = k
      OBVIOUS
    <3> HIDE DEF all, gone
    <3>6. \A x : x \in SeatsOf(Keys, s)' <=> x \in all /\ x \notin gone
      <4> TAKE x
      <4>1. CASE x \in SeatsOf(Keys, s)'
        <5>1. PICK k \in Keys : held'[k] /\ SlotOf[k] = s /\ x \in {k} \X (1..PartyOf[k])
          BY <4>1, <3>2
        <5>2. \A j \in B : x \in {j} \X (1..PartyOf[j]) => FALSE
          BY <5>1, <3>1, <3>5
        <5> QED BY <4>1, <5>1, <5>2, <3>1, <3>3, <3>4
      <4>2. CASE x \in all /\ x \notin gone
        <5>1. PICK k \in Keys : held[k] /\ SlotOf[k] = s /\ x \in {k} \X (1..PartyOf[k])
          BY <4>2, <3>3
        <5>2. k \notin B
          BY <4>2, <5>1, <3>4
        <5> QED BY <4>2, <5>1, <5>2, <3>1, <3>2
      <4> QED BY <4>1, <4>2
    <3> QED BY <3>6
  <2>3. reserved'[s] = reserved[s] - Cardinality(gone)
    BY <1>0 DEF Release
  <2>4. reserved[s] = Cardinality(all) /\ reserved[s] <= Capacity[s]
    BY DEF Counted
  <2>5. IsFiniteSet(all)
    BY SeatsFinite
  <2> HIDE DEF all, gone
  <2>6. /\ IsFiniteSet(gone) /\ Cardinality(gone) <= Cardinality(all)
        /\ Cardinality(all) \in Nat /\ Cardinality(gone) \in Nat
    BY <2>1, <2>5, FS_Subset, FS_CardinalityType
  <2>7. all \cap gone = gone
    BY <2>1
  <2>8. Cardinality(all \ gone) = Cardinality(all) - Cardinality(gone)
    BY <2>5, <2>7, FS_Difference
  <2> QED BY <1>0, <2>2, <2>3, <2>4, <2>6, <2>8
<1>2. reserved' = [s \in Slots |-> reserved'[s]]
  BY DEF Release
<1> QED BY <1>1, <1>2 DEF Counted

-----------------------------------------------------------------------------
(* The unit rows. *)

\* allocate_slot_units inserts one row per person, all inside the slot.
LEMMA NewUnitRows ==
    ASSUME TypeOK, NEW k \in Keys, reserved[SlotOf[k]] + PartyOf[k] <= Capacity[SlotOf[k]]
    PROVE  /\ IsFiniteSet(NewUnits(k)) /\ Cardinality(NewUnits(k)) = PartyOf[k]
           /\ NewUnits(k) \subseteq [slot : Slots, unit : Nat \ {0}, booking : Keys]
           /\ \A h \in NewUnits(k) : /\ h.slot = SlotOf[k] /\ h.booking = k
                                    /\ h.unit <= Capacity[h.slot]
           /\ \A g, h \in NewUnits(k) : g.unit = h.unit => g = h
<1> DEFINE s == SlotOf[k]
           lo == reserved[s] + 1
           hi == reserved[s] + PartyOf[k]
           row(u) == [slot |-> s, unit |-> u, booking |-> k]
           f == [u \in lo..hi |-> row(u)]
<1>0. s \in Slots /\ PartyOf[k] \in Nat \ {0} /\ reserved[s] \in Nat /\ Capacity[s] \in Nat
  BY BookingAssumptions DEF BookingAssumptions, TypeOK
<1>1. IsFiniteSet(lo..hi) /\ Cardinality(lo..hi) = PartyOf[k]
  <2>1. lo \in Int /\ hi \in Int /\ lo <= hi /\ hi - lo + 1 = PartyOf[k]
    BY <1>0
  <2> HIDE DEF lo, hi
  <2> QED BY <2>1, FS_Interval
<1>2. NewUnits(k) = {row(u) : u \in lo..hi}
  BY DEF NewUnits
<1>3. ExistsBijection(lo..hi, NewUnits(k))
  <2>1. f \in Bijection(lo..hi, NewUnits(k))
    <3>1. f \in [lo..hi -> NewUnits(k)]
      BY <1>2
    <3>2. \A u, v \in lo..hi : f[u] = f[v] => u = v
      OBVIOUS
    <3>3. \A r \in NewUnits(k) : \E u \in lo..hi : f[u] = r
      BY <1>2
    <3> HIDE DEF f, lo, hi
    <3> QED BY <3>1, <3>2, <3>3 DEF Bijection, Injection, Surjection, IsInjective
  <2> QED BY <2>1 DEF ExistsBijection
<1>4. IsFiniteSet(NewUnits(k)) /\ Cardinality(NewUnits(k)) = PartyOf[k]
  <2> HIDE DEF lo, hi
  <2> QED BY <1>1, <1>3, FS_Bijection
<1> QED BY <1>0, <1>2, <1>4

\* Reserving keeps the rows in step with the flags, and takes no seat twice.
LEMMA ReserveRows ==
    ASSUME TypeOK, UnitRows, NEW k \in Keys, ~held[k], Reserve(k)
    PROVE  UnitRows' /\ unitHolds' \subseteq [slot : Slots, unit : Nat \ {0}, booking : Keys]
<1>1. unitHolds' = unitHolds \cup NewUnits(k) /\ held' = [held EXCEPT ![k] = TRUE]
  BY DEF Reserve
<1>2. \A h \in NewUnits(k), g \in unitHolds : ~(g.slot = SlotOf[k] /\ g.unit = h.unit)
  BY DEF Reserve, UnitTaken
<1>3. /\ IsFiniteSet(NewUnits(k)) /\ Cardinality(NewUnits(k)) = PartyOf[k]
      /\ NewUnits(k) \subseteq [slot : Slots, unit : Nat \ {0}, booking : Keys]
      /\ \A h \in NewUnits(k) : h.slot = SlotOf[k] /\ h.booking = k /\ h.unit <= Capacity[h.slot]
      /\ \A g, h \in NewUnits(k) : g.unit = h.unit => g = h
  <2>1. reserved[SlotOf[k]] + PartyOf[k] <= Capacity[SlotOf[k]]
    BY DEF Reserve
  <2> QED BY <2>1, NewUnitRows
<1>4. RowsOf(k) = {}
  BY FS_EmptySet DEF UnitRows
<1>5. RowsOf(k)' = NewUnits(k) /\ \A j \in Keys : j # k => RowsOf(j)' = RowsOf(j)
  BY <1>1, <1>3, <1>4 DEF RowsOf
<1>6. held'[k] /\ \A j \in Keys : j # k => held'[j] = held[j]
  BY <1>1 DEF TypeOK
<1>7. \A j \in Keys : /\ IsFiniteSet(RowsOf(j)')
                      /\ Cardinality(RowsOf(j)') = IF held'[j] THEN PartyOf[j] ELSE 0
                      /\ \A h \in RowsOf(j)' : h.slot = SlotOf[j] /\ h.unit <= Capacity[h.slot]
  <2> TAKE j \in Keys
  <2>1. CASE j = k
    BY <2>1, <1>3, <1>5, <1>6
  <2>2. CASE j # k
    BY <2>2, <1>5, <1>6 DEF UnitRows
  <2> QED BY <2>1, <2>2
<1>8. \A g, h \in unitHolds' : g.slot = h.slot /\ g.unit = h.unit => g = h
  BY <1>1, <1>2, <1>3 DEF UnitRows
<1> QED BY <1>1, <1>3, <1>7, <1>8 DEF UnitRows, TypeOK

\* Releasing deletes every row of the bookings it releases and no other.
LEMMA ReleaseRows ==
    ASSUME TypeOK, UnitRows, NEW B \in SUBSET Keys, Release(B)
    PROVE  UnitRows' /\ unitHolds' \subseteq [slot : Slots, unit : Nat \ {0}, booking : Keys]
<1>1. unitHolds' = {h \in unitHolds : ~(h.booking \in B /\ held[h.booking])}
  BY DEF Release
<1>2. \A k \in Keys : held'[k] <=> held[k] /\ k \notin B
  BY DEF Release
<1>3. \A k \in Keys : /\ IsFiniteSet(RowsOf(k)')
                      /\ Cardinality(RowsOf(k)') = IF held'[k] THEN PartyOf[k] ELSE 0
                      /\ \A h \in RowsOf(k)' : h.slot = SlotOf[k] /\ h.unit <= Capacity[h.slot]
  <2> TAKE k \in Keys
  <2>1. CASE k \in B /\ held[k]
    <3>1. RowsOf(k)' = {} /\ ~held'[k]
      BY <2>1, <1>1, <1>2 DEF RowsOf
    <3> QED BY <3>1, FS_EmptySet
  <2>2. CASE ~(k \in B /\ held[k])
    <3>1. RowsOf(k)' = RowsOf(k) /\ (held'[k] <=> held[k])
      BY <2>2, <1>1, <1>2 DEF RowsOf
    <3> QED BY <3>1 DEF UnitRows
  <2> QED BY <2>1, <2>2
<1> QED BY <1>1, <1>3 DEF UnitRows, TypeOK

-----------------------------------------------------------------------------
(* The inductive step. *)

\* What any action does to the seats: nothing, one reservation for a booking
\* without seats, or one release.
SeatStep ==
    \/ UNCHANGED seatVars
    \/ \E k \in Keys : ~held[k] /\ Reserve(k)
    \/ \E B \in SUBSET Keys : Release(B)

\* A seat step keeps the counters, the unit rows and their types.
LEMMA SeatsPreserved ==
    ASSUME TypeOK, Counted, UnitRows, SeatStep
    PROVE  /\ Counted' /\ UnitRows'
           /\ reserved' \in [Slots -> Nat] /\ held' \in [Keys -> BOOLEAN]
           /\ unitHolds' \subseteq [slot : Slots, unit : Nat \ {0}, booking : Keys]
<1>1. CASE UNCHANGED seatVars
  <2>1. reserved' = reserved /\ unitHolds' = unitHolds /\ held' = held
    BY <1>1 DEF seatVars
  <2>2. Counted'
    BY <2>1 DEF Counted, SeatsOf
  <2>3. UnitRows'
    BY <2>1 DEF UnitRows, RowsOf
  <2> QED BY <2>1, <2>2, <2>3 DEF TypeOK
<1>2. CASE \E k \in Keys : ~held[k] /\ Reserve(k)
  <2>1. PICK k \in Keys : ~held[k] /\ Reserve(k)
    BY <1>2
  <2>2. reserved' \in [Slots -> Nat] /\ held' \in [Keys -> BOOLEAN]
    <3>1. SlotOf[k] \in Slots /\ PartyOf[k] \in Nat
      BY BookingAssumptions DEF BookingAssumptions
    <3> QED BY <2>1, <3>1 DEF Reserve, TypeOK
  <2> QED BY <2>1, <2>2, ReserveCounts, ReserveRows
<1>3. CASE \E B \in SUBSET Keys : Release(B)
  <2>1. PICK B \in SUBSET Keys : Release(B)
    BY <1>3
  <2>2. held' \in [Keys -> BOOLEAN]
    BY <2>1 DEF Release, TypeOK
  <2> QED BY <2>1, <2>2, ReleaseCounts, ReleaseRows
<1> QED BY <1>1, <1>2, <1>3 DEF SeatStep

\* Hold deadlines are times.
LEMMA HoldUntilType ==
    ASSUME TypeOK, NEW k \in Keys, NEW m
    PROVE  HoldUntil(k, m) \in Nat
BY BookingAssumptions DEF BookingAssumptions, TypeOK, HoldUntil

\* The part of the type invariant and of Flagged that is about booking rows.
RowsOK ==
    /\ status \in [Keys -> Statuses \cup {"none"}]
    /\ mode \in [Keys -> Modes]
    /\ hold \in [Keys -> Nat]
    /\ Flagged

\* One step of a commit is a seat step and keeps the rows.
LEMMA CommitPreserves ==
    ASSUME IInv, NEW q \in inflight, CommitStep(q)
    PROVE  SeatStep /\ RowsOK' /\ inflight' \subseteq inflight
                    /\ UNCHANGED <<now, slotVars, settled>>
<1>0. q.key \in Keys /\ q.mode \in Modes /\ SlotOf[q.key] \in Slots
  BY BookingAssumptions DEF IInv, TypeOK, BookingAssumptions
<1>1. ASSUME NEW m \in Modes, WriteCommit(q, m), status[q.key] \in {"none", "draft"}
      PROVE  SeatStep /\ RowsOK' /\ inflight' \subseteq inflight
                      /\ UNCHANGED <<now, slotVars, settled>>
  <2>1. ~held[q.key] /\ HoldUntil(q.key, m) \in Nat
    BY <1>0, <1>1, HoldUntilType DEF IInv, Flagged
  <2>2. SeatStep
    BY <1>0, <1>1, <2>1 DEF WriteCommit, SeatStep
  <2>3. \/ held' = [held EXCEPT ![q.key] = TRUE]
        \/ held' = held /\ StatusAfterCommit(q) # "confirmed"
    BY <1>1 DEF WriteCommit, Reserve, seatVars
  <2>4. StatusAfterCommit(q) \in {"pending", "confirmed"}
    BY DEF StatusAfterCommit
  <2>5. status' = [status EXCEPT ![q.key] = StatusAfterCommit(q)]
    BY <1>1 DEF WriteCommit
  <2>6. Flagged'
    BY <1>0, <2>1, <2>3, <2>4, <2>5 DEF IInv, TypeOK, Flagged, Released, Statuses
  <2>7. status' \in [Keys -> Statuses \cup {"none"}]
    BY <2>4, <2>5 DEF IInv, TypeOK, Statuses
  <2>8. /\ mode' \in [Keys -> Modes] /\ hold' \in [Keys -> Nat]
        /\ inflight' \subseteq inflight /\ UNCHANGED <<now, slotVars, settled>>
    BY <1>1, <2>1 DEF WriteCommit, IInv, TypeOK
  <2> QED BY <2>2, <2>6, <2>7, <2>8 DEF RowsOK
<1>2. CASE CommitDraft(q)
  BY <1>0, <1>1, <1>2 DEF CommitDraft
<1>3. CASE CommitNew(q)
  <2>1. EffectiveMode(SlotOf[q.key]) \in Modes
    BY DEF EffectiveMode, Modes
  <2> QED BY <1>1, <1>3, <2>1 DEF CommitNew
<1>4. CASE CommitReplay(q) \/ CommitAborts(q)
  BY <1>4 DEF CommitReplay, CommitAborts, IInv, TypeOK, RowsOK, Flagged, SeatStep, rowVars, seatVars
<1> QED BY <1>2, <1>3, <1>4 DEF CommitStep

\* Releasing a set of bookings into a released status keeps the rows.
LEMMA ReleasePreserves ==
    ASSUME IInv, NEW B \in SUBSET Keys, NEW to \in Released, Release(B),
           status' = [k \in Keys |-> IF k \in B THEN to ELSE status[k]],
           UNCHANGED <<mode, hold>>
    PROVE  SeatStep /\ RowsOK'
<1>1. SeatStep
  BY DEF SeatStep
<1>2. \A k \in Keys : held'[k] <=> held[k] /\ k \notin B
  BY DEF Release
<1>3. Flagged'
  BY <1>2 DEF IInv, Flagged, Released
<1> QED BY <1>1, <1>3 DEF RowsOK, IInv, TypeOK, Released, Statuses

\* The same for the release of one booking, as transition_booking writes it.
LEMMA RetirePreserves ==
    ASSUME IInv, NEW k \in Keys, NEW to \in Released, Release({k}),
           status' = [status EXCEPT ![k] = to], UNCHANGED <<mode, hold>>
    PROVE  SeatStep /\ RowsOK'
<1>1. status' = [j \in Keys |-> IF j \in {k} THEN to ELSE status[j]]
  BY DEF IInv, TypeOK
<1> QED BY <1>1, ReleasePreserves

\* A confirmation is a seat step and keeps the rows.
LEMMA ConfirmPreserves ==
    ASSUME IInv, NEW k \in Keys, NEW paid, Confirm(k, paid)
    PROVE  SeatStep /\ RowsOK'
<1>1. SeatStep
  BY DEF Confirm, SeatStep, IInv, TypeOK
<1>2. status' = [status EXCEPT ![k] = "confirmed"] /\ UNCHANGED <<mode, hold>>
  BY DEF Confirm
<1>3. held' = [held EXCEPT ![k] = TRUE]
  <2>1. CASE held[k]
    BY <2>1 DEF Confirm, seatVars, IInv, TypeOK
  <2>2. CASE ~held[k]
    BY <2>2 DEF Confirm, Reserve
  <2> QED BY <2>1, <2>2
<1>4. Flagged'
  BY <1>2, <1>3 DEF Flagged, IInv, TypeOK, Released
<1> QED BY <1>1, <1>2, <1>4 DEF RowsOK, IInv, TypeOK, Statuses

\* Every step of the business, the traveller, the administrator or the provider.
LEMMA BookingPreserves ==
    ASSUME IInv, NEW k \in Keys, BookingStep(k)
    PROVE  /\ SeatStep /\ RowsOK' /\ settled' \subseteq Keys
           /\ UNCHANGED <<now, slotVars, inflight>>
<1>1. CASE CreateDraft(k)
  <2>1. status' = [status EXCEPT ![k] = "draft"] /\ status[k] = "none"
    BY <1>1 DEF CreateDraft
  <2>2. held' = held /\ SeatStep
    BY <1>1 DEF CreateDraft, seatVars, SeatStep
  <2>3. mode' \in [Keys -> Modes] /\ hold' \in [Keys -> Nat]
    BY <1>1, BookingAssumptions
    DEF CreateDraft, EffectiveMode, Modes, IInv, TypeOK, BookingAssumptions
  <2>4. Flagged'
    BY <2>1, <2>2 DEF IInv, Flagged, TypeOK, Released
  <2>5. settled' \subseteq Keys /\ UNCHANGED <<now, slotVars, inflight>>
    BY <1>1 DEF CreateDraft, IInv, TypeOK
  <2> QED BY <2>1, <2>2, <2>3, <2>4, <2>5 DEF RowsOK, IInv, TypeOK, Statuses
<1>2. CASE BusinessConfirms(k)
  <2>1. Confirm(k, k \in settled)
    BY <1>2 DEF BusinessConfirms
  <2>2. SeatStep /\ RowsOK'
    BY <2>1, ConfirmPreserves
  <2> QED BY <1>2, <2>2 DEF BusinessConfirms, others, IInv, TypeOK
<1>3. CASE \/ BusinessRejects(k) \/ RefundCancelled(k) \/ AdminForceCancel(k) \/ PaymentFails(k)
  <2>1. PICK to \in Released : Retire(k, to)
    BY <1>3 DEF BusinessRejects, RefundCancelled, AdminForceCancel, PaymentFails, Released
  <2>2. SeatStep /\ RowsOK'
    BY <2>1, RetirePreserves DEF Retire
  <2> QED BY <1>3, <2>2
      DEF BusinessRejects, RefundCancelled, AdminForceCancel, PaymentFails, others, IInv, TypeOK
<1>4. CASE \E full \in BOOLEAN : CancelBooking(k, full)
  <2>1. PICK full \in BOOLEAN : CancelBooking(k, full)
    BY <1>4
  <2> DEFINE to == IF full THEN "refunded" ELSE "cancelled"
  <2>2. to \in Released /\ status' = [status EXCEPT ![k] = to] /\ Release({k})
        /\ UNCHANGED <<mode, hold>>
    BY <2>1 DEF CancelBooking, Released, others
  <2> HIDE DEF to
  <2>3. SeatStep /\ RowsOK'
    BY <2>2, RetirePreserves
  <2> QED BY <2>1, <2>3 DEF CancelBooking, others, IInv, TypeOK
<1>5. CASE PaymentSucceeds(k)
  <2>1. CASE status[k] = "pending" /\ mode[k] = "instant"
    <3>1. Confirm(k, TRUE)
      BY <1>5, <2>1 DEF PaymentSucceeds
    <3>2. SeatStep /\ RowsOK'
      BY <3>1, ConfirmPreserves
    <3> QED BY <1>5, <3>2 DEF PaymentSucceeds, IInv, TypeOK
  <2>2. CASE ~(status[k] = "pending" /\ mode[k] = "instant")
    <3>1. UNCHANGED <<seatVars, rowVars>>
      BY <1>5, <2>2 DEF PaymentSucceeds
    <3>2. SeatStep /\ RowsOK'
      BY <3>1 DEF SeatStep, seatVars, rowVars, RowsOK, IInv, TypeOK, Flagged
    <3> QED BY <1>5, <3>2 DEF PaymentSucceeds, IInv, TypeOK
  <2> QED BY <2>1, <2>2
<1> QED BY <1>1, <1>2, <1>3, <1>4, <1>5 DEF BookingStep

\* A slot's step: only the completion of a day touches bookings.
LEMMA SlotPreserves ==
    ASSUME IInv, NEW s \in Slots, SlotStep(s)
    PROVE  /\ SeatStep /\ RowsOK' /\ UNCHANGED <<now, settled, inflight>>
           /\ unavailable' \subseteq Slots /\ authoritative' \subseteq Slots
<1>1. CASE CompleteDay(s)
  <2>1. status' = [k \in Keys |-> IF SlotOf[k] = s /\ status[k] = "confirmed"
                                  THEN "completed" ELSE status[k]]
        /\ UNCHANGED <<mode, hold, seatVars, others>>
    BY <1>1 DEF CompleteDay
  <2>2. Flagged'
    BY <2>1 DEF seatVars, IInv, Flagged, Released
  <2> QED BY <2>1, <2>2 DEF SeatStep, RowsOK, others, slotVars, IInv, TypeOK, Statuses
<1>2. CASE AddBlackout(s) \/ DeleteBlackout(s) \/ MarkAuthoritative(s)
  BY <1>2 DEF AddBlackout, DeleteBlackout, MarkAuthoritative, SeatStep, RowsOK, rowVars,
              seatVars, IInv, TypeOK, Flagged
<1> QED BY <1>1, <1>2 DEF SlotStep

-----------------------------------------------------------------------------
(* What a step does to one booking's status. *)

\* The status of k stays, or moves as the transition table allows, and reaches
\* "confirmed" only if nothing is due or the money is settled.
Moved(k) ==
    status'[k] # status[k] =>
        /\ <<status[k], status'[k]>> \in Abstract!Moves
        /\ status'[k] = "confirmed" /\ PaymentRequired(k) => k \in settled'

\* No step of a commit moves a booking otherwise.
LEMMA CommitMoves ==
    ASSUME IInv, NEW q \in inflight, CommitStep(q), NEW k \in Keys
    PROVE  Moved(k)
<1>0. q.key \in Keys
  BY DEF IInv, TypeOK
<1>1. CASE CommitDraft(q) \/ CommitNew(q)
  <2>1. status[q.key] \in {"none", "draft"}
        /\ status' = [status EXCEPT ![q.key] = StatusAfterCommit(q)]
    BY <1>1 DEF CommitDraft, CommitNew, WriteCommit
  <2>2. \/ StatusAfterCommit(q) = "pending"
        \/ StatusAfterCommit(q) = "confirmed" /\ ~PaymentRequired(q.key)
    BY DEF StatusAfterCommit
  <2> QED BY <1>0, <2>1, <2>2
      DEF Moved, Abstract!Moves, Abstract!AllowedTransitions, IInv, TypeOK
<1>2. CASE CommitReplay(q) \/ CommitAborts(q)
  BY <1>2 DEF CommitReplay, CommitAborts, rowVars, Moved
<1> QED BY <1>1, <1>2 DEF CommitStep

\* Nor does any step of a booking's own.
LEMMA BookingMoves ==
    ASSUME IInv, NEW j \in Keys, BookingStep(j), NEW k \in Keys
    PROVE  Moved(k)
<1> USE DEF IInv, TypeOK, Abstract!Moves, Abstract!AllowedTransitions
<1>1. CASE CreateDraft(j)
  BY <1>1 DEF CreateDraft, Moved
<1>2. CASE BusinessConfirms(j)
  BY <1>2 DEF BusinessConfirms, Confirm, Confirmable, others, Moved
<1>3. CASE \/ BusinessRejects(j) \/ RefundCancelled(j) \/ AdminForceCancel(j) \/ PaymentFails(j)
  <2>1. PICK to \in Released : Retire(j, to)
    BY <1>3 DEF BusinessRejects, RefundCancelled, AdminForceCancel, PaymentFails, Released
  <2>2. <<status[j], to>> \in Abstract!Moves /\ to # "confirmed"
    BY <2>1 DEF Retire, Allowed, Released
  <2>3. status' = [status EXCEPT ![j] = to]
    BY <2>1 DEF Retire
  <2> QED BY <2>2, <2>3 DEF Moved
<1>4. CASE \E full \in BOOLEAN : CancelBooking(j, full)
  <2>1. PICK full \in BOOLEAN : CancelBooking(j, full)
    BY <1>4
  <2> DEFINE to == IF full THEN "refunded" ELSE "cancelled"
  <2>2. status' = [status EXCEPT ![j] = to] /\ status[j] \in {"draft", "pending", "confirmed"}
        /\ (full => j \in settled)
    BY <2>1 DEF CancelBooking, Allowed
  <2>3. status[j] = "draft" => ~full
    BY <2>2 DEF DraftsUnpaid
  <2> QED BY <2>2, <2>3 DEF Moved
<1>5. CASE PaymentSucceeds(j)
  BY <1>5 DEF PaymentSucceeds, Confirm, rowVars, Moved
<1> QED BY <1>1, <1>2, <1>3, <1>4, <1>5 DEF BookingStep

\* Nor any step at all.
LEMMA NextMoves == ASSUME IInv, [Next]_vars, NEW k \in Keys PROVE Moved(k)
<1>1. CASE ExpireBookings
  <2>1. PICK B \in SUBSET Due :
                /\ \A b \in B : Allowed(status[b], "expired")
                /\ status' = [b \in Keys |-> IF b \in B THEN "expired" ELSE status[b]]
    BY <1>1 DEF ExpireBookings, Sweep, Batches
  <2> QED BY <2>1 DEF Moved, Allowed, Abstract!Moves, Abstract!AllowedTransitions
<1>2. CASE \E s \in Slots : SlotStep(s)
  BY <1>2 DEF SlotStep, CompleteDay, AddBlackout, DeleteBlackout, MarkAuthoritative, rowVars,
              Moved, Abstract!Moves, Abstract!AllowedTransitions
<1>3. CASE Tick \/ (\E r \in Requests, b \in Keys : QuoteCommit(r, b)) \/ UNCHANGED vars
  BY <1>3 DEF Tick, QuoteCommit, rowVars, vars, Moved
<1> QED BY <1>1, <1>2, <1>3, CommitMoves, BookingMoves DEF Next

\* A settled booking stays settled, and no draft is settled.
LEMMA SettledGrows ==
    ASSUME IInv, [Next]_vars
    PROVE  /\ settled \subseteq settled'
           /\ \A k \in settled' \ settled : status[k] \notin {"none", "draft"}
<1>1. CASE \E k \in Keys : BookingStep(k)
  BY <1>1 DEF BookingStep, CreateDraft, BusinessConfirms, BusinessRejects, CancelBooking,
              RefundCancelled, AdminForceCancel, PaymentSucceeds, PaymentFails, others
<1>2. CASE \E q \in inflight : CommitStep(q)
  BY <1>2, CommitPreserves
<1>3. CASE \E s \in Slots : SlotStep(s)
  BY <1>3, SlotPreserves
<1>4. CASE Tick \/ ExpireBookings \/ (\E r \in Requests, k \in Keys : QuoteCommit(r, k)) \/ UNCHANGED vars
  BY <1>4 DEF Tick, ExpireBookings, Sweep, QuoteCommit, others, vars
<1> QED BY <1>1, <1>2, <1>3, <1>4 DEF Next

-----------------------------------------------------------------------------
(* The invariant. *)

\* The invariant holds at first.
LEMMA InitIInv == Init => IInv
<1> SUFFICES ASSUME Init PROVE IInv
  OBVIOUS
<1>1. TypeOK
  BY BookingAssumptions DEF Init, TypeOK, BookingAssumptions, Modes
<1>2. Flagged
  BY DEF Init, Flagged, Released
<1>3. Counted
  <2>1. \A s \in Slots : SeatsOf(Keys, s) = {}
    BY DEF Init, SeatsOf
  <2>2. \A s \in Slots : reserved[s] = 0 /\ 0 <= Capacity[s]
    BY BookingAssumptions DEF Init, BookingAssumptions
  <2>3. \A s \in Slots : Cardinality(SeatsOf(Keys, s)) = 0
    BY <2>1, FS_EmptySet, Zenon
  <2> QED BY <2>2, <2>3 DEF Counted
<1>4. UnitRows
  <2>1. \A k \in Keys : RowsOf(k) = {}
    BY DEF Init, RowsOf
  <2> QED BY <2>1, FS_EmptySet DEF Init, UnitRows
<1>5. DraftsUnpaid
  BY DEF Init, DraftsUnpaid
<1> QED BY <1>1, <1>2, <1>3, <1>4, <1>5 DEF IInv

\* Every action of Next, or a step that changes nothing, keeps it.
LEMMA NextIInv == IInv /\ [Next]_vars => IInv'
<1> SUFFICES ASSUME IInv, [Next]_vars PROVE IInv'
  OBVIOUS
<1> DEFINE Kept == /\ SeatStep /\ RowsOK'
                   /\ now' \in 0..MaxNow
                   /\ unavailable' \subseteq Slots /\ authoritative' \subseteq Slots
                   /\ settled' \subseteq Keys
                   /\ inflight' \subseteq [req : Requests, key : Keys, mode : Modes]
<1>0. SUFFICES Kept
  <2>1. Counted' /\ UnitRows' /\ reserved' \in [Slots -> Nat] /\ held' \in [Keys -> BOOLEAN]
        /\ unitHolds' \subseteq [slot : Slots, unit : Nat \ {0}, booking : Keys]
    BY <1>0, SeatsPreserved DEF IInv
  <2>2. TypeOK'
    BY <1>0, <2>1 DEF TypeOK, RowsOK
  <2>3. DraftsUnpaid'
    <3> SUFFICES ASSUME NEW k \in settled' PROVE status'[k] \notin {"none", "draft"}
      BY DEF DraftsUnpaid
    <3>1. status[k] \notin {"none", "draft"} /\ k \in Keys
      BY <1>0, SettledGrows DEF IInv, DraftsUnpaid
    <3>2. status'[k] # status[k] => <<status[k], status'[k]>> \in Abstract!Moves
      BY <3>1, NextMoves DEF Moved
    <3> QED BY <3>1, <3>2 DEF Abstract!Moves, Abstract!AllowedTransitions
  <2> QED BY <1>0, <2>1, <2>2, <2>3 DEF IInv, RowsOK
<1>1. CASE Tick
  BY <1>1, BookingAssumptions
  DEF Tick, SeatStep, RowsOK, rowVars, slotVars, seatVars, IInv, TypeOK, Flagged, BookingAssumptions
<1>2. CASE ExpireBookings
  <2>1. PICK B \in SUBSET Due :
                /\ Release(B)
                /\ status' = [k \in Keys |-> IF k \in B THEN "expired" ELSE status[k]]
                /\ UNCHANGED <<mode, hold, others>>
    BY <1>2 DEF ExpireBookings, Sweep, Batches
  <2>2. B \in SUBSET Keys /\ "expired" \in Released
    BY <2>1 DEF Due, Released
  <2>3. SeatStep /\ RowsOK'
    BY <2>1, <2>2, ReleasePreserves
  <2> QED BY <2>1, <2>3 DEF others, slotVars, IInv, TypeOK
<1>3. CASE \E r \in Requests, k \in Keys : QuoteCommit(r, k)
  <2>1. PICK r \in Requests, k \in Keys : QuoteCommit(r, k)
    BY <1>3
  <2>2. [req |-> r, key |-> k, mode |-> EffectiveMode(SlotOf[k])]
            \in [req : Requests, key : Keys, mode : Modes]
    BY DEF EffectiveMode, Modes
  <2>3. inflight' \subseteq [req : Requests, key : Keys, mode : Modes]
    BY <2>1, <2>2 DEF QuoteCommit, IInv, TypeOK
  <2> QED BY <2>1, <2>3
      DEF QuoteCommit, SeatStep, RowsOK, rowVars, slotVars, seatVars, IInv, TypeOK, Flagged
<1>4. CASE \E q \in inflight : CommitStep(q)
  <2>1. SeatStep /\ RowsOK' /\ inflight' \subseteq inflight /\ UNCHANGED <<now, slotVars, settled>>
    BY <1>4, CommitPreserves
  <2> QED BY <2>1 DEF slotVars, IInv, TypeOK
<1>5. CASE \E k \in Keys : BookingStep(k)
  <2>1. SeatStep /\ RowsOK' /\ settled' \subseteq Keys /\ UNCHANGED <<now, slotVars, inflight>>
    BY <1>5, BookingPreserves
  <2> QED BY <2>1 DEF slotVars, IInv, TypeOK
<1>6. CASE \E s \in Slots : SlotStep(s)
  <2>1. SeatStep /\ RowsOK' /\ UNCHANGED <<now, settled, inflight>>
        /\ unavailable' \subseteq Slots /\ authoritative' \subseteq Slots
    BY <1>6, SlotPreserves
  <2> QED BY <2>1 DEF IInv, TypeOK
<1>7. CASE UNCHANGED vars
  BY <1>7 DEF vars, SeatStep, RowsOK, rowVars, slotVars, seatVars, IInv, TypeOK, Flagged
<1> QED BY <1>1, <1>2, <1>3, <1>4, <1>5, <1>6, <1>7 DEF Next

-----------------------------------------------------------------------------
(* Theorems. *)

\* The invariant holds in every reachable state.
THEOREM Invariance == Spec => []IInv
BY InitIInv, NextIInv, PTL DEF Spec

\* Every variable keeps its type.
THEOREM TypeCorrect == Spec => []TypeOK
<1>1. IInv => TypeOK
  BY DEF IInv
<1> QED BY <1>1, Invariance, PTL

\* No slot is oversold and its counter is the sum of the parties with seats, so
\* guard_inventory_consistency (019:288-306) never has cause to raise.
THEOREM InventorySound == Spec => []InventoryConsistent
<1>1. IInv => InventoryConsistent
  BY DEF IInv, Counted, Flagged, InventoryConsistent
<1> QED BY <1>1, Invariance, PTL

\* Every party with seats owns its own unit rows (019:62-78), inside the slot.
THEOREM SeatsSound == Spec => []NoSeatSoldTwice
<1>1. IInv => NoSeatSoldTwice
  BY DEF IInv, UnitRows, RowsOf, NoSeatSoldTwice
<1> QED BY <1>1, Invariance, PTL

\* Paid inventory is confirmed only against settled money (docs/payments.md:26).
THEOREM PaymentSound == Spec => []PaidBeforeConfirmed
<1>1. Init => PaidBeforeConfirmed
  BY DEF Init, PaidBeforeConfirmed
<1>2. IInv /\ PaidBeforeConfirmed /\ [Next]_vars => PaidBeforeConfirmed'
  <2> SUFFICES ASSUME IInv, PaidBeforeConfirmed, [Next]_vars, NEW k \in Keys,
                      status'[k] \in {"confirmed", "completed"}, PaymentRequired(k)
               PROVE  k \in settled'
    BY DEF PaidBeforeConfirmed, PaymentRequired
  <2>1. CASE status[k] \in {"confirmed", "completed"}
    BY <2>1, SettledGrows DEF PaidBeforeConfirmed
  <2>2. CASE status[k] \notin {"confirmed", "completed"}
    <3>1. <<status[k], status'[k]>> \in Abstract!Moves
      BY <2>2, NextMoves DEF Moved
    <3>2. status'[k] = "confirmed"
      BY <2>2, <3>1 DEF Abstract!Moves, Abstract!AllowedTransitions
    <3> QED BY <2>2, <3>2, NextMoves DEF Moved
  <2> QED BY <2>1, <2>2
<1> QED BY <1>1, <1>2, Invariance, PTL DEF Spec

\* A released booking never takes seats or becomes live again
\* (ARCHITECTURE.md:60).
THEOREM ReleasedForGood == Spec => NeverRevived
<1>1. IInv /\ IInv' /\ [Next]_vars
         => [\A k \in Keys : status[k] \in Released => status'[k] \in Released /\ ~held'[k]]_vars
  <2> SUFFICES ASSUME IInv, IInv', [Next]_vars, NEW k \in Keys, status[k] \in Released
               PROVE  status'[k] \in Released /\ ~held'[k]
    OBVIOUS
  <2>1. status'[k] # status[k] => <<status[k], status'[k]>> \in Abstract!Moves
    BY NextMoves DEF Moved
  <2>2. status'[k] \in Released
    BY <2>1 DEF Abstract!Moves, Abstract!AllowedTransitions, Released
  <2> QED BY <2>2 DEF IInv, Flagged
<1> QED BY <1>1, Invariance, PTL DEF Spec, NeverRevived

\* The detailed specification implements the transition table of
\* payments/state_machine.py.
THEOREM Refinement == Spec => ImplementsLifecycle
<1>1. Init => Abstract!Init
  BY DEF Init, Abstract!Init
<1>2. IInv /\ IInv' /\ [Next]_vars => [Abstract!Next]_status
  <2> SUFFICES ASSUME IInv, IInv', [Next]_vars
               PROVE  Abstract!Next
    OBVIOUS
  <2>1. status' \in [Keys -> {m[2] : m \in Abstract!Moves} \cup {"none"}]
    <3>1. Statuses \subseteq {m[2] : m \in Abstract!Moves}
      <4> SUFFICES ASSUME NEW to \in Statuses
                   PROVE  \E m \in Abstract!Moves : m[2] = to
        OBVIOUS
      <4>1. PICK from \in {"none", "draft", "pending", "confirmed", "cancelled"} :
               <<from, to>> \in Abstract!Moves
        BY DEF Statuses, Abstract!Moves, Abstract!AllowedTransitions
      <4>2. <<from, to>>[2] = to
        OBVIOUS
      <4> QED BY <4>1, <4>2
    <3> QED BY <3>1 DEF IInv, TypeOK
  <2>2. \A k \in Keys : status'[k] # status[k] => <<status[k], status'[k]>> \in Abstract!Moves
    BY NextMoves DEF Moved
  <2> QED BY <2>1, <2>2 DEF Abstract!Next
<1> QED BY <1>1, <1>2, Invariance, PTL DEF Spec, ImplementsLifecycle, Abstract!Spec
=============================================================================
