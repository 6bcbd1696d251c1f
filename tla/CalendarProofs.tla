--------------------------- MODULE CalendarProofs ----------------------------
(* What the calendar of a guide keeps, for every set of starts, bookings, blocks
   and schedules: a held start stays on offer, a booking that moved is one
   booking still, and, when guides' tours are booked by tour_book alone, the
   guide's agenda.  CalInv holds of any GuideCalendar; AgendaInv needs the
   general checkout out of the way.  SeatInv, next to CalInv, is about the counters
   of the starts. *)
EXTENDS TourDesk, FiniteSetTheorems, TLAPS

CalTypes ==
    /\ status \in [Bookings -> Statuses]
    /\ slot \in [Bookings -> Slots \cup {NoSlot}]
    /\ offer \in [Slots -> {"open", "closed", "absent"}]
    /\ movedTo \in [Bookings -> Bookings \cup {NoBooking}]
    /\ proposal \in [Bookings -> Proposals]
    /\ guideLock \in Bookings \cup {NoBooking}

\* A row that is not done with points at a start, and the start of one that is
\* held or being written is open.
HeldOpen == \A b \in Bookings :
    /\ status[b] \in {"writing", "draft", "pending", "confirmed"} => slot[b] \in Slots
    /\ status[b] \in {"writing", "pending", "confirmed"} => offer[slot[b]] = "open"

\* The advisory lock belongs to a transaction that is still writing.
LockWriting == guideLock \in Bookings => status[guideLock] = "writing"

\* Two rows never moved to one, and the row moved to has been written.
MovesApart == \A b \in Bookings : movedTo[b] # NoBooking =>
    /\ status[b] = "cancelled"
    /\ status[movedTo[b]] \notin {"none", "writing", "draft"}
    /\ \A x \in Bookings : movedTo[x] = movedTo[b] => x = b

FreshRows == \A b \in Bookings :
    status[b] \in {"none", "writing", "draft"} => proposal[b] = NoProposal /\ movedTo[b] = NoBooking

\* A proposal is of another start.
ProposalsElsewhere == \A b \in Bookings :
    proposal[b] # NoProposal => proposal[b].slot \in Slots /\ proposal[b].slot # slot[b]

CalInv == CalTypes /\ HeldOpen /\ LockWriting /\ MovesApart /\ FreshRows /\ ProposalsElsewhere

-----------------------------------------------------------------------------
(* The steps that write no row and take no start. *)

\* Bookings are answered or end, offers of starts that stay held stay open, and
\* proposals come and go.
Settles ==
    /\ UNCHANGED <<slot, movedTo, guideLock>>
    /\ offer' \in [Slots -> {"open", "closed", "absent"}]
    /\ status' \in [Bookings -> Statuses]
    /\ proposal' \in [Bookings -> Proposals]
    /\ \A b \in Bookings :
        /\ \/ status'[b] = status[b]
           \/ /\ status[b] \in Live
              /\ status'[b] \in {"confirmed", "rejected", "cancelled", "expired"}
        /\ status'[b] \in {"writing", "pending", "confirmed"} /\ offer[slot[b]] = "open"
              => offer'[slot[b]] = "open"
        /\ \/ proposal'[b] = proposal[b]
           \/ proposal'[b] = NoProposal
           \/ /\ status[b] \in Live
              /\ proposal'[b].slot \in Slots /\ proposal'[b].slot # slot[b]

LEMMA SettlesKeeps == ASSUME CalInv, Settles PROVE CalInv'
<1>1. CalTypes'
  BY DEF CalInv, CalTypes, Settles
<1>2. HeldOpen'
  <2> SUFFICES ASSUME NEW b \in Bookings
               PROVE  /\ status'[b] \in {"writing", "draft", "pending", "confirmed"} => slot[b] \in Slots
                      /\ status'[b] \in {"writing", "pending", "confirmed"} => offer'[slot[b]] = "open"
    BY DEF HeldOpen, Settles
  <2>1. status'[b] \in {"writing", "draft", "pending", "confirmed"} =>
            status[b] \in {"writing", "draft", "pending", "confirmed"}
    BY DEF Settles, Live
  <2>2. status'[b] \in {"writing", "pending", "confirmed"} =>
            status[b] \in {"writing", "pending", "confirmed"}
    BY DEF Settles, Live
  <2> QED BY <2>1, <2>2 DEF CalInv, HeldOpen, Settles
<1>3. LockWriting'
  BY DEF CalInv, CalTypes, LockWriting, Settles, Live
<1>4. MovesApart'
  <2> SUFFICES ASSUME NEW b \in Bookings, movedTo[b] # NoBooking
               PROVE  /\ status'[b] = "cancelled"
                      /\ status'[movedTo[b]] \notin {"none", "writing", "draft"}
                      /\ \A x \in Bookings : movedTo[x] = movedTo[b] => x = b
    BY DEF MovesApart, Settles
  <2>1. movedTo[b] \in Bookings
    BY DEF CalInv, CalTypes
  <2> QED BY <2>1 DEF CalInv, MovesApart, Settles, Live
<1>5. FreshRows' /\ ProposalsElsewhere'
  <2> SUFFICES ASSUME NEW b \in Bookings
               PROVE  /\ status'[b] \in {"none", "writing", "draft"} =>
                              proposal'[b] = NoProposal /\ movedTo[b] = NoBooking
                      /\ proposal'[b] # NoProposal =>
                              proposal'[b].slot \in Slots /\ proposal'[b].slot # slot[b]
    BY DEF FreshRows, ProposalsElsewhere, Settles
  <2>1. status'[b] \in {"none", "writing", "draft"} => status[b] = status'[b]
    BY DEF Settles
  <2> QED BY <2>1 DEF CalInv, FreshRows, ProposalsElsewhere, Settles, Live
<1> QED BY <1>1, <1>2, <1>3, <1>4, <1>5 DEF CalInv

LEMMA OfferStays ==
    ASSUME CalInv, UNCHANGED <<slot, movedTo, guideLock, offer, proposal>>,
           NEW B \in SUBSET Bookings, NEW st \in {"confirmed", "rejected", "cancelled", "expired"},
           \A b \in B : status[b] \in Live,
           status' = [b \in Bookings |-> IF b \in B THEN st ELSE status[b]]
    PROVE  Settles
<1>1. status' \in [Bookings -> Statuses]
  BY DEF CalInv, CalTypes, Statuses
<1> QED BY <1>1 DEF CalInv, CalTypes, Settles, Live

\* The guide's answer, the cancellation and the hold expiry.
LEMMA EndsSettle ==
    ASSUME CalInv, NEW b \in Bookings,
           \/ GuideConfirms(b) \/ GuideRejects(b) \/ TourCancel(b) \/ ExpireHolds
    PROVE  Settles
<1>1. CASE GuideConfirms(b) \/ GuideRejects(b)
  <2>1. status[b] \in Live /\ UNCHANGED <<slot, movedTo, guideLock, offer, proposal>>
    BY <1>1 DEF GuideConfirms, GuideRejects, Live, slotVars
  <2>2. PICK st \in {"confirmed", "rejected"} : status' = [status EXCEPT ![b] = st]
    BY <1>1 DEF GuideConfirms, GuideRejects
  <2>3. status' = [x \in Bookings |-> IF x \in {b} THEN st ELSE status[x]]
    BY <2>2 DEF CalInv, CalTypes
  <2> DEFINE B == {b}
  <2>4. B \in SUBSET Bookings /\ \A x \in B : status[x] \in Live
    BY <2>1
  <2>5. status' = [x \in Bookings |-> IF x \in B THEN st ELSE status[x]]
    BY <2>3
  <2>6. st \in {"confirmed", "rejected", "cancelled", "expired"}
    OBVIOUS
  <2> HIDE DEF B
  <2> QED BY <2>1, <2>4, <2>5, <2>6, OfferStays
<1>2. CASE TourCancel(b)
  <2>1. status' \in [Bookings -> Statuses] /\ proposal' \in [Bookings -> Proposals]
    BY <1>2 DEF TourCancel, CalInv, CalTypes, Statuses, Proposals
  <2> QED BY <1>2, <2>1 DEF TourCancel, CalInv, CalTypes, Settles, Live
<1>3. CASE ExpireHolds
  <2>1. \A x \in Lapsed : x \in Bookings /\ status[x] \in Live
    BY DEF Lapsed, Live
  <2> QED BY <1>3, <2>1, OfferStays DEF ExpireHolds
<1> QED BY <1>1, <1>2, <1>3

LEMMA MinGroupSettles == ASSUME CalInv, MinGroupCheck PROVE Settles
<1> DEFINE S == {s \in Slots : UnderMinimum(s)}
           B == UNION {LiveAt(s) : s \in S}
<1>1. /\ offer' = [s \in Slots |-> IF s \in S THEN "closed" ELSE offer[s]]
      /\ status' = [b \in Bookings |-> IF b \in B THEN "cancelled" ELSE status[b]]
      /\ UNCHANGED <<slot, movedTo, proposal, guideLock>>
  BY DEF MinGroupCheck
<1>2. \A b \in B : b \in Bookings /\ status[b] \in Live
  BY DEF LiveAt
<1>3. \A b \in Bookings : slot[b] \in S /\ status[b] \in Live => b \in B
  BY DEF LiveAt
<1>4. \A b \in Bookings : slot[b] \in S => status[b] # "writing"
  BY DEF UnderMinimum, SlotFree
<1> HIDE DEF S, B
<1>5. S \subseteq Slots
  BY DEF S
<1>6. status' \in [Bookings -> Statuses] /\ offer' \in [Slots -> {"open", "closed", "absent"}]
  BY <1>1 DEF CalInv, CalTypes, Statuses
<1>7. ASSUME NEW b \in Bookings, status'[b] \in {"writing", "pending", "confirmed"},
             offer[slot[b]] = "open"
      PROVE  offer'[slot[b]] = "open"
  <2>1. status[b] = status'[b] /\ b \notin B
    BY <1>1, <1>2, <1>7
  <2>2. slot[b] \notin S /\ slot[b] \in Slots
    BY <2>1, <1>3, <1>4, <1>7 DEF Live, CalInv, HeldOpen
  <2> QED BY <1>1, <1>7, <2>2
<1>8. \A b \in Bookings : status'[b] = status[b] \/ (status[b] \in Live /\ status'[b] = "cancelled")
  BY <1>1, <1>2
<1> QED BY <1>1, <1>6, <1>7, <1>8 DEF CalInv, CalTypes, Settles

LEMMA ScheduleSettles ==
    ASSUME CalInv, NEW S \in SUBSET Scheduled, NEW T \in SUBSET Scheduled, SaveSchedule(S, T)
    PROVE  Settles
<1>1. offer' = [s \in Slots |-> IF s \in T THEN "open" ELSE IF s \in S THEN "absent" ELSE offer[s]]
  BY DEF SaveSchedule
<1>2. UNCHANGED <<slot, movedTo, guideLock, status, proposal>>
  BY DEF SaveSchedule, rowVars
<1>3. \A b \in Bookings : slot[b] \notin S
  BY DEF SaveSchedule, Clearable
<1>4. offer' \in [Slots -> {"open", "closed", "absent"}]
  BY <1>1 DEF CalInv, CalTypes
<1>5. ASSUME NEW b \in Bookings, status[b] \in {"writing", "pending", "confirmed"},
             offer[slot[b]] = "open"
      PROVE  offer'[slot[b]] = "open"
  BY <1>1, <1>3, <1>5 DEF CalInv, HeldOpen
<1> QED BY <1>2, <1>4, <1>5 DEF CalInv, CalTypes, Settles

LEMMA ProposalSettles ==
    ASSUME CalInv, NEW b \in Bookings, NEW role \in Roles,
           \/ DeclineMove(b, role)
           \/ \E s \in Slots : Propose(b, role, s)
    PROVE  Settles
<1>1. CASE DeclineMove(b, role)
  <2>1. proposal' = [proposal EXCEPT ![b] = NoProposal]
        /\ UNCHANGED <<slot, movedTo, guideLock, status, offer>>
    BY <1>1 DEF DeclineMove, slotVars
  <2> QED BY <2>1 DEF CalInv, CalTypes, Proposals, Settles
<1>2. CASE \E s \in Slots : Propose(b, role, s)
  <2>1. PICK s \in Slots : Propose(b, role, s)
    BY <1>2
  <2> DEFINE p == [by |-> role, slot |-> s]
  <2>2. p \in Proposals /\ p.slot \in Slots /\ p.slot # slot[b]
    BY <2>1 DEF Propose, Proposals
  <2>3. proposal' = [proposal EXCEPT ![b] = p] /\ status[b] \in Live
        /\ UNCHANGED <<slot, movedTo, guideLock, status, offer>>
    BY <2>1 DEF Propose, slotVars
  <2> HIDE DEF p
  <2> QED BY <2>2, <2>3 DEF CalInv, CalTypes, Settles
<1> QED BY <1>1, <1>2

LEMMA MovesSettle == ASSUME CalInv, CalendarMoves PROVE Settles
<1>1. CASE ExpireHolds
  <2>1. Lapsed \subseteq Bookings /\ \A x \in Lapsed : status[x] \in Live
    BY DEF Lapsed, Live
  <2> QED BY <1>1, <2>1, OfferStays DEF ExpireHolds
<1>2. CASE MinGroupCheck
  BY <1>2, MinGroupSettles
<1>3. CASE \E S, T \in SUBSET Scheduled : SaveSchedule(S, T)
  BY <1>3, ScheduleSettles
<1>4. CASE \/ Tick
           \/ \E p \in Blocks : LookForBlock(p) \/ CommitBlock(p) \/ DeleteBlock(p)
           \/ \E d \in HireDays : AcceptHire(d) \/ CancelHire(d)
  <2>1. UNCHANGED <<offer, status, slot, movedTo, proposal, guideLock>>
    BY <1>4 DEF Tick, LookForBlock, CommitBlock, DeleteBlock, AcceptHire, CancelHire, slotVars, rowVars
  <2> QED BY <2>1 DEF CalInv, CalTypes, Settles
<1> QED BY <1>1, <1>2, <1>3, <1>4 DEF CalendarMoves

-----------------------------------------------------------------------------
(* The steps that write a row or give it a start. *)

LEMMA StartKeeps ==
    ASSUME CalInv, NEW b \in Bookings, NEW s \in Slots,
           status[b] = "none",
           \/ status' = [status EXCEPT ![b] = "writing"] /\ offer[s] = "open"
           \/ status' = [status EXCEPT ![b] = "draft"],
           slot' = [slot EXCEPT ![b] = s],
           UNCHANGED <<offer, movedTo, proposal, guideLock>>
    PROVE  CalInv'
<1>1. PICK st \in {"writing", "draft"} :
          status' = [status EXCEPT ![b] = st] /\ (st = "writing" => offer[s] = "open")
  OBVIOUS
<1>2. CalTypes'
  BY <1>1 DEF CalInv, CalTypes, Statuses
<1>3. HeldOpen'
  BY <1>1 DEF CalInv, CalTypes, HeldOpen
<1>4. LockWriting'
  BY <1>1 DEF CalInv, CalTypes, LockWriting
<1>5. MovesApart'
  BY <1>1 DEF CalInv, CalTypes, MovesApart
<1>6. FreshRows' /\ ProposalsElsewhere'
  BY <1>1 DEF CalInv, CalTypes, FreshRows, ProposalsElsewhere
<1> QED BY <1>2, <1>3, <1>4, <1>5, <1>6 DEF CalInv

LEMMA InsertKeeps ==
    ASSUME CalInv, NEW b \in Bookings, BookInsert(b) PROVE CalInv'
<1>1. status[b] = "writing" /\ guideLock' = b
      /\ UNCHANGED <<status, slot, offer, movedTo, proposal>>
  BY DEF BookInsert, slotVars, rowVars
<1> QED BY <1>1 DEF CalInv, CalTypes, HeldOpen, LockWriting, MovesApart, FreshRows, ProposalsElsewhere

LEMMA CommitKeeps ==
    ASSUME CalInv, NEW b \in Bookings,
           \/ /\ status[b] = "writing" /\ guideLock = b /\ guideLock' = NoBooking
              /\ status' \in {[status EXCEPT ![b] = "confirmed"], [status EXCEPT ![b] = "pending"]}
           \/ /\ status[b] = "draft" /\ offer[slot[b]] = "open" /\ UNCHANGED guideLock
              /\ status' = [status EXCEPT ![b] = "pending"],
           UNCHANGED <<slot, offer, movedTo, proposal>>
    PROVE  CalInv'
<1>1. PICK st \in {"confirmed", "pending"} : status' = [status EXCEPT ![b] = st]
  OBVIOUS
<1>2. status[b] \in {"writing", "draft"} /\ slot[b] \in Slots /\ offer[slot[b]] = "open"
  BY DEF CalInv, HeldOpen
<1>3. CalTypes'
  BY <1>1, CalendarAssumptions DEF CalendarAssumptions, CalInv, CalTypes, Statuses
<1>4. HeldOpen'
  BY <1>1, <1>2 DEF CalInv, CalTypes, HeldOpen
<1>5. LockWriting'
  BY <1>1, CalendarAssumptions DEF CalendarAssumptions, CalInv, CalTypes, LockWriting
<1>6. MovesApart'
  BY <1>1, <1>2 DEF CalInv, CalTypes, MovesApart
<1>7. FreshRows' /\ ProposalsElsewhere'
  BY <1>1, <1>2 DEF CalInv, CalTypes, FreshRows, ProposalsElsewhere
<1> QED BY <1>3, <1>4, <1>5, <1>6, <1>7 DEF CalInv

LEMMA AbortKeeps == ASSUME CalInv, NEW b \in Bookings, BookAbort(b) PROVE CalInv'
<1>1. /\ status[b] = "writing" /\ status' = [status EXCEPT ![b] = "none"]
      /\ slot' = [slot EXCEPT ![b] = NoSlot]
      /\ guideLock' = IF guideLock = b THEN NoBooking ELSE guideLock
      /\ UNCHANGED <<offer, movedTo, proposal>>
  BY DEF BookAbort, slotVars
<1>2. CalTypes'
  BY <1>1 DEF CalInv, CalTypes, Statuses
<1>3. HeldOpen'
  BY <1>1 DEF CalInv, CalTypes, HeldOpen
<1>4. LockWriting'
  BY <1>1, CalendarAssumptions DEF CalendarAssumptions, CalInv, CalTypes, LockWriting
<1>5. MovesApart'
  BY <1>1 DEF CalInv, CalTypes, MovesApart
<1>6. FreshRows' /\ ProposalsElsewhere'
  BY <1>1 DEF CalInv, CalTypes, FreshRows, ProposalsElsewhere
<1> QED BY <1>2, <1>3, <1>4, <1>5, <1>6 DEF CalInv

LEMMA AcceptKeeps ==
    ASSUME CalInv, NEW b \in Bookings, NEW n \in Bookings, NEW role \in Roles,
           AcceptMove(b, n, role)
    PROVE  CalInv'
<1> DEFINE s == proposal[b].slot
<1>1. /\ status[b] \in Live /\ status[n] = "none" /\ proposal[b] # NoProposal /\ offer[s] = "open"
      /\ status' = [status EXCEPT ![b] = "cancelled", ![n] = status[b]]
      /\ slot' = [slot EXCEPT ![n] = s] /\ movedTo' = [movedTo EXCEPT ![b] = n]
      /\ proposal' = [proposal EXCEPT ![b] = NoProposal]
      /\ UNCHANGED <<offer, guideLock>>
  BY DEF AcceptMove, Answers, Bookable, OldRow
<1>2. s \in Slots /\ b # n
  BY <1>1 DEF CalInv, ProposalsElsewhere, Live
<1> HIDE DEF s
<1>3. CalTypes'
  BY <1>1, <1>2 DEF CalInv, CalTypes, Statuses, Proposals
<1>4. HeldOpen'
  BY <1>1, <1>2 DEF CalInv, CalTypes, HeldOpen, Live
<1>5. LockWriting'
  BY <1>1, <1>2 DEF CalInv, CalTypes, LockWriting, Live
<1>6. MovesApart'
  <2> SUFFICES ASSUME NEW x \in Bookings, movedTo'[x] # NoBooking
               PROVE  /\ status'[x] = "cancelled"
                      /\ status'[movedTo'[x]] \notin {"none", "writing", "draft"}
                      /\ \A y \in Bookings : movedTo'[y] = movedTo'[x] => y = x
    BY DEF MovesApart
  <2>1. \A y \in Bookings : movedTo[y] # n
    BY <1>1, CalendarAssumptions DEF CalendarAssumptions, CalInv, MovesApart
  <2>2. \A y \in Bookings : y # b => movedTo'[y] = movedTo[y]
    BY <1>1 DEF CalInv, CalTypes
  <2>3. movedTo'[b] = n /\ status'[b] = "cancelled" /\ status'[n] \in Live
    BY <1>1, <1>2 DEF CalInv, CalTypes
  <2>4. CASE x = b
    BY <2>1, <2>2, <2>3, <2>4 DEF Live
  <2>5. CASE x # b
    <3>1. /\ movedTo[x] \in Bookings /\ movedTo[x] # n /\ status[x] = "cancelled" /\ x # n
          /\ status[movedTo[x]] \notin {"none", "writing", "draft"}
          /\ \A y \in Bookings : movedTo[y] = movedTo[x] => y = x
      BY <2>1, <2>2, <2>5, <1>1 DEF CalInv, CalTypes, MovesApart
    <3>2. status'[movedTo[x]] \notin {"none", "writing", "draft"} /\ status'[x] = "cancelled"
      BY <3>1, <1>1, <1>2, <2>5 DEF CalInv, CalTypes
    <3> QED BY <3>1, <3>2, <2>2, <2>3, <2>5
  <2> QED BY <2>4, <2>5
<1>7. FreshRows'
  BY <1>1, <1>2 DEF CalInv, CalTypes, FreshRows, Live
<1>8. ProposalsElsewhere'
  BY <1>1, <1>2 DEF CalInv, CalTypes, FreshRows, ProposalsElsewhere
<1> QED BY <1>3, <1>4, <1>5, <1>6, <1>7, <1>8 DEF CalInv

-----------------------------------------------------------------------------
LEMMA CalStart == ASSUME CalInit PROVE CalInv
BY CalendarAssumptions DEF CalendarAssumptions, CalInit, CalInv, CalTypes, HeldOpen, LockWriting, MovesApart,
   FreshRows, ProposalsElsewhere, Statuses, Proposals

LEMMA CheckoutKeeps ==
    ASSUME CalInv, NEW b \in Bookings, NEW c \in Travellers, CheckoutNext(b, c)
    PROVE  CalInv'
<1>1. CASE CheckoutCommit(b, c)
  <2>1. /\ status[b] = "draft" /\ offer[slot[b]] = "open"
        /\ status' = [status EXCEPT ![b] = "pending"]
        /\ UNCHANGED <<slot, offer, movedTo, proposal, guideLock>>
    BY <1>1 DEF CheckoutCommit
  <2> QED BY <2>1, CommitKeeps
<1>2. CASE \E k \in Keys, s \in Slots : CheckoutDraft(b, c, k, s)
  <2>1. PICK k \in Keys, s \in Slots : CheckoutDraft(b, c, k, s)
    BY <1>2
  <2>2. /\ status[b] = "none" /\ status' = [status EXCEPT ![b] = "draft"]
        /\ slot' = [slot EXCEPT ![b] = s]
        /\ UNCHANGED <<offer, movedTo, proposal, guideLock>>
    BY <2>1 DEF CheckoutDraft, slotVars
  <2> QED BY <2>2, StartKeeps
<1> QED BY <1>1, <1>2 DEF CheckoutNext

LEMMA BookKeeps ==
    ASSUME CalInv, NEW b \in Bookings,
           \/ Background(b) \/ BookCommit(b)
           \/ \E c \in Travellers, k \in Keys, s \in Slots : BookStart(b, c, k, s)
    PROVE  CalInv'
<1>1. CASE Background(b)
  BY <1>1, InsertKeeps, AbortKeeps DEF Background
<1>2. CASE BookCommit(b)
  <2>1. /\ status[b] = "writing" /\ guideLock = b /\ guideLock' = NoBooking
        /\ status' \in {[status EXCEPT ![b] = "confirmed"], [status EXCEPT ![b] = "pending"]}
        /\ UNCHANGED <<slot, offer, movedTo, proposal>>
    BY <1>2 DEF BookCommit
  <2> QED BY <2>1, CommitKeeps
<1>3. CASE \E c \in Travellers, k \in Keys, s \in Slots : BookStart(b, c, k, s)
  <2>1. PICK c \in Travellers, k \in Keys, s \in Slots : BookStart(b, c, k, s)
    BY <1>3
  <2>2. /\ status[b] = "none" /\ status' = [status EXCEPT ![b] = "writing"] /\ offer[s] = "open"
        /\ slot' = [slot EXCEPT ![b] = s]
        /\ UNCHANGED <<offer, movedTo, proposal, guideLock>>
    BY <2>1 DEF BookStart, slotVars
  <2> QED BY <2>2, StartKeeps
<1> QED BY <1>1, <1>2, <1>3

LEMMA CalStep == ASSUME CalInv, [CalNext]_calVars PROVE CalInv'
<1>1. CASE CalendarMoves
  BY <1>1, MovesSettle, SettlesKeeps
<1>2. ASSUME NEW b \in Bookings,
             \/ Background(b) \/ BookCommit(b)
             \/ \E c \in Travellers, k \in Keys, s \in Slots : BookStart(b, c, k, s)
      PROVE  CalInv'
  BY <1>2, BookKeeps
<1>3. ASSUME NEW b \in Bookings, NEW c \in Checkouts, CheckoutNext(b, c) PROVE CalInv'
  BY <1>3, CheckoutKeeps, CalendarAssumptions DEF CalendarAssumptions
<1>4. ASSUME NEW b \in Bookings, GuideConfirms(b) \/ GuideRejects(b) \/ TourCancel(b) PROVE CalInv'
  BY <1>4, EndsSettle, SettlesKeeps
<1>5. ASSUME NEW b \in Bookings, NEW role \in Roles,
             DeclineMove(b, role) \/ \E s \in Slots : Propose(b, role, s)
      PROVE  CalInv'
  BY <1>5, ProposalSettles, SettlesKeeps
<1>6. ASSUME NEW b \in Bookings, NEW role \in Roles, NEW n \in Bookings, AcceptMove(b, n, role)
      PROVE  CalInv'
  BY <1>6, AcceptKeeps
<1>7. CASE UNCHANGED calVars
  BY <1>7 DEF calVars, slotVars, rowVars, CalInv, CalTypes, HeldOpen, LockWriting, MovesApart,
       FreshRows, ProposalsElsewhere
<1> QED BY <1>1, <1>2, <1>3, <1>4, <1>5, <1>6, <1>7 DEF CalNext

LEMMA CalInvariance == CalSpec => []CalInv
BY CalStart, CalStep, PTL DEF CalSpec

\* Nobody takes away the start a booking is held for: not a changed schedule (061:
\* clear_schedule_slots), not the minimum-group job, not the move of another.
THEOREM HeldStay == CalSpec => []HeldStartsStay
<1>1. CalInv => HeldStartsStay
  BY DEF CalInv, HeldOpen, HeldStartsStay, Live
<1> QED BY <1>1, CalInvariance, PTL

-----------------------------------------------------------------------------
(* The counter of a start is the sum of the parties that hold it. *)

\* The places the parties of B take when w says whose bookings they are.
Places(w, B) == UNION {{b} \X (1..PartyOf[w[b]]) : b \in B}
Sum(w, B) == Cardinality(Places(w, B))

LEMMA OneParty ==
    ASSUME NEW b, NEW c \in Travellers
    PROVE  /\ PartyOf[c] \in Nat \ {0}
           /\ IsFiniteSet({b} \X (1..PartyOf[c]))
           /\ Cardinality({b} \X (1..PartyOf[c])) = PartyOf[c]
<1>1. PartyOf[c] \in Nat \ {0}
  BY CalendarAssumptions DEF CalendarAssumptions
<1>2. IsFiniteSet({b}) /\ Cardinality({b}) = 1
  BY FS_Singleton
<1>3. IsFiniteSet(1..PartyOf[c]) /\ Cardinality(1..PartyOf[c]) = PartyOf[c]
  BY <1>1, FS_Interval
<1>4. IsFiniteSet({b} \X (1..PartyOf[c]))
      /\ Cardinality({b} \X (1..PartyOf[c])) = Cardinality({b}) * Cardinality(1..PartyOf[c])
  BY <1>2, <1>3, FS_Product
<1> QED BY <1>1, <1>2, <1>3, <1>4

LEMMA PlacesFinite ==
    ASSUME NEW w, NEW B \in SUBSET Bookings, \A b \in B : w[b] \in Travellers
    PROVE  IsFiniteSet(Places(w, B)) /\ Sum(w, B) \in Nat
<1> DEFINE F == {{b} \X (1..PartyOf[w[b]]) : b \in B}
           f == [b \in B |-> {b} \X (1..PartyOf[w[b]])]
<1>1. IsFiniteSet(B)
  BY CalendarAssumptions, FS_Subset DEF CalendarAssumptions
<1>2. f \in Surjection(B, F)
  BY DEF Surjection
<1>3. IsFiniteSet(F)
  <2> HIDE DEF F, f
  <2> QED BY <1>1, <1>2, FS_Surjection
<1>4. \A T \in F : IsFiniteSet(T)
  <2>1. \A b \in B : IsFiniteSet({b} \X (1..PartyOf[w[b]]))
    BY OneParty
  <2> QED BY <2>1
<1>5. IsFiniteSet(UNION F)
  <2> HIDE DEF F
  <2> QED BY <1>3, <1>4, FS_UNION
<1>6. IsFiniteSet(Places(w, B))
  BY <1>5 DEF Places
<1> QED BY <1>6, FS_CardinalityType DEF Sum

\* Only whose the bookings of B are counts.
LEMMA SameSum ==
    ASSUME NEW v, NEW w, NEW B, \A b \in B : v[b] = w[b]
    PROVE  Sum(v, B) = Sum(w, B)
<1>1. Places(v, B) = Places(w, B)
  BY DEF Places
<1> QED BY <1>1 DEF Sum

\* A booking that joins adds its party.
LEMMA JoinSum ==
    ASSUME NEW w, NEW B \in SUBSET Bookings, NEW b \in Bookings \ B,
           \A x \in B \cup {b} : w[x] \in Travellers
    PROVE  Sum(w, B \cup {b}) = Sum(w, B) + PartyOf[w[b]]
<1> DEFINE own == {b} \X (1..PartyOf[w[b]])
<1>1. Places(w, B \cup {b}) = Places(w, B) \cup own
  BY DEF Places
<1>2. Places(w, B) \cap own = {}
  BY DEF Places
<1>3. IsFiniteSet(own) /\ Cardinality(own) = PartyOf[w[b]] /\ PartyOf[w[b]] \in Nat
  BY OneParty
<1>4. IsFiniteSet(Places(w, B)) /\ Cardinality(Places(w, B)) \in Nat
  BY PlacesFinite DEF Sum
<1> HIDE DEF own
<1>5. Cardinality(Places(w, B) \cup own)
        = Cardinality(Places(w, B)) + Cardinality(own) - Cardinality(Places(w, B) \cap own)
  BY <1>3, <1>4, FS_Union
<1>6. Cardinality(Places(w, B) \cap own) = 0
  BY <1>2, FS_EmptySet
<1>7. Sum(w, B \cup {b}) = Cardinality(Places(w, B) \cup own) /\ Sum(w, B) = Cardinality(Places(w, B))
  BY <1>1 DEF Sum
<1> QED BY <1>3, <1>4, <1>5, <1>6, <1>7

\* Bookings that leave take their parties with them.
LEMMA LeaveSum ==
    ASSUME NEW w, NEW B \in SUBSET Bookings, NEW C \in SUBSET B,
           \A x \in B : w[x] \in Travellers
    PROVE  /\ Sum(w, B \ C) = Sum(w, B) - Sum(w, C)
           /\ Sum(w, C) \in Nat /\ Sum(w, C) <= Sum(w, B)
<1>1. Places(w, B \ C) = Places(w, B) \ Places(w, C)
  <2>1. ASSUME NEW p PROVE p \in Places(w, B \ C) <=> p \in Places(w, B) /\ p \notin Places(w, C)
    <3>1. \A S : p \in Places(w, S) <=> \E b \in S : p \in {b} \X (1..PartyOf[w[b]])
      BY DEF Places
    <3>2. \A a, b : p \in {a} \X (1..PartyOf[w[a]]) /\ p \in {b} \X (1..PartyOf[w[b]]) => a = b
      OBVIOUS
    <3>3. CASE p \in Places(w, B \ C)
      <4>1. PICK b \in B \ C : p \in {b} \X (1..PartyOf[w[b]])
        BY <3>1, <3>3
      <4>2. ~\E a \in C : p \in {a} \X (1..PartyOf[w[a]])
        BY <4>1, <3>2
      <4> QED BY <4>1, <4>2, <3>1, <3>3
    <3>4. CASE p \in Places(w, B) /\ p \notin Places(w, C)
      <4>1. PICK b \in B : p \in {b} \X (1..PartyOf[w[b]])
        BY <3>1, <3>4
      <4>2. b \notin C
        BY <4>1, <3>1, <3>4
      <4>3. \E x \in B \ C : p \in {x} \X (1..PartyOf[w[x]])
        BY <4>1, <4>2
      <4> QED BY <4>3, <3>1, <3>4
    <3> QED BY <3>3, <3>4
  <2> QED BY <2>1
<1>2. IsFiniteSet(Places(w, B)) /\ Cardinality(Places(w, B)) \in Nat
  BY PlacesFinite DEF Sum
<1>3. Places(w, C) \in SUBSET Places(w, B)
  BY DEF Places
<1>4. /\ IsFiniteSet(Places(w, C)) /\ Cardinality(Places(w, C)) \in Nat
      /\ Cardinality(Places(w, C)) <= Cardinality(Places(w, B))
  BY <1>2, <1>3, FS_Subset, FS_CardinalityType
<1>5. Places(w, B) \cap Places(w, C) = Places(w, C)
  BY <1>3
<1>6. Cardinality(Places(w, B) \ Places(w, C)) = Cardinality(Places(w, B)) - Cardinality(Places(w, C))
  BY <1>2, <1>5, FS_Difference
<1> QED BY <1>1, <1>2, <1>4, <1>6 DEF Sum

\* Whoever has a row is known, no two transactions write a booking of one start,
\* and the start of one that is being written still has the room it saw: the
\* lock of the slot's row keeps it.
SeatTypes == reserved \in [Slots -> Nat] /\ who \in [Bookings -> Travellers \cup {Nobody}]
Known == \A b \in Bookings : status[b] # "none" => who[b] \in Travellers
OneWriter == \A a, b \in Bookings :
    status[a] = "writing" /\ status[b] = "writing" /\ slot[a] = slot[b] => a = b
RoomKept == \A b \in Bookings : status[b] = "writing" => HasRoom(slot[b], Party(b))

SeatInv == SeatTypes /\ Known /\ SeatsAreParties /\ OneWriter /\ RoomKept

LEMMA LiveFacts ==
    ASSUME SeatInv, NEW s \in Slots
    PROVE  /\ LiveAt(s) \in SUBSET Bookings
           /\ \A b \in LiveAt(s) : who[b] \in Travellers
           /\ reserved[s] = Sum(who, LiveAt(s)) /\ reserved[s] <= Capacity[s]
           /\ reserved[s] \in Nat /\ Capacity[s] \in Nat
<1>1. PartySum(LiveAt(s)) = Sum(who, LiveAt(s))
  BY DEF PartySum, Sum, Places, Party
<1>2. Capacity[s] \in Nat /\ reserved[s] \in Nat
  BY CalendarAssumptions DEF CalendarAssumptions, SeatInv, SeatTypes
<1> QED BY <1>1, <1>2 DEF SeatInv, SeatsAreParties, Known, LiveAt, Live

\* What a step shows of every start, it shows of the counters.
LEMMA SeatsFromSums ==
    ASSUME \A s \in Slots : reserved'[s] = Sum(who', LiveAt(s)') /\ reserved'[s] <= Capacity[s]
    PROVE  SeatsAreParties'
<1>1. \A s \in Slots : PartySum(LiveAt(s))' = Sum(who', LiveAt(s)')
  BY DEF PartySum, Sum, Places, Party
<1> QED BY <1>1 DEF SeatsAreParties

\* Nobody begins to write, and the starts of those who do lose no room.
LEMMA WritersKeep ==
    ASSUME SeatInv, CalInv, SeatTypes',
           \A b \in Bookings : status'[b] = "writing" =>
               /\ status[b] = "writing" /\ slot'[b] = slot[b] /\ who'[b] = who[b]
               /\ reserved'[slot[b]] <= reserved[slot[b]]
    PROVE  OneWriter' /\ RoomKept'
<1>1. OneWriter'
  BY DEF SeatInv, OneWriter
<1>2. ASSUME NEW b \in Bookings, status'[b] = "writing" PROVE HasRoom(slot[b], Party(b))'
  <2>1. /\ slot[b] \in Slots /\ who[b] \in Travellers /\ HasRoom(slot[b], Party(b))
        /\ slot'[b] = slot[b] /\ who'[b] = who[b] /\ reserved'[slot[b]] <= reserved[slot[b]]
    BY <1>2 DEF SeatInv, Known, RoomKept, CalInv, HeldOpen
  <2>2. PartyOf[who[b]] \in Nat /\ Capacity[slot[b]] \in Nat
    BY <2>1, CalendarAssumptions DEF CalendarAssumptions
  <2>3. reserved[slot[b]] \in Nat /\ reserved'[slot[b]] \in Nat
    BY <2>1 DEF SeatInv, SeatTypes
  <2> QED BY <2>1, <2>2, <2>3 DEF HasRoom, Party
<1> QED BY <1>1, <1>2 DEF RoomKept

\* Steps after which the same bookings hold the same starts.
LEMMA QuietSeats ==
    ASSUME SeatInv, UNCHANGED reserved,
           \A b \in Bookings : (status[b] \in Live \/ status'[b] \in Live) =>
               status[b] \in Live /\ status'[b] \in Live /\ slot'[b] = slot[b] /\ who'[b] = who[b]
    PROVE  SeatsAreParties'
<1>1. ASSUME NEW s \in Slots
      PROVE  reserved'[s] = Sum(who', LiveAt(s)') /\ reserved'[s] <= Capacity[s]
  <2>1. LiveAt(s)' = LiveAt(s) /\ \A b \in LiveAt(s) : who'[b] = who[b]
    BY DEF LiveAt
  <2>2. Sum(who', LiveAt(s)) = Sum(who, LiveAt(s))
    BY <2>1, SameSum
  <2> QED BY <2>1, <2>2, LiveFacts
<1> QED BY <1>1, SeatsFromSums

\* Bookings that end give back their parties.
LEMMA FreeSeats ==
    ASSUME SeatInv, CalInv, NEW B \in SUBSET Bookings, \A b \in B : status[b] \in Live,
           NEW st \in {"rejected", "cancelled", "expired"},
           status' = [b \in Bookings |-> IF b \in B THEN st ELSE status[b]],
           Release(B), UNCHANGED <<slot, who>>
    PROVE  SeatInv'
<1>1. ASSUME NEW s \in Slots
      PROVE  /\ reserved'[s] = Sum(who', LiveAt(s)')
             /\ reserved'[s] \in Nat /\ reserved'[s] <= reserved[s] /\ reserved'[s] <= Capacity[s]
  <2> DEFINE C == {b \in B : slot[b] = s}
  <2>1. C \in SUBSET LiveAt(s)
    BY DEF LiveAt
  <2>2. LiveAt(s)' = LiveAt(s) \ C
    BY DEF LiveAt, Live
  <2>3. reserved'[s] = reserved[s] - PartySum(C)
    BY DEF Release
  <2>4. PartySum(C) = Sum(who, C)
    BY DEF PartySum, Sum, Places, Party
  <2> HIDE DEF C
  <2>5. /\ Sum(who, LiveAt(s) \ C) = Sum(who, LiveAt(s)) - Sum(who, C)
        /\ Sum(who, C) \in Nat /\ Sum(who, C) <= Sum(who, LiveAt(s))
    BY <2>1, LiveFacts, LeaveSum
  <2> QED BY <2>2, <2>3, <2>4, <2>5, LiveFacts
<1>2. SeatTypes'
  <2>1. reserved' = [s \in Slots |-> reserved'[s]]
    BY DEF Release
  <2> QED BY <1>1, <2>1 DEF SeatInv, SeatTypes
<1>3. OneWriter' /\ RoomKept'
  <2>1. \A b \in Bookings : status'[b] = "writing" => status[b] = "writing" /\ slot[b] \in Slots
    BY DEF CalInv, HeldOpen
  <2> QED BY <1>1, <1>2, <2>1, WritersKeep
<1>4. Known'
  BY DEF SeatInv, Known, Live
<1> QED BY <1>1, <1>2, <1>3, <1>4, SeatsFromSums DEF SeatInv

\* A booking takes the seats of its party while there is room.
LEMMA TakeSeats ==
    ASSUME SeatInv, CalInv, NEW b \in Bookings, status[b] \in {"writing", "draft"},
           HasRoom(slot[b], Party(b)),
           \A x \in Bookings : status[x] = "writing" /\ x # b => slot[x] # slot[b],
           NEW st \in Live, status' = [status EXCEPT ![b] = st],
           reserved' = [reserved EXCEPT ![slot[b]] = @ + Party(b)],
           UNCHANGED <<slot, who>>
    PROVE  SeatInv'
<1>1. slot[b] \in Slots /\ who[b] \in Travellers /\ PartyOf[who[b]] \in Nat
  BY CalendarAssumptions DEF CalendarAssumptions, CalInv, HeldOpen, SeatInv, Known
<1>2. \A s \in Slots : reserved'[s] = IF s = slot[b] THEN reserved[s] + Party(b) ELSE reserved[s]
  BY <1>1 DEF SeatInv, SeatTypes
<1>3. \A s \in Slots : LiveAt(s)' = IF s = slot[b] THEN LiveAt(s) \cup {b} ELSE LiveAt(s)
  BY DEF LiveAt, Live, CalInv, CalTypes
<1>4. ASSUME NEW s \in Slots
      PROVE  reserved'[s] = Sum(who', LiveAt(s)') /\ reserved'[s] <= Capacity[s]
  <2>1. CASE s = slot[b]
    <3>1. b \notin LiveAt(s) /\ LiveAt(s) \in SUBSET Bookings
      BY DEF LiveAt, Live
    <3>2. Sum(who, LiveAt(s) \cup {b}) = Sum(who, LiveAt(s)) + PartyOf[who[b]]
      BY <1>1, <3>1, LiveFacts, JoinSum
    <3> QED BY <1>2, <1>3, <2>1, <3>2, LiveFacts DEF HasRoom, Party
  <2>2. CASE s # slot[b]
    BY <1>2, <1>3, <2>2, LiveFacts
  <2> QED BY <2>1, <2>2
<1>5. SeatTypes'
  BY <1>1 DEF SeatInv, SeatTypes, Party
<1>6. OneWriter' /\ RoomKept'
  <2>1. ASSUME NEW x \in Bookings, status'[x] = "writing"
        PROVE  status[x] = "writing" /\ reserved'[slot[x]] <= reserved[slot[x]]
    <3>1. x # b /\ status[x] = "writing"
      BY <2>1 DEF Live, CalInv, CalTypes
    <3>2. slot[x] \in Slots /\ slot[x] # slot[b]
      BY <3>1 DEF CalInv, HeldOpen
    <3>3. reserved'[slot[x]] = reserved[slot[x]] /\ reserved[slot[x]] \in Nat
      BY <3>2, <1>2 DEF SeatInv, SeatTypes
    <3> QED BY <3>1, <3>3
  <2> QED BY <1>5, <2>1, WritersKeep
<1>7. Known'
  BY <1>1 DEF SeatInv, Known, CalInv, CalTypes
<1> QED BY <1>4, <1>5, <1>6, <1>7, SeatsFromSums DEF SeatInv

\* A move gives back the seats of one start and takes those of another.
LEMMA MoveSeats ==
    ASSUME SeatInv, CalInv, NEW b \in Bookings, NEW n \in Bookings, NEW role \in Roles,
           AcceptMove(b, n, role)
    PROVE  SeatInv'
<1> DEFINE s == proposal[b].slot
           o == slot[b]
           p == PartyOf[who[b]]
<1>1. /\ status[b] \in Live /\ status[n] = "none" /\ proposal[b] # NoProposal
      /\ SlotFree(s) /\ HasRoom(s, p)
      /\ status' = [status EXCEPT ![b] = "cancelled", ![n] = status[b]]
      /\ slot' = [slot EXCEPT ![n] = s] /\ who' = [who EXCEPT ![n] = who[b]]
      /\ reserved' = [reserved EXCEPT ![o] = @ - p, ![s] = @ + p]
  BY DEF AcceptMove, Answers, OldRow, MovedSeats, Party
<1>2. s \in Slots /\ o \in Slots /\ s # o /\ b # n /\ who[b] \in Travellers /\ p \in Nat
  BY <1>1, CalendarAssumptions
  DEF CalendarAssumptions, CalInv, HeldOpen, ProposalsElsewhere, Live, SeatInv, Known
<1>3. \A t \in Slots : reserved'[t] = IF t = s THEN reserved[t] + p
                                      ELSE IF t = o THEN reserved[t] - p ELSE reserved[t]
  BY <1>1, <1>2 DEF SeatInv, SeatTypes
<1>4. \A x \in Bookings : who'[x] = IF x = n THEN who[b] ELSE who[x]
  BY <1>1 DEF SeatInv, SeatTypes
<1>5. ASSUME NEW t \in Slots
      PROVE  LiveAt(t)' = IF t = s THEN LiveAt(t) \cup {n} ELSE LiveAt(t) \ {b}
  <2> SUFFICES ASSUME NEW x \in Bookings
               PROVE  x \in LiveAt(t)' <=> x \in (IF t = s THEN LiveAt(t) \cup {n} ELSE LiveAt(t) \ {b})
    BY DEF LiveAt
  <2>1. CASE x = b
    BY <2>1, <1>1, <1>2 DEF LiveAt, Live, CalInv, CalTypes
  <2>2. CASE x = n
    BY <2>2, <1>1, <1>2 DEF LiveAt, Live, CalInv, CalTypes
  <2>3. CASE x # b /\ x # n
    BY <2>3, <1>1, <1>2 DEF LiveAt, Live, CalInv, CalTypes
  <2> QED BY <2>1, <2>2, <2>3
<1>6. ASSUME NEW t \in Slots
      PROVE  n \notin LiveAt(t) /\ (b \in LiveAt(t) <=> t = o)
  BY <1>1 DEF LiveAt, Live
<1>7. ASSUME NEW t \in Slots PROVE Sum(who', LiveAt(t)) = Sum(who, LiveAt(t))
  <2>1. \A x \in LiveAt(t) : who'[x] = who[x]
    BY <1>4, <1>6 DEF LiveAt
  <2> QED BY <2>1, SameSum
<1> HIDE DEF s, o, p
<1>8. ASSUME NEW t \in Slots
      PROVE  /\ reserved'[t] = Sum(who', LiveAt(t)') /\ reserved'[t] <= Capacity[t]
             /\ reserved'[t] \in Nat /\ (t # s => reserved'[t] <= reserved[t])
  <2>1. /\ LiveAt(t) \in SUBSET Bookings /\ \A x \in LiveAt(t) : who'[x] \in Travellers
        /\ who'[n] \in Travellers /\ PartyOf[who'[n]] = p
        /\ reserved[t] = Sum(who', LiveAt(t)) /\ reserved[t] <= Capacity[t]
        /\ reserved[t] \in Nat /\ Capacity[t] \in Nat
    <3>1. \A x \in LiveAt(t) : x \in Bookings /\ x # n
      BY <1>6 DEF LiveAt
    <3>2. PartyOf[who'[n]] = p
      BY <1>4 DEF p
    <3> QED BY <1>2, <1>4, <1>7, <3>1, <3>2, LiveFacts
  <2>2. CASE t = s
    <3>1. LiveAt(t)' = LiveAt(t) \cup {n} /\ n \in Bookings \ LiveAt(t)
      BY <1>5, <1>6, <2>2
    <3>2. Sum(who', LiveAt(t) \cup {n}) = Sum(who', LiveAt(t)) + PartyOf[who'[n]]
      BY <2>1, <3>1, JoinSum
    <3>3. reserved'[t] = reserved[t] + p /\ reserved[t] + p <= Capacity[t]
      BY <1>1, <1>3, <2>2 DEF HasRoom
    <3> QED BY <1>2, <2>1, <2>2, <3>1, <3>2, <3>3
  <2>3. CASE t = o
    <3>1. LiveAt(t)' = LiveAt(t) \ {b} /\ {b} \in SUBSET LiveAt(t)
      BY <1>2, <1>5, <1>6, <2>3
    <3>2. /\ Sum(who', LiveAt(t) \ {b}) = Sum(who', LiveAt(t)) - Sum(who', {b})
          /\ Sum(who', {b}) \in Nat /\ Sum(who', {b}) <= Sum(who', LiveAt(t))
      BY <2>1, <3>1, LeaveSum
    <3>3. Sum(who', {b}) = p
      <4>1. who'[b] = who[b]
        BY <1>2, <1>4
      <4>2. Places(who', {b}) = {b} \X (1..PartyOf[who[b]])
        BY <4>1 DEF Places
      <4> QED BY <1>2, <4>2, OneParty DEF Sum, p
    <3>4. reserved'[t] = reserved[t] - p
      BY <1>2, <1>3, <2>3
    <3> QED BY <1>2, <2>1, <3>1, <3>2, <3>3, <3>4
  <2>4. CASE t # s /\ t # o
    <3>1. LiveAt(t)' = LiveAt(t) /\ reserved'[t] = reserved[t]
      BY <1>3, <1>5, <1>6, <2>4
    <3> QED BY <2>1, <3>1
  <2> QED BY <2>2, <2>3, <2>4
<1>9. SeatTypes'
  <2>1. reserved' = [t \in Slots |-> reserved'[t]]
    BY <1>1 DEF SeatInv, SeatTypes
  <2>2. who' \in [Bookings -> Travellers \cup {Nobody}]
    BY <1>1 DEF SeatInv, SeatTypes
  <2> QED BY <1>8, <2>1, <2>2 DEF SeatTypes
<1>10. OneWriter' /\ RoomKept'
  <2>1. ASSUME NEW x \in Bookings, status'[x] = "writing"
        PROVE  /\ status[x] = "writing" /\ slot'[x] = slot[x] /\ who'[x] = who[x]
               /\ reserved'[slot[x]] <= reserved[slot[x]]
    <3>1. x # n /\ x # b /\ status[x] = "writing"
      BY <1>1, <1>2, <2>1 DEF Live, CalInv, CalTypes
    <3>2. slot[x] \in Slots /\ slot[x] # s /\ slot'[x] = slot[x]
      BY <1>1, <3>1 DEF CalInv, CalTypes, HeldOpen, SlotFree
    <3> QED BY <1>4, <1>8, <3>1, <3>2
  <2> QED BY <1>9, <2>1, WritersKeep
<1>11. Known'
  BY <1>1, <1>2, <1>4 DEF SeatInv, Known, CalInv, CalTypes
<1> QED BY <1>8, <1>9, <1>10, <1>11, SeatsFromSums DEF SeatInv

\* Steps that move no seats: who holds what stays, and nobody begins to write.
LEMMA StillSeats ==
    ASSUME SeatInv, CalInv, UNCHANGED <<reserved, slot, who>>,
           \A b \in Bookings : \/ status'[b] = status[b]
                               \/ status[b] \in Live /\ status'[b] \in Live
    PROVE  SeatInv'
<1>1. SeatTypes' /\ Known'
  BY DEF SeatInv, SeatTypes, Known, Live
<1>2. SeatsAreParties'
  BY QuietSeats
<1>3. \A b \in Bookings : status'[b] = "writing" =>
          status[b] = "writing" /\ slot[b] \in Slots /\ reserved[slot[b]] \in Nat
  BY DEF Live, CalInv, HeldOpen, SeatInv, SeatTypes
<1>4. OneWriter' /\ RoomKept'
  BY <1>1, <1>3, WritersKeep
<1> QED BY <1>1, <1>2, <1>4 DEF SeatInv

LEMMA StartSeats ==
    ASSUME SeatInv, CalInv, NEW b \in Bookings, NEW c \in Travellers, NEW k \in Keys, NEW s \in Slots,
           BookStart(b, c, k, s)
    PROVE  SeatInv'
<1>1. /\ status[b] = "none" /\ SlotFree(s) /\ HasRoom(s, PartyOf[c])
      /\ status' = [status EXCEPT ![b] = "writing"]
      /\ slot' = [slot EXCEPT ![b] = s] /\ who' = [who EXCEPT ![b] = c]
      /\ UNCHANGED reserved
  BY DEF BookStart, slotVars
<1>2. SeatTypes' /\ Known'
  BY <1>1 DEF SeatInv, SeatTypes, Known, CalInv, CalTypes
<1>3. SeatsAreParties'
  BY <1>1, QuietSeats DEF SeatInv, SeatTypes, CalInv, CalTypes, Live
<1>4. OneWriter'
  BY <1>1 DEF SeatInv, OneWriter, SlotFree, CalInv, CalTypes
<1>5. RoomKept'
  <2> SUFFICES ASSUME NEW x \in Bookings, status'[x] = "writing"
               PROVE  reserved[slot'[x]] + PartyOf[who'[x]] <= Capacity[slot'[x]]
    BY <1>1 DEF RoomKept, HasRoom, Party
  <2>1. CASE x = b
    BY <1>1, <2>1 DEF HasRoom, SeatInv, SeatTypes, CalInv, CalTypes
  <2>2. CASE x # b
    BY <1>1, <2>2 DEF HasRoom, Party, SeatInv, SeatTypes, RoomKept, CalInv, CalTypes
  <2> QED BY <2>1, <2>2
<1> QED BY <1>2, <1>3, <1>4, <1>5 DEF SeatInv

LEMMA DraftSeats ==
    ASSUME SeatInv, CalInv, NEW b \in Bookings, NEW c \in Travellers, CheckoutNext(b, c)
    PROVE  SeatInv'
<1>1. CASE CheckoutCommit(b, c)
  <2>1. /\ status[b] = "draft" /\ SlotFree(slot[b]) /\ HasRoom(slot[b], Party(b))
        /\ status' = [status EXCEPT ![b] = "pending"]
        /\ reserved' = [reserved EXCEPT ![slot[b]] = @ + Party(b)]
        /\ UNCHANGED <<slot, who>>
    BY <1>1 DEF CheckoutCommit
  <2>2. \A x \in Bookings : status[x] = "writing" /\ x # b => slot[x] # slot[b]
    BY <2>1 DEF SlotFree
  <2> QED BY <2>1, <2>2, TakeSeats DEF Live
<1>2. CASE \E k \in Keys, s \in Slots : CheckoutDraft(b, c, k, s)
  <2>1. PICK k \in Keys, s \in Slots : CheckoutDraft(b, c, k, s)
    BY <1>2
  <2>2. /\ status[b] = "none" /\ status' = [status EXCEPT ![b] = "draft"]
        /\ slot' = [slot EXCEPT ![b] = s] /\ who' = [who EXCEPT ![b] = c]
        /\ UNCHANGED reserved
    BY <2>1 DEF CheckoutDraft, slotVars
  <2>3. SeatTypes' /\ Known'
    BY <2>2 DEF SeatInv, SeatTypes, Known, CalInv, CalTypes
  <2>4. SeatsAreParties'
    BY <2>2, QuietSeats DEF SeatInv, SeatTypes, CalInv, CalTypes, Live
  <2>5. \A x \in Bookings : status'[x] = "writing" =>
            /\ status[x] = "writing" /\ slot'[x] = slot[x] /\ who'[x] = who[x]
            /\ slot[x] \in Slots /\ reserved[slot[x]] \in Nat
    BY <2>2 DEF SeatInv, SeatTypes, CalInv, CalTypes, HeldOpen
  <2>6. OneWriter' /\ RoomKept'
    BY <2>2, <2>3, <2>5, WritersKeep
  <2> QED BY <2>3, <2>4, <2>6 DEF SeatInv
<1> QED BY <1>1, <1>2 DEF CheckoutNext

\* tour_book after it began.
LEMMA WriteSeats ==
    ASSUME SeatInv, CalInv, NEW b \in Bookings, Background(b) \/ BookCommit(b)
    PROVE  SeatInv'
<1>1. CASE BookInsert(b)
  <2>1. UNCHANGED <<reserved, slot, who, status>>
    BY <1>1 DEF BookInsert, slotVars, rowVars
  <2> QED BY <2>1, StillSeats
<1>2. CASE BookCommit(b)
  <2>1. /\ status[b] = "writing" /\ UNCHANGED <<slot, who>>
        /\ reserved' = [reserved EXCEPT ![slot[b]] = @ + Party(b)]
        /\ status' \in {[status EXCEPT ![b] = "confirmed"], [status EXCEPT ![b] = "pending"]}
    BY <1>2 DEF BookCommit
  <2>2. PICK st \in Live : status' = [status EXCEPT ![b] = st]
    BY <2>1 DEF Live
  <2>3. /\ HasRoom(slot[b], Party(b))
        /\ \A x \in Bookings : status[x] = "writing" /\ x # b => slot[x] # slot[b]
    BY <2>1 DEF SeatInv, RoomKept, OneWriter
  <2> QED BY <2>1, <2>2, <2>3, TakeSeats
<1>3. CASE BookAbort(b)
  <2>1. /\ status[b] = "writing" /\ status' = [status EXCEPT ![b] = "none"]
        /\ slot' = [slot EXCEPT ![b] = NoSlot] /\ who' = [who EXCEPT ![b] = Nobody]
        /\ UNCHANGED reserved
    BY <1>3 DEF BookAbort, slotVars
  <2>2. SeatTypes' /\ Known'
    BY <2>1 DEF SeatInv, SeatTypes, Known, CalInv, CalTypes
  <2>3. SeatsAreParties'
    BY <2>1, QuietSeats DEF SeatInv, SeatTypes, CalInv, CalTypes, Live
  <2>4. \A x \in Bookings : status'[x] = "writing" =>
            /\ status[x] = "writing" /\ slot'[x] = slot[x] /\ who'[x] = who[x]
            /\ slot[x] \in Slots /\ reserved[slot[x]] \in Nat
    BY <2>1 DEF SeatInv, SeatTypes, CalInv, CalTypes, HeldOpen
  <2>5. OneWriter' /\ RoomKept'
    BY <2>1, <2>2, <2>4, WritersKeep
  <2> QED BY <2>2, <2>3, <2>5 DEF SeatInv
<1> QED BY <1>1, <1>2, <1>3 DEF Background

\* The answers, the cancellation and the jobs.
LEMMA EndSeats ==
    ASSUME SeatInv, CalInv, NEW b \in Bookings,
           GuideConfirms(b) \/ GuideRejects(b) \/ TourCancel(b)
    PROVE  SeatInv'
<1>1. CASE GuideConfirms(b)
  <2>1. /\ status[b] = "pending" /\ status' = [status EXCEPT ![b] = "confirmed"]
        /\ UNCHANGED <<reserved, slot, who>>
    BY <1>1 DEF GuideConfirms, slotVars
  <2> QED BY <2>1, StillSeats DEF Live, CalInv, CalTypes
<1>2. CASE GuideRejects(b) \/ TourCancel(b)
  <2> DEFINE B == {b}
  <2>1. B \in SUBSET Bookings /\ (\A x \in B : status[x] \in Live) /\ Release(B)
        /\ UNCHANGED <<slot, who>>
    BY <1>2 DEF GuideRejects, TourCancel, Live
  <2>2. PICK st \in {"rejected", "cancelled"} : status' = [status EXCEPT ![b] = st]
    BY <1>2 DEF GuideRejects, TourCancel
  <2>3. status' = [x \in Bookings |-> IF x \in B THEN st ELSE status[x]]
    BY <2>2 DEF CalInv, CalTypes
  <2>4. st \in {"rejected", "cancelled", "expired"}
    OBVIOUS
  <2> HIDE DEF B
  <2> QED BY <2>1, <2>3, <2>4, FreeSeats
<1> QED BY <1>1, <1>2

LEMMA MovesSeats == ASSUME SeatInv, CalInv, CalendarMoves PROVE SeatInv'
<1>1. CASE ExpireHolds
  <2>1. Lapsed \in SUBSET Bookings /\ \A x \in Lapsed : status[x] \in Live
    BY DEF Lapsed, Live
  <2>2. /\ status' = [b \in Bookings |-> IF b \in Lapsed THEN "expired" ELSE status[b]]
        /\ Release(Lapsed) /\ UNCHANGED <<slot, who>>
    BY <1>1 DEF ExpireHolds
  <2> QED BY <2>1, <2>2, FreeSeats
<1>2. CASE MinGroupCheck
  <2> DEFINE B == UNION {LiveAt(s) : s \in {t \in Slots : UnderMinimum(t)}}
  <2>1. B \in SUBSET Bookings /\ \A x \in B : status[x] \in Live
    BY DEF LiveAt
  <2>2. /\ status' = [b \in Bookings |-> IF b \in B THEN "cancelled" ELSE status[b]]
        /\ Release(B) /\ UNCHANGED <<slot, who>>
    BY <1>2 DEF MinGroupCheck
  <2> HIDE DEF B
  <2> QED BY <2>1, <2>2, FreeSeats
<1>3. CASE \/ Tick
           \/ \E S, T \in SUBSET Scheduled : SaveSchedule(S, T)
           \/ \E p \in Blocks : LookForBlock(p) \/ CommitBlock(p) \/ DeleteBlock(p)
           \/ \E d \in HireDays : AcceptHire(d) \/ CancelHire(d)
  <2>1. UNCHANGED <<reserved, slot, who, status>>
    BY <1>3
    DEF Tick, SaveSchedule, LookForBlock, CommitBlock, DeleteBlock, AcceptHire, CancelHire, slotVars, rowVars
  <2> QED BY <2>1, StillSeats
<1> QED BY <1>1, <1>2, <1>3 DEF CalendarMoves

LEMMA SeatStep == ASSUME SeatInv, CalInv, [CalNext]_calVars PROVE SeatInv'
<1>1. CASE CalendarMoves
  BY <1>1, MovesSeats
<1>2. ASSUME NEW b \in Bookings, Background(b) \/ BookCommit(b) PROVE SeatInv'
  BY <1>2, WriteSeats
<1>3. ASSUME NEW b \in Bookings, NEW c \in Travellers, NEW k \in Keys, NEW s \in Slots, BookStart(b, c, k, s)
      PROVE  SeatInv'
  BY <1>3, StartSeats
<1>4. ASSUME NEW b \in Bookings, NEW c \in Checkouts, CheckoutNext(b, c) PROVE SeatInv'
  BY <1>4, DraftSeats, CalendarAssumptions DEF CalendarAssumptions
<1>5. ASSUME NEW b \in Bookings, GuideConfirms(b) \/ GuideRejects(b) \/ TourCancel(b) PROVE SeatInv'
  BY <1>5, EndSeats
<1>6. ASSUME NEW b \in Bookings, NEW role \in Roles,
             DeclineMove(b, role) \/ \E s \in Slots : Propose(b, role, s)
      PROVE  SeatInv'
  <2>1. UNCHANGED <<reserved, slot, who, status>>
    BY <1>6 DEF DeclineMove, Propose, slotVars
  <2> QED BY <2>1, StillSeats
<1>7. ASSUME NEW b \in Bookings, NEW role \in Roles, NEW n \in Bookings, AcceptMove(b, n, role)
      PROVE  SeatInv'
  BY <1>7, MoveSeats
<1>8. CASE UNCHANGED calVars
  <2>1. UNCHANGED <<reserved, slot, who, status>>
    BY <1>8 DEF calVars, slotVars, rowVars
  <2> QED BY <2>1, StillSeats
<1> QED BY <1>1, <1>2, <1>3, <1>4, <1>5, <1>6, <1>7, <1>8 DEF CalNext

LEMMA SeatStart == ASSUME CalInit PROVE SeatInv
<1>1. SeatTypes /\ Known /\ OneWriter /\ RoomKept
  BY DEF CalInit, SeatTypes, Known, OneWriter, RoomKept
<1>2. ASSUME NEW s \in Slots
      PROVE  reserved[s] = PartySum(LiveAt(s)) /\ reserved[s] <= Capacity[s]
  <2>1. LiveAt(s) = {}
    BY DEF CalInit, LiveAt, Live
  <2>2. PartySum(LiveAt(s)) = Cardinality({})
    BY <2>1 DEF PartySum
  <2>3. reserved[s] = 0 /\ Capacity[s] \in Nat
    BY CalendarAssumptions DEF CalendarAssumptions, CalInit
  <2> QED BY <2>2, <2>3, FS_EmptySet
<1> QED BY <1>1, <1>2 DEF SeatInv, SeatsAreParties

LEMMA SeatInvariance == CalSpec => []SeatInv
BY CalStart, CalStep, SeatStart, SeatStep, PTL DEF CalSpec

\* The counter of a start is what the parties that hold it add up to, and never
\* more than its seats (062: tour_book, the move, every release), whichever of
\* tour_book, the general checkout, the move and the jobs run side by side.
THEOREM SeatsAreSound == CalSpec => []SeatsAreParties
<1>1. SeatInv => SeatsAreParties
  BY DEF SeatInv
<1> QED BY <1>1, SeatInvariance, PTL

-----------------------------------------------------------------------------
(* Types. *)

ClockTypes == now \in 0..MaxNow /\ hold \in [Bookings -> Nat] /\ key \in [Bookings -> Keys \cup {NoKey}]
DayTypes == hired \subseteq HireDays /\ blocks \subseteq Blocks /\ blocking \subseteq Blocks

LEMMA RequestHoldType ==
    ASSUME ClockTypes, NEW s \in Slots PROVE RequestHold(s) \in Nat
BY CalendarAssumptions DEF CalendarAssumptions, ClockTypes, RequestHold, Least

LEMMA DayTypesStep == ASSUME DayTypes, [CalNext]_calVars PROVE DayTypes'
<1>1. CASE CalendarMoves
  BY <1>1 DEF CalendarMoves, ExpireHolds, MinGroupCheck, Tick, SaveSchedule, LookForBlock, CommitBlock,
     DeleteBlock, AcceptHire, CancelHire, DayTypes, calendar
<1>2. ASSUME NEW b \in Bookings,
             \/ Background(b) \/ BookCommit(b)
             \/ \E c \in Travellers, k \in Keys, s \in Slots : BookStart(b, c, k, s)
             \/ \E c \in Checkouts : CheckoutNext(b, c)
      PROVE  UNCHANGED calendar
  BY <1>2 DEF Background, BookInsert, BookAbort, BookCommit, BookStart, CheckoutNext, CheckoutCommit,
     CheckoutDraft
<1>3. ASSUME NEW b \in Bookings,
             \/ GuideConfirms(b) \/ GuideRejects(b) \/ TourCancel(b)
             \/ \E role \in Roles :
                    \/ DeclineMove(b, role)
                    \/ \E s \in Slots : Propose(b, role, s)
                    \/ \E n \in Bookings : AcceptMove(b, n, role)
      PROVE  UNCHANGED calendar
  BY <1>3 DEF GuideConfirms, GuideRejects, TourCancel, DeclineMove, Propose, AcceptMove
<1>4. UNCHANGED calendar => DayTypes'
  BY DEF calendar, DayTypes
<1> QED BY <1>1, <1>2, <1>3, <1>4 DEF CalNext, calVars

LEMMA ClockTypesStep == ASSUME ClockTypes, CalInv, [CalNext]_calVars PROVE ClockTypes'
<1>1. CASE UNCHANGED <<now, hold, key>>
  BY <1>1 DEF ClockTypes
<1>2. CASE Tick
  BY <1>2, CalendarAssumptions DEF CalendarAssumptions, Tick, ClockTypes, rowVars
<1>3. CASE CalendarMoves
  BY <1>1, <1>2, <1>3
  DEF CalendarMoves, ExpireHolds, MinGroupCheck, SaveSchedule, LookForBlock, CommitBlock, DeleteBlock,
      AcceptHire, CancelHire, rowVars
<1>4. ASSUME NEW b \in Bookings, NEW c \in Travellers, NEW k \in Keys, NEW s \in Slots,
             BookStart(b, c, k, s) \/ CheckoutDraft(b, c, k, s)
      PROVE  ClockTypes'
  BY <1>4, CalendarAssumptions DEF CalendarAssumptions, BookStart, CheckoutDraft, ClockTypes
<1>5. ASSUME NEW b \in Bookings, BookCommit(b) \/ \E c \in Travellers : CheckoutCommit(b, c)
      PROVE  ClockTypes'
  <2>1. slot[b] \in Slots
    BY <1>5 DEF BookCommit, CheckoutCommit, CalInv, HeldOpen
  <2>2. UNCHANGED <<now, key>> /\ (UNCHANGED hold \/ hold' = [hold EXCEPT ![b] = RequestHold(slot[b])])
    BY <1>5 DEF BookCommit, CheckoutCommit
  <2> QED BY <2>1, <2>2, RequestHoldType DEF ClockTypes
<1>6. ASSUME NEW b \in Bookings, Background(b) PROVE ClockTypes'
  BY <1>1, <1>6 DEF Background, BookInsert, BookAbort, rowVars, ClockTypes
<1>7. ASSUME NEW b \in Bookings, NEW role \in Roles, NEW n \in Bookings, AcceptMove(b, n, role)
      PROVE  ClockTypes'
  <2> DEFINE s == proposal[b].slot
             h == IF status[b] = "pending" THEN Least(StartsAt[s], hold[b]) ELSE 0
  <2>1. s \in Slots
    BY <1>7 DEF AcceptMove, Answers, CalInv, ProposalsElsewhere
  <2>2. UNCHANGED <<now, key>> /\ hold' = [hold EXCEPT ![n] = h]
    BY <1>7 DEF AcceptMove
  <2>3. h \in Nat
    BY <2>1, CalendarAssumptions DEF CalendarAssumptions, ClockTypes, Least
  <2> HIDE DEF h
  <2> QED BY <2>2, <2>3 DEF ClockTypes
<1>8. ASSUME NEW b \in Bookings,
             \/ GuideConfirms(b) \/ GuideRejects(b) \/ TourCancel(b)
             \/ \E role \in Roles : DeclineMove(b, role) \/ \E s \in Slots : Propose(b, role, s)
      PROVE  UNCHANGED <<now, hold, key>>
  BY <1>8 DEF GuideConfirms, GuideRejects, TourCancel, DeclineMove, Propose
<1>9. ASSUME NEW b \in Bookings, NEW c \in Checkouts, CheckoutNext(b, c) PROVE ClockTypes'
  BY <1>4, <1>5, <1>9, CalendarAssumptions DEF CalendarAssumptions, CheckoutNext
<1>10. UNCHANGED calVars => UNCHANGED <<now, hold, key>>
  BY DEF calVars, rowVars
<1> QED BY <1>1, <1>3, <1>4, <1>5, <1>6, <1>7, <1>8, <1>9, <1>10 DEF CalNext

LEMMA CalTypesTogether ==
    CalInv /\ SeatInv /\ ClockTypes /\ DayTypes => CalTypeOK
BY DEF CalInv, CalTypes, SeatInv, SeatTypes, ClockTypes, DayTypes, CalTypeOK

\* Every table of the calendar holds rows of its columns' types.
THEOREM CalendarTypeCorrect == CalSpec => []CalTypeOK
<1>1. CalInit => ClockTypes /\ DayTypes
  BY CalendarAssumptions DEF CalendarAssumptions, CalInit, ClockTypes, DayTypes
<1>2. CalSpec => [](ClockTypes /\ DayTypes)
  BY <1>1, CalInvariance, ClockTypesStep, DayTypesStep, PTL DEF CalSpec
<1> QED BY <1>2, CalInvariance, SeatInvariance, CalTypesTogether, PTL

-----------------------------------------------------------------------------
(* The pages only press what the calendar allows. *)

FlowTypes == chosen \in [Travellers -> Slots \cup {NoSlot}] /\ tries \in [Travellers -> Keys]

LEMMA FlowTypesStep == ASSUME FlowTypes, [Next]_vars PROVE FlowTypes'
<1>1. CASE UNCHANGED <<chosen, tries>>
  BY <1>1 DEF FlowTypes
<1>2. ASSUME NEW c \in Travellers, FlowNext(c) PROVE FlowTypes'
  <2>1. CASE TurnMonth(c) \/ \E b \in Bookings : Press(b, c) \/ Answered(c, b)
    BY <2>1 DEF FlowTypes, TurnMonth, Press, Answered
  <2>2. CASE \E s \in Slots : Pick(c, s)
    BY <2>2 DEF FlowTypes, Pick
  <2>3. CASE PressFails(c)
    <3>1. tries[c] + 1 \in Keys
      BY <2>3, DeskAssumptions DEF DeskAssumptions, FlowTypes, PressFails
    <3> QED BY <2>3, <3>1 DEF FlowTypes, PressFails
  <2> QED BY <1>2, <2>1, <2>2, <2>3 DEF FlowNext
<1>3. ASSUME NEW b \in Bookings, Respond(b) \/ \E r \in Roles : PageNext(r, b)
      PROVE  UNCHANGED <<chosen, tries>>
  BY <1>3 DEF Respond, PageNext, OpenPage, CancelFromPage, DeclineFromPage, MoveFromPage, AcceptFromPage
<1>4. UNCHANGED vars \/ UNCHANGED deskVars => UNCHANGED <<chosen, tries>>
  BY DEF vars, deskVars
<1> QED BY <1>1, <1>2, <1>3, <1>4 DEF Next

LEMMA FlowStep ==
    ASSUME FlowTypes, NEW c \in Travellers, FlowNext(c) PROVE [CalNext]_calVars
<1>1. CASE \/ TurnMonth(c) \/ PressFails(c)
           \/ \E s \in Slots : Pick(c, s)
           \/ \E b \in Bookings : Answered(c, b)
  BY <1>1 DEF TurnMonth, PressFails, Pick, Answered
<1>2. ASSUME NEW b \in Bookings, Press(b, c) PROVE CalNext
  <2>1. BookStart(b, c, tries[c], chosen[c]) /\ tries[c] \in Keys /\ chosen[c] \in Slots
    BY <1>2 DEF Press, FlowTypes
  <2> QED BY <2>1 DEF CalNext
<1> QED BY <1>1, <1>2 DEF FlowNext

LEMMA PageStep ==
    ASSUME NEW b \in Bookings, Respond(b) \/ \E r \in Roles : PageNext(r, b)
    PROVE  [CalNext]_calVars
<1>1. CASE Respond(b)
  BY <1>1 DEF Respond, CalNext
<1>2. ASSUME NEW r \in Roles, PageNext(r, b) PROVE [CalNext]_calVars
  <2>1. CASE OpenPage(r, b)
    BY <2>1 DEF OpenPage
  <2>2. CASE CancelFromPage(r, b)
    BY <2>2 DEF CancelFromPage, CalNext
  <2>3. CASE DeclineFromPage(r, b)
    BY <2>3 DEF DeclineFromPage, CalNext
  <2>4. CASE \E s \in Slots : MoveFromPage(r, b, s)
    <3>1. \E s \in Slots : Propose(b, r, s)
      BY <2>4 DEF MoveFromPage
    <3> QED BY <3>1 DEF CalNext
  <2>5. CASE \E n \in Bookings : AcceptFromPage(r, b, n)
    <3>1. \E n \in Bookings : AcceptMove(b, n, r)
      BY <2>5 DEF AcceptFromPage
    <3> QED BY <3>1 DEF CalNext
  <2> QED BY <1>2, <2>1, <2>2, <2>3, <2>4, <2>5 DEF PageNext
<1> QED BY <1>1, <1>2

LEMMA DeskStep == ASSUME FlowTypes, [Next]_vars PROVE [CalNext]_calVars
<1>1. ASSUME NEW c \in Travellers, FlowNext(c) PROVE [CalNext]_calVars
  BY <1>1, FlowStep
<1>2. ASSUME NEW b \in Bookings, Respond(b) \/ \E r \in Roles : PageNext(r, b)
      PROVE  [CalNext]_calVars
  BY <1>2, PageStep
<1>3. OtherNext => CalNext
  BY DEF OtherNext, CalNext
<1>4. CASE UNCHANGED vars
  BY <1>4 DEF vars
<1> QED BY <1>1, <1>2, <1>3, <1>4 DEF Next

LEMMA DeskImplements == Spec => CalSpec /\ []FlowTypes
<1>1. Init => CalInit /\ FlowTypes
  BY DeskAssumptions DEF DeskAssumptions, Init, DeskInit, FlowTypes
<1> QED BY <1>1, FlowTypesStep, DeskStep, PTL DEF Spec, CalSpec

\* A booking that moved is one booking still (062: tour_answer_reschedule), however
\* many pages answer, cancel and propose at once.
THEOREM OneRow == Spec => []OneRowPerRequest
<1>1. CalInv => OneRowPerRequest
  BY DEF CalInv, MovesApart, OneRowPerRequest
<1> QED BY <1>1, DeskImplements, CalInvariance, PTL

-----------------------------------------------------------------------------
(* The agenda, as long as nobody books a guide's start in the general checkout. *)

Apart(T) == \A s, t \in T : <<s, t>> \notin Clashes
OfDay(s, T) == {t \in T : DayOf[t] = DayOf[s]}
DayKept(T) == \A s \in T : Cardinality(OfDay(s, T)) <= DailyCap

\* What the transaction with the advisory lock has seen is still so.
LockLooked == guideLock # NoBooking =>
    /\ ~Overlaps(slot[guideLock], Busy)
    /\ ~OverDailyCap(slot[guideLock], Busy)
    /\ ~(slot[guideLock] \in Private /\ slot[guideLock] \in Busy)

AgendaInv == Apart(Busy) /\ DayKept(Busy) /\ LockLooked /\ PrivateIsOneParty

LEMMA DayFinite ==
    ASSUME NEW T \in SUBSET Slots, NEW s
    PROVE  IsFiniteSet(T) /\ IsFiniteSet(OfDay(s, T)) /\ Cardinality(OfDay(s, T)) \in Nat
<1>1. IsFiniteSet(T)
  BY CalendarAssumptions, FS_Subset DEF CalendarAssumptions
<1>2. OfDay(s, T) \in SUBSET T
  BY DEF OfDay
<1>3. IsFiniteSet(OfDay(s, T))
  BY <1>1, <1>2, FS_Subset
<1> QED BY <1>1, <1>3, FS_CardinalityType

LEMMA FewerDay ==
    ASSUME NEW T \in SUBSET Slots, NEW R \in SUBSET T, NEW s
    PROVE  Cardinality(OfDay(s, R)) <= Cardinality(OfDay(s, T))
<1>1. OfDay(s, R) \in SUBSET OfDay(s, T)
  BY DEF OfDay
<1> QED BY <1>1, DayFinite, FS_Subset

LEMMA CapMeans ==
    ASSUME NEW T \in SUBSET Slots, NEW s
    PROVE  OverDailyCap(s, T) <=> s \notin T /\ ~(Cardinality(OfDay(s, T)) < DailyCap)
<1>1. Cardinality(OfDay(s, T)) \in Nat /\ DailyCap \in Nat
  BY DayFinite, CalendarAssumptions DEF CalendarAssumptions
<1>2. OverDailyCap(s, T) <=> s \notin T /\ Cardinality(OfDay(s, T)) >= DailyCap
  BY DEF OverDailyCap, OfDay
<1> QED BY <1>1, <1>2

\* A start that is looked at against R may join it.
LEMMA TakeKeeps ==
    ASSUME NEW R \in SUBSET Slots, Apart(R), DayKept(R), NEW s \in Slots,
           \A t \in R : <<s, t>> \notin Clashes, s \notin R,
           Cardinality(OfDay(s, R)) < DailyCap
    PROVE  Apart(R \cup {s}) /\ DayKept(R \cup {s})
<1>1. Apart(R \cup {s})
  BY CalendarAssumptions DEF CalendarAssumptions, Apart
<1>2. ASSUME NEW t \in R \cup {s}
      PROVE  Cardinality(OfDay(t, R \cup {s})) <= DailyCap
  <2>1. CASE DayOf[t] = DayOf[s]
    <3>1. OfDay(t, R \cup {s}) = OfDay(s, R) \cup {s} /\ s \notin OfDay(s, R)
      BY <2>1 DEF OfDay
    <3>2. Cardinality(OfDay(s, R) \cup {s}) = Cardinality(OfDay(s, R)) + 1
      BY <3>1, DayFinite, FS_AddElement
    <3>3. Cardinality(OfDay(s, R)) \in Nat /\ DailyCap \in Nat
      BY DayFinite, CalendarAssumptions DEF CalendarAssumptions
    <3> QED BY <3>1, <3>2, <3>3
  <2>2. CASE DayOf[t] # DayOf[s]
    <3>1. t \in R /\ OfDay(t, R \cup {s}) = OfDay(t, R)
      BY <2>2 DEF OfDay
    <3> QED BY <3>1 DEF DayKept
  <2> QED BY <2>1, <2>2
<1> QED BY <1>1, <1>2 DEF DayKept

\* Steps after which no start is held that was not.
LEMMA ShrinkKeeps ==
    ASSUME CalInv, AgendaInv,
           \A b \in Bookings : status'[b] \in Live => status[b] \in Live /\ slot'[b] = slot[b],
           \/ guideLock' = NoBooking
           \/ guideLock' = guideLock /\ slot'[guideLock] = slot[guideLock]
    PROVE  AgendaInv' /\ Agenda!Free(Busy \ Busy')
<1>1. \A s \in Slots : LiveAt(s)' \subseteq LiveAt(s)
  BY DEF LiveAt
<1>2. Busy' \subseteq Busy /\ Busy \subseteq Slots
  BY <1>1 DEF Busy
<1>3. Agenda!Free(Busy \ Busy')
  BY <1>2 DEF Agenda!Free
<1>4. PrivateIsOneParty'
  BY <1>1, CalendarAssumptions DEF CalendarAssumptions, AgendaInv, PrivateIsOneParty
<1>5. Apart(Busy')
  BY <1>2 DEF AgendaInv, Apart
<1>6. DayKept(Busy')
  <2> SUFFICES ASSUME NEW s \in Busy' PROVE Cardinality(OfDay(s, Busy')) <= DailyCap
    BY DEF DayKept
  <2>1. Cardinality(OfDay(s, Busy)) <= DailyCap
    BY <1>2 DEF AgendaInv, DayKept
  <2>2. Cardinality(OfDay(s, Busy')) <= Cardinality(OfDay(s, Busy))
    BY <1>2, FewerDay
  <2>3. Cardinality(OfDay(s, Busy')) \in Nat /\ Cardinality(OfDay(s, Busy)) \in Nat /\ DailyCap \in Nat
    BY <1>2, DayFinite, CalendarAssumptions DEF CalendarAssumptions
  <2> QED BY <2>1, <2>2, <2>3
<1>7. LockLooked'
  <2> SUFFICES ASSUME guideLock' # NoBooking PROVE LockLooked'
    BY DEF LockLooked
  <2> DEFINE s == slot[guideLock]
  <2>1. guideLock' = guideLock /\ slot'[guideLock'] = s /\ s \in Slots
    BY DEF CalInv, CalTypes, LockWriting, HeldOpen
  <2>2. ~Overlaps(s, Busy) /\ ~OverDailyCap(s, Busy) /\ ~(s \in Private /\ s \in Busy)
    BY <2>1 DEF AgendaInv, LockLooked
  <2> HIDE DEF s
  <2>3. ~Overlaps(s, Busy') /\ ~(s \in Private /\ s \in Busy')
    BY <2>2, <1>2 DEF Overlaps
  <2>4. ~OverDailyCap(s, Busy')
    <3>1. SUFFICES ASSUME s \notin Busy' PROVE Cardinality(OfDay(s, Busy')) < DailyCap
      BY <1>2, CapMeans
    <3>2. /\ Cardinality(OfDay(s, Busy')) \in Nat /\ Cardinality(OfDay(s, Busy)) \in Nat
          /\ DailyCap \in Nat
      BY <1>2, DayFinite, CalendarAssumptions DEF CalendarAssumptions
    <3>3. CASE s \notin Busy
      <4>1. Cardinality(OfDay(s, Busy)) < DailyCap
        BY <1>2, <3>3, <2>2, CapMeans
      <4> QED BY <4>1, <3>2, <1>2, FewerDay
    <3>4. CASE s \in Busy
      <4>1. OfDay(s, Busy') \in SUBSET OfDay(s, Busy) /\ s \in OfDay(s, Busy)
            /\ s \notin OfDay(s, Busy')
        BY <1>2, <3>1, <3>4 DEF OfDay
      <4>2. Cardinality(OfDay(s, Busy')) < Cardinality(OfDay(s, Busy))
        BY <4>1, <3>2, <1>2, DayFinite, FS_Subset
      <4>3. Cardinality(OfDay(s, Busy)) <= DailyCap
        BY <3>4 DEF AgendaInv, DayKept
      <4> QED BY <4>2, <4>3, <3>2
    <3> QED BY <3>3, <3>4
  <2> QED BY <2>1, <2>3, <2>4 DEF LockLooked
<1> QED BY <1>3, <1>4, <1>5, <1>6, <1>7 DEF AgendaInv

LEMMA InsertAgenda ==
    ASSUME CalInv, AgendaInv, NEW b \in Bookings, BookInsert(b)
    PROVE  AgendaInv' /\ UNCHANGED Busy
<1>1. /\ Bookable(slot[b], Busy) /\ guideLock' = b /\ UNCHANGED <<status, slot>>
  BY DEF BookInsert, rowVars
<1>2. \A s \in Slots : LiveAt(s)' = LiveAt(s)
  BY <1>1 DEF LiveAt
<1>3. Busy' = Busy
  BY <1>2 DEF Busy
<1>4. PrivateIsOneParty'
  BY <1>2, CalendarAssumptions DEF CalendarAssumptions, AgendaInv, PrivateIsOneParty
<1>5. LockLooked'
  BY <1>1, <1>3 DEF LockLooked, Bookable, Overlaps, OverDailyCap
<1> QED BY <1>3, <1>4, <1>5 DEF AgendaInv

\* The start s joins those of R that stay held.
LEMMA JoinKeeps ==
    ASSUME CalInv, AgendaInv, NEW R \in SUBSET Busy, NEW s \in Slots,
           ~Overlaps(s, R), ~OverDailyCap(s, R), s \in Busy => s \in R,
           Busy' = R \cup {s}, guideLock' = NoBooking, PrivateIsOneParty'
    PROVE  AgendaInv' /\ [Agenda!Next]_Busy
<1>1. Busy \subseteq Slots
  BY DEF Busy
<1>2. Apart(R) /\ DayKept(R)
  <2>1. Apart(R)
    BY DEF AgendaInv, Apart
  <2>2. ASSUME NEW t \in R PROVE Cardinality(OfDay(t, R)) <= DailyCap
    <3>1. Cardinality(OfDay(t, Busy)) <= DailyCap
      BY DEF AgendaInv, DayKept
    <3>2. Cardinality(OfDay(t, R)) <= Cardinality(OfDay(t, Busy))
      BY <1>1, FewerDay
    <3>3. /\ Cardinality(OfDay(t, R)) \in Nat /\ Cardinality(OfDay(t, Busy)) \in Nat
          /\ DailyCap \in Nat
      BY <1>1, DayFinite, CalendarAssumptions DEF CalendarAssumptions
    <3> QED BY <3>1, <3>2, <3>3
  <2> QED BY <2>1, <2>2 DEF DayKept
<1>3. LockLooked'
  BY DEF LockLooked
<1>4. CASE s \in R
  <2>1. Busy' = R
    BY <1>4
  <2>2. Agenda!Free(Busy \ R)
    BY <2>1 DEF Agenda!Free
  <2>3. Agenda!Next
    BY <2>2 DEF Agenda!Next
  <2> QED BY <1>2, <1>3, <2>1, <2>3 DEF AgendaInv
<1>5. CASE s \notin R
  <2>1. \A t \in R : <<s, t>> \notin Clashes
    BY DEF Overlaps
  <2>2. Cardinality(OfDay(s, R)) < DailyCap
    BY <1>1, <1>5, CapMeans
  <2>3. Apart(Busy') /\ DayKept(Busy')
    BY <1>1, <1>2, <1>5, <2>1, <2>2, TakeKeeps
  <2>4. Agenda!Take(s, Busy \ R)
    <3>1. Busy \ (Busy \ R) = R /\ s \notin Busy
      BY <1>5
    <3>2. {t \in Busy \ (Busy \ R) : DayOf[t] = DayOf[s]} = OfDay(s, R)
      BY <3>1 DEF OfDay
    <3>3. Busy' = (Busy \ (Busy \ R)) \cup {s} /\ Busy \ R \subseteq Busy
      BY <3>1
    <3>4. \A S : Agenda!Cardinality(S) = Cardinality(S)
      BY DEF Agenda!Cardinality, Cardinality
    <3> QED BY <3>1, <3>2, <3>3, <3>4, <2>1, <2>2 DEF Agenda!Take, Agenda!SameDay
  <2>5. Agenda!Next
    BY <2>4 DEF Agenda!Next
  <2> QED BY <1>3, <2>3, <2>5 DEF AgendaInv
<1> QED BY <1>4, <1>5

LEMMA CommitAgenda ==
    ASSUME CalInv, AgendaInv, NEW b \in Bookings, BookCommit(b)
    PROVE  AgendaInv' /\ [Agenda!Next]_Busy
<1> DEFINE s == slot[b]
<1>1. /\ status[b] = "writing" /\ guideLock = b /\ guideLock' = NoBooking /\ UNCHANGED slot
      /\ status' \in {[status EXCEPT ![b] = "confirmed"], [status EXCEPT ![b] = "pending"]}
  BY DEF BookCommit
<1>2. s \in Slots /\ guideLock # NoBooking
  BY <1>1, CalendarAssumptions DEF CalendarAssumptions, CalInv, HeldOpen
<1>3. ~Overlaps(s, Busy) /\ ~OverDailyCap(s, Busy) /\ ~(s \in Private /\ s \in Busy)
  BY <1>1, <1>2 DEF AgendaInv, LockLooked
<1>4. \A t \in Slots : LiveAt(t)' = IF t = s THEN LiveAt(t) \cup {b} ELSE LiveAt(t)
  BY <1>1 DEF LiveAt, Live, CalInv, CalTypes
<1> HIDE DEF s
<1>5. Busy' = Busy \cup {s}
  BY <1>2, <1>4 DEF Busy
<1>6. PrivateIsOneParty'
  <2> SUFFICES ASSUME NEW t \in Private, NEW x \in LiveAt(t)', NEW y \in LiveAt(t)'
               PROVE  x = y
    BY DEF PrivateIsOneParty
  <2>1. t \in Slots
    BY CalendarAssumptions DEF CalendarAssumptions
  <2>2. CASE t = s
    <3>1. LiveAt(t) = {}
      BY <1>2, <1>3, <2>2 DEF Busy
    <3> QED BY <1>4, <2>1, <2>2, <3>1
  <2>3. CASE t # s
    BY <1>4, <2>1, <2>3 DEF AgendaInv, PrivateIsOneParty
  <2> QED BY <2>2, <2>3
<1> QED BY <1>1, <1>2, <1>3, <1>5, <1>6, JoinKeeps

LEMMA AcceptAgenda ==
    ASSUME CalInv, AgendaInv, NEW b \in Bookings, NEW n \in Bookings, NEW role \in Roles,
           AcceptMove(b, n, role)
    PROVE  AgendaInv' /\ [Agenda!Next]_Busy
<1> DEFINE s == proposal[b].slot
           R == BusyWithout(b)
<1>1. /\ status[b] \in Live /\ status[n] = "none" /\ proposal[b] # NoProposal
      /\ Bookable(s, R) /\ guideLock' = NoBooking
      /\ status' = [status EXCEPT ![b] = "cancelled", ![n] = status[b]]
      /\ slot' = [slot EXCEPT ![n] = s]
  BY DEF AcceptMove, Answers, OldRow, LockFree
<1>2. s \in Slots /\ s # slot[b] /\ b # n
  BY <1>1 DEF CalInv, ProposalsElsewhere, Live
<1>3. ~Overlaps(s, R) /\ ~OverDailyCap(s, R) /\ ~(s \in Private /\ s \in R)
  BY <1>1 DEF Bookable
<1>4. \A t \in Slots : LiveAt(t)' = IF t = s THEN LiveAt(t) \cup {n} ELSE LiveAt(t) \ {b}
  <2> SUFFICES ASSUME NEW t \in Slots, NEW x \in Bookings
               PROVE  x \in LiveAt(t)' <=> x \in (IF t = s THEN LiveAt(t) \cup {n} ELSE LiveAt(t) \ {b})
    BY DEF LiveAt
  <2>1. CASE x = b
    BY <2>1, <1>1, <1>2 DEF LiveAt, Live, CalInv, CalTypes
  <2>2. CASE x = n
    BY <2>2, <1>1, <1>2 DEF LiveAt, Live, CalInv, CalTypes
  <2>3. CASE x # b /\ x # n
    BY <2>3, <1>1, <1>2 DEF LiveAt, Live, CalInv, CalTypes
  <2> QED BY <2>1, <2>2, <2>3
<1>5. b \notin LiveAt(s)
  BY <1>2 DEF LiveAt
<1>6. R \subseteq Busy /\ (s \in Busy => s \in R)
  BY <1>2, <1>5 DEF BusyWithout, Busy
<1> HIDE DEF s
<1>7. Busy' = R \cup {s}
  <2>1. \A t \in Slots : t \in Busy' <=> t \in R \cup {s}
    BY <1>2, <1>4, <1>5 DEF Busy, BusyWithout
  <2> QED BY <2>1, <1>2 DEF Busy, BusyWithout
<1>8. PrivateIsOneParty'
  <2> SUFFICES ASSUME NEW t \in Private, NEW x \in LiveAt(t)', NEW y \in LiveAt(t)'
               PROVE  x = y
    BY DEF PrivateIsOneParty
  <2>1. t \in Slots
    BY CalendarAssumptions DEF CalendarAssumptions
  <2>2. CASE t = s
    <3>1. LiveAt(t) = {}
      BY <1>2, <1>3, <1>5, <2>2 DEF BusyWithout
    <3> QED BY <1>4, <2>1, <2>2, <3>1
  <2>3. CASE t # s
    BY <1>4, <2>1, <2>3 DEF AgendaInv, PrivateIsOneParty
  <2> QED BY <2>2, <2>3
<1> HIDE DEF R
<1> QED BY <1>1, <1>2, <1>3, <1>6, <1>7, <1>8, JoinKeeps

LEMMA AgendaStart == ASSUME CalInit PROVE AgendaInv /\ Agenda!Init
<1>1. Busy = {}
  BY DEF CalInit, Busy, LiveAt, Live
<1>2. PrivateIsOneParty
  BY DEF CalInit, PrivateIsOneParty, LiveAt, Live
<1>3. LockLooked
  BY DEF CalInit, LockLooked
<1> QED BY <1>1, <1>2, <1>3 DEF AgendaInv, Apart, DayKept, Agenda!Init

\* The steps after which nothing is held that was not.
LEMMA FreeStep ==
    ASSUME CalInv, AgendaInv,
           \/ Settles
           \/ \E b \in Bookings : BookAbort(b)
           \/ \E b \in Bookings, c \in Travellers, k \in Keys, s \in Slots : BookStart(b, c, k, s)
    PROVE  AgendaInv' /\ [Agenda!Next]_Busy
<1> DEFINE Shrinks ==
             /\ \A b \in Bookings : status'[b] \in Live => status[b] \in Live /\ slot'[b] = slot[b]
             /\ \/ guideLock' = NoBooking
                \/ guideLock' = guideLock /\ slot'[guideLock] = slot[guideLock]
<1>1. Shrinks
  <2>1. CASE Settles
    BY <2>1 DEF Settles, Live
  <2>2. ASSUME NEW b \in Bookings, BookAbort(b) PROVE Shrinks
    BY <2>2 DEF BookAbort, CalInv, CalTypes, Live
  <2>3. ASSUME NEW b \in Bookings, NEW c \in Travellers, NEW k \in Keys, NEW s \in Slots,
               BookStart(b, c, k, s)
        PROVE  Shrinks
    <3>1. /\ status[b] = "none" /\ status' = [status EXCEPT ![b] = "writing"]
          /\ slot' = [slot EXCEPT ![b] = s] /\ guideLock' = guideLock
      BY <2>3 DEF BookStart
    <3>2. guideLock # b
      BY <3>1 DEF CalInv, LockWriting
    <3> QED BY <3>1, <3>2 DEF CalInv, CalTypes, Live
  <2> QED BY <2>1, <2>2, <2>3
<1>2. AgendaInv' /\ Agenda!Free(Busy \ Busy')
  BY <1>1, ShrinkKeeps
<1>3. Agenda!Next
  BY <1>2 DEF Agenda!Next
<1> QED BY <1>2, <1>3

LEMMA AgendaStep ==
    ASSUME Checkouts = {}, CalInv, AgendaInv, [CalNext]_calVars
    PROVE  AgendaInv' /\ [Agenda!Next]_Busy
<1>1. CASE CalendarMoves
  BY <1>1, MovesSettle, FreeStep
<1>2. ASSUME NEW b \in Bookings,
             \/ BookInsert(b) \/ BookAbort(b) \/ BookCommit(b)
             \/ \E c \in Travellers, k \in Keys, s \in Slots : BookStart(b, c, k, s)
      PROVE  AgendaInv' /\ [Agenda!Next]_Busy
  BY <1>2, InsertAgenda, CommitAgenda, FreeStep
<1>3. ASSUME NEW b \in Bookings, GuideConfirms(b) \/ GuideRejects(b) \/ TourCancel(b)
      PROVE  AgendaInv' /\ [Agenda!Next]_Busy
  BY <1>3, EndsSettle, FreeStep
<1>4. ASSUME NEW b \in Bookings, NEW role \in Roles,
             DeclineMove(b, role) \/ \E s \in Slots : Propose(b, role, s)
      PROVE  AgendaInv' /\ [Agenda!Next]_Busy
  BY <1>4, ProposalSettles, FreeStep
<1>5. ASSUME NEW b \in Bookings, NEW role \in Roles, NEW n \in Bookings, AcceptMove(b, n, role)
      PROVE  AgendaInv' /\ [Agenda!Next]_Busy
  BY <1>5, AcceptAgenda
<1>6. CASE UNCHANGED calVars
  <2>1. UNCHANGED <<offer, status, slot, movedTo, proposal, guideLock>>
    BY <1>6 DEF calVars, slotVars, rowVars
  <2>2. Settles
    BY <2>1 DEF CalInv, CalTypes, Settles
  <2> QED BY <2>2, FreeStep
<1> QED BY <1>1, <1>2, <1>3, <1>4, <1>5, <1>6 DEF CalNext, Background

LEMMA AgendaInvariance == ASSUME Checkouts = {} PROVE CalSpec => [](CalInv /\ AgendaInv)
BY CalStart, CalStep, AgendaStart, AgendaStep, PTL DEF CalSpec

\* Where the general checkout takes no guides' starts, a private start takes one
\* party, whoever books it or moves to it (061: guide_slot_clash).
THEOREM PrivateSound ==
    ASSUME Checkouts = {} PROVE CalSpec => []PrivateIsOneParty
<1>1. AgendaInv => PrivateIsOneParty
  BY DEF AgendaInv
<1> QED BY <1>1, AgendaInvariance, PTL

\* There the calendar implements the agenda of docs/guide-experience-plan.md 8.2:
\* every transaction frees starts or takes one that clashes with no other.
THEOREM AgendaRefinement ==
    ASSUME Checkouts = {} PROVE CalSpec => ImplementsAgenda
<1>1. CalInit => Agenda!Init
  BY AgendaStart
<1>2. CalInv /\ AgendaInv /\ [CalNext]_calVars => [Agenda!Next]_Busy
  BY AgendaStep
<1> QED BY <1>1, <1>2, AgendaInvariance, PTL DEF CalSpec, ImplementsAgenda, Agenda!Spec
-----------------------------------------------------------------------------
(* What holds of the calendar holds of it under its pages, which show rows. *)

PageTypes ==
    /\ pressed \in [Travellers -> BOOLEAN] /\ done \in [Travellers -> Bookings \cup {NoBooking}]
    /\ page \in [Roles -> [id : Bookings \cup {NoBooking}, status : Statuses, proposal : Proposals]]

LEMMA ShowsTypes ==
    ASSUME PageTypes, CalInv', NEW r \in Roles, NEW b \in Bookings, Shows(r, b),
           UNCHANGED <<pressed, done>>
    PROVE  PageTypes'
<1>1. Shown(b)' \in [id : Bookings \cup {NoBooking}, status : Statuses, proposal : Proposals]
  BY DEF CalInv, CalTypes, Shown
<1>2. CASE UNCHANGED page
  BY <1>2 DEF PageTypes
<1>3. CASE page' = [page EXCEPT ![r] = Shown(b)']
  BY <1>1, <1>3 DEF PageTypes
<1> QED BY <1>2, <1>3 DEF Shows

LEMMA PageTypesStep == ASSUME PageTypes, CalInv, CalInv', [Next]_vars PROVE PageTypes'
<1>1. CASE UNCHANGED <<pressed, done, page>>
  BY <1>1 DEF PageTypes
<1>2. ASSUME NEW c \in Travellers, FlowNext(c) PROVE PageTypes'
  <2>1. CASE TurnMonth(c) \/ \E s \in Slots : Pick(c, s)
    BY <1>1, <2>1 DEF TurnMonth, Pick
  <2>2. CASE PressFails(c) \/ \E b \in Bookings : Press(b, c)
    BY <2>2 DEF PressFails, Press, PageTypes
  <2>3. CASE \E b \in Bookings : Answered(c, b)
    BY <2>3 DEF Answered, PageTypes
  <2> QED BY <1>2, <2>1, <2>2, <2>3 DEF FlowNext
<1>3. ASSUME NEW b \in Bookings, NEW r \in Roles, OpenPage(r, b) PROVE PageTypes'
  <2>1. Shown(b) \in [id : Bookings \cup {NoBooking}, status : Statuses, proposal : Proposals]
    BY DEF CalInv, CalTypes, Shown
  <2> QED BY <1>3, <2>1 DEF OpenPage, PageTypes
<1>4. ASSUME NEW b \in Bookings,
             \/ Respond(b)
             \/ \E r \in Roles :
                    \/ CancelFromPage(r, b) \/ DeclineFromPage(r, b)
                    \/ \E s \in Slots : MoveFromPage(r, b, s)
                    \/ \E n \in Bookings : AcceptFromPage(r, b, n)
      PROVE  PageTypes'
  <2>1. UNCHANGED <<pressed, done>> /\ \E r \in Roles, x \in Bookings : Shows(r, x)
    BY <1>4 DEF Respond, CancelFromPage, DeclineFromPage, MoveFromPage, AcceptFromPage, Roles
  <2> QED BY <2>1, ShowsTypes
<1>5. UNCHANGED vars \/ UNCHANGED deskVars => UNCHANGED <<pressed, done, page>>
  BY DEF vars, deskVars
<1> QED BY <1>1, <1>2, <1>3, <1>4, <1>5 DEF Next, PageNext

\* The pages hold what they were shown: rows of a booking's type.
THEOREM DeskTypeCorrect == Spec => []TypeOK
<1>1. Init => PageTypes
  BY DEF Init, DeskInit, PageTypes, NoPage, Statuses, Proposals
<1>2. Spec => []CalInv
  BY DeskImplements, CalInvariance, PTL
<1>3. Spec => []PageTypes
  BY <1>1, <1>2, PageTypesStep, PTL DEF Spec
<1>4. FlowTypes /\ PageTypes => DeskTypeOK
  BY DEF FlowTypes, PageTypes, DeskTypeOK
<1> QED BY <1>3, <1>4, DeskImplements, CalendarTypeCorrect, PTL DEF TypeOK

\* Every step of the pages and of the server under them is a step of the calendar or
\* leaves it alone: TourDesk implements GuideCalendar.
THEOREM DeskIsCalendar == Spec => CalSpec
BY DeskImplements, PTL

\* However the pages press, repeat and answer from what they showed before, the
\* counters of the starts are right and a held start stays on offer.
THEOREM DeskSeats == Spec => [](SeatsAreParties /\ HeldStartsStay)
BY DeskIsCalendar, SeatsAreSound, HeldStay, PTL

\* Where guides' tours are booked by tour_book alone and travellers hire no guide
\* for a day, the guide is in one place (docs/guide-experience-plan.md 8.2).  The
\* one_place run violates it without both conditions, and does so with either alone.
THEOREM OnePlaceUnlessHired ==
    ASSUME Checkouts = {}, HireDays = {} PROVE CalSpec => []OneGuideOnePlace
<1>1. CalInv /\ AgendaInv /\ CalTypeOK => OneGuideOnePlace
  BY DEF AgendaInv, Apart, Agenda!OnePlace, CalTypeOK, OneGuideOnePlace
<1> QED BY <1>1, AgendaInvariance, CalendarTypeCorrect, PTL

\* The whole of booking a guide, pages included, implements the abstract agenda.
THEOREM DeskAgenda ==
    ASSUME Checkouts = {} PROVE Spec => ImplementsAgenda
BY DeskIsCalendar, AgendaRefinement, PTL
=============================================================================
