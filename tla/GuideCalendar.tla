---------------------------- MODULE GuideCalendar ----------------------------
(* The calendar of one guide and the bookings of the guide's tours: migrations
   061, 062 and 066 of mshwar-database.  One action is one transaction, except
   tour_book, which is three steps: the slot row is locked, then the guide's
   advisory lock is taken and the calendar looked at, then all of it commits;
   and guide_add_block, which looks and writes without any lock. *)
EXTENDS Integers, FiniteSets

CONSTANTS
    Slots,          \* the starts of the guide's tours
    Bookings,       \* identities of booking rows
    Travellers, Keys,   \* customers and the Idempotency-Keys they send
    Blocks,         \* periods the guide may block
    TourOf,         \* Slots -> tours
    DayOf,          \* Slots -> local dates
    Clashes,        \* pairs of starts closer than buffer and drive allow
    Covers,         \* Blocks -> SUBSET Slots: starts within a block and its buffer
    Inside,         \* Blocks -> SUBSET Slots: starts within the block itself
    Capacity,       \* Slots -> Nat
    PartyOf,        \* Travellers -> Nat
    Private,        \* starts of private schedules
    MinGroup,       \* Slots -> Nat
    Deadline,       \* Slots -> Nat: slots.min_group_deadline
    StartsAt,       \* Slots -> Nat
    Notice,         \* min_notice_hours
    Ttl,            \* request_ttl_hours
    DailyCap,       \* max_tours_per_day
    InstantTours,   \* tours with instant_booking
    Scheduled,      \* the starts made by a schedule the guide may change
    HireDays,       \* the days travellers ask to hire the guide for
    Checkouts,      \* travellers who save a draft in the general checkout
    MaxNow,         \* bound on the clock
    NoSlot, NoBooking, Nobody, NoKey

ASSUME CalendarAssumptions ==
    /\ IsFiniteSet(Slots) /\ IsFiniteSet(Bookings)
    /\ NoSlot \notin Slots /\ NoBooking \notin Bookings
    /\ Nobody \notin Travellers /\ NoKey \notin Keys
    /\ Clashes \subseteq Slots \X Slots
    /\ \A s, t \in Slots : <<s, t>> \in Clashes => s # t /\ <<t, s>> \in Clashes
    /\ Covers \in [Blocks -> SUBSET Slots] /\ Inside \in [Blocks -> SUBSET Slots]
    /\ \A p \in Blocks : Inside[p] \subseteq Covers[p]
    /\ Capacity \in [Slots -> Nat] /\ PartyOf \in [Travellers -> Nat \ {0}]
    /\ Private \subseteq Slots /\ MinGroup \in [Slots -> Nat] /\ Deadline \in [Slots -> Nat]
    /\ StartsAt \in [Slots -> Nat]
    /\ Notice \in Nat /\ Ttl \in Nat /\ DailyCap \in Nat /\ MaxNow \in Nat
    /\ Scheduled \subseteq Slots /\ Checkouts \subseteq Travellers

VARIABLES
    now,
    offer,      \* Slots -> slots.status, "absent" while no schedule makes the row
    reserved,   \* slots.reserved
    status,     \* bookings.status; "writing" while its transaction is open
    slot,       \* bookings.slot_id
    who,        \* bookings.customer_id
    key,        \* bookings.request_key
    hold,       \* bookings.hold_until
    movedTo,    \* tour_booking_details.rescheduled_to
    proposal,   \* the pending row of tour_reschedule_proposals
    guideLock,  \* the booking whose transaction has the guide's advisory lock
    hired,      \* days of accepted or confirmed engagements
    blocks,     \* guide_busy_blocks
    blocking    \* blocks that have been looked at and not yet committed

slotVars    == <<offer, reserved>>
rowVars     == <<status, slot, who, key, hold, movedTo, proposal>>
calendar    == <<hired, blocks, blocking>>
calVars     == <<now, slotVars, rowVars, guideLock, calendar>>

Roles    == {"traveller", "guide"}
Statuses == {"none", "writing", "draft", "pending", "confirmed", "rejected", "cancelled", "expired"}
NoProposal == [by |-> "nobody", slot |-> NoSlot]
Proposals  == {NoProposal} \cup [by : Roles, slot : Slots]

CalTypeOK ==
    /\ now \in 0..MaxNow
    /\ offer \in [Slots -> {"open", "closed", "absent"}]
    /\ reserved \in [Slots -> Nat]
    /\ status \in [Bookings -> Statuses]
    /\ slot \in [Bookings -> Slots \cup {NoSlot}]
    /\ who \in [Bookings -> Travellers \cup {Nobody}] /\ key \in [Bookings -> Keys \cup {NoKey}]
    /\ hold \in [Bookings -> Nat]
    /\ movedTo \in [Bookings -> Bookings \cup {NoBooking}]
    /\ proposal \in [Bookings -> Proposals]
    /\ guideLock \in Bookings \cup {NoBooking}
    /\ hired \subseteq HireDays /\ blocks \subseteq Blocks /\ blocking \subseteq Blocks

-----------------------------------------------------------------------------
(* What the calendar says. *)

Live == {"pending", "confirmed"}
LiveAt(s) == {b \in Bookings : status[b] \in Live /\ slot[b] = s}
Busy == {s \in Slots : LiveAt(s) # {}}
Party(b) == PartyOf[who[b]]
\* The places the parties of B take: their number is the sum of the parties.
PartySum(B) == Cardinality(UNION {{b} \X (1..Party(b)) : b \in B})
HasRoom(s, n) == reserved[s] + n <= Capacity[s]

\* guide_slot_clash, given the starts that are held: NULL means bookable.
Overlaps(s, busy) == \E t \in busy : <<s, t>> \in Clashes
OverDailyCap(s, busy) ==
    s \notin busy /\ Cardinality({t \in busy : DayOf[t] = DayOf[s]}) >= DailyCap
\* Mutant: a run with one party of a private start is still bookable.
SharedBookable(s, busy) ==
    /\ offer[s] = "open"
    /\ now < StartsAt[s] /\ now + Notice <= StartsAt[s]
    /\ DayOf[s] \notin hired
    /\ \A p \in blocks : s \notin Covers[p]
    /\ ~Overlaps(s, busy)
    /\ ~OverDailyCap(s, busy)

Bookable(s, busy) ==
    /\ offer[s] = "open"
    /\ now < StartsAt[s] /\ now + Notice <= StartsAt[s]
    /\ ~(s \in Private /\ s \in busy)
    /\ DayOf[s] \notin hired
    /\ \A p \in blocks : s \notin Covers[p]
    /\ ~Overlaps(s, busy)
    /\ ~OverDailyCap(s, busy)

\* The slot row is free of other transactions: a booking being written holds it.
SlotFree(s) == \A b \in Bookings : status[b] = "writing" => slot[b] # s

Least(a, b) == IF a < b THEN a ELSE b

-----------------------------------------------------------------------------
(* tour_book. *)

\* The request key is new: a known key is answered with the row it wrote, and
\* one being written is waited for.  Then the slot row is locked and looked at.
BookStart(b, c, k, s) ==
    /\ status[b] = "none"
    /\ \A x \in Bookings : <<who[x], key[x]>> # <<c, k>>
    /\ SlotFree(s)
    /\ offer[s] = "open" /\ now < StartsAt[s]
    /\ HasRoom(s, PartyOf[c])
    /\ status' = [status EXCEPT ![b] = "writing"]
    /\ slot' = [slot EXCEPT ![b] = s]
    /\ who' = [who EXCEPT ![b] = c] /\ key' = [key EXCEPT ![b] = k]
    /\ UNCHANGED <<now, slotVars, hold, movedTo, proposal, guideLock, calendar>>

\* Mutant: the guard looks at the calendar without the advisory lock.
LockIgnored == guideLock \in Bookings \cup {NoBooking}
\* guard_guide_booking: one transaction of the guide at a time from here on.
LockFree == guideLock = NoBooking

BookInsert(b) ==
    /\ status[b] = "writing" /\ guideLock # b
    /\ LockFree
    /\ Bookable(slot[b], Busy)
    /\ guideLock' = b
    /\ UNCHANGED <<now, slotVars, rowVars, calendar>>

RequestHold(s) == Least(StartsAt[s], now + Ttl)

\* The commit releases both locks and shows the row to everybody.
BookCommit(b) ==
    /\ status[b] = "writing" /\ guideLock = b
    /\ guideLock' = NoBooking
    /\ reserved' = [reserved EXCEPT ![slot[b]] = @ + Party(b)]
    /\ IF TourOf[slot[b]] \in InstantTours
         THEN /\ status' = [status EXCEPT ![b] = "confirmed"]
              /\ UNCHANGED hold
         ELSE /\ status' = [status EXCEPT ![b] = "pending"]
              /\ hold' = [hold EXCEPT ![b] = RequestHold(slot[b])]
    /\ UNCHANGED <<now, offer, slot, who, key, movedTo, proposal, calendar>>

\* A RAISE, or the connection is lost: the row never was.
BookAbort(b) ==
    /\ status[b] = "writing"
    /\ status' = [status EXCEPT ![b] = "none"]
    /\ slot' = [slot EXCEPT ![b] = NoSlot]
    /\ who' = [who EXCEPT ![b] = Nobody] /\ key' = [key EXCEPT ![b] = NoKey]
    /\ guideLock' = IF guideLock = b THEN NoBooking ELSE guideLock
    /\ UNCHANGED <<now, slotVars, hold, movedTo, proposal, calendar>>

\* The general checkout of 019 books a guide's start as well.  The guard of the
\* calendar runs on INSERT and lets a draft pass; the commit of the draft is an
\* UPDATE.
CheckoutDraft(b, c, k, s) ==
    /\ status[b] = "none"
    /\ \A x \in Bookings : <<who[x], key[x]>> # <<c, k>>
    /\ offer[s] = "open" /\ now < StartsAt[s] /\ HasRoom(s, PartyOf[c])
    /\ status' = [status EXCEPT ![b] = "draft"]
    /\ slot' = [slot EXCEPT ![b] = s]
    /\ who' = [who EXCEPT ![b] = c] /\ key' = [key EXCEPT ![b] = k]
    /\ hold' = [hold EXCEPT ![b] = now + Ttl]
    /\ UNCHANGED <<now, slotVars, movedTo, proposal, guideLock, calendar>>

CheckoutCommit(b, c) ==
    /\ status[b] = "draft" /\ who[b] = c /\ SlotFree(slot[b])
    /\ offer[slot[b]] = "open" /\ now < StartsAt[slot[b]] /\ HasRoom(slot[b], Party(b))
    /\ status' = [status EXCEPT ![b] = "pending"]
    /\ reserved' = [reserved EXCEPT ![slot[b]] = @ + Party(b)]
    /\ hold' = [hold EXCEPT ![b] = RequestHold(slot[b])]
    /\ UNCHANGED <<now, offer, slot, who, key, movedTo, proposal, guideLock, calendar>>

-----------------------------------------------------------------------------
(* What ends or moves a booking. *)

\* Mutant: a release counts the party against every start.
ReleaseEverywhere(B) == reserved' = [s \in Slots |-> reserved[s] - PartySum(B)]

\* transition_booking of the live bookings B to a released status.
Release(B) ==
    reserved' = [s \in Slots |-> reserved[s] - PartySum({b \in B : slot[b] = s})]

GuideConfirms(b) ==
    /\ status[b] = "pending" /\ SlotFree(slot[b]) /\ now < hold[b]
    /\ offer[slot[b]] = "open" /\ now < StartsAt[slot[b]]
    /\ status' = [status EXCEPT ![b] = "confirmed"]
    /\ UNCHANGED <<now, slotVars, slot, who, key, hold, movedTo, proposal, guideLock, calendar>>

GuideRejects(b) ==
    /\ status[b] = "pending" /\ SlotFree(slot[b])
    /\ status' = [status EXCEPT ![b] = "rejected"]
    /\ Release({b})
    /\ UNCHANGED <<now, offer, slot, who, key, hold, movedTo, proposal, guideLock, calendar>>

\* tour_cancel, by either side, before the start.
TourCancel(b) ==
    /\ status[b] \in Live /\ now < StartsAt[slot[b]] /\ SlotFree(slot[b])
    /\ status' = [status EXCEPT ![b] = "cancelled"]
    /\ Release({b})
    /\ proposal' = [proposal EXCEPT ![b] = NoProposal]
    /\ UNCHANGED <<now, offer, slot, who, key, hold, movedTo, guideLock, calendar>>

\* tour_propose_reschedule: an earlier proposal is withdrawn.
Propose(b, role, s) ==
    /\ status[b] \in Live
    /\ s # slot[b] /\ TourOf[s] = TourOf[slot[b]]
    /\ Bookable(s, Busy) /\ reserved[s] < Capacity[s] /\ HasRoom(s, Party(b))
    /\ proposal' = [proposal EXCEPT ![b] = [by |-> role, slot |-> s]]
    /\ UNCHANGED <<now, slotVars, status, slot, who, key, hold, movedTo, guideLock, calendar>>

Answers(b, role) == proposal[b] # NoProposal /\ proposal[b].by # role

DeclineMove(b, role) ==
    /\ Answers(b, role)
    /\ proposal' = [proposal EXCEPT ![b] = NoProposal]
    /\ UNCHANGED <<now, slotVars, status, slot, who, key, hold, movedTo, guideLock, calendar>>

\* The starts that stay held when booking b gives its own back.
BusyWithout(b) == {s \in Slots : LiveAt(s) \ {b} # {}}
\* Mutant: the old seats are not given back.
MovedSeatsTwice(b, s) == [reserved EXCEPT ![s] = @ + Party(b)]
MovedSeats(b, s) ==
    [reserved EXCEPT ![slot[b]] = @ - Party(b), ![s] = @ + Party(b)]

\* Mutant: the row that moved keeps its status.
OldRowStays(b) == status[b]
OldRow(b) == "cancelled"

\* tour_answer_reschedule, accepted: the old row is cancelled, its seats given
\* back, and row n written at the proposed start, in one transaction under the
\* row locks of both starts and the guide's advisory lock.
AcceptMove(b, n, role) ==
    LET s == proposal[b].slot IN
    /\ Answers(b, role) /\ status[b] \in Live /\ status[n] = "none"
    /\ SlotFree(slot[b]) /\ SlotFree(s) /\ LockFree
    /\ Bookable(s, BusyWithout(b)) /\ reserved[s] < Capacity[s] /\ HasRoom(s, Party(b))
    /\ status' = [status EXCEPT ![b] = OldRow(b), ![n] = status[b]]
    /\ slot' = [slot EXCEPT ![n] = s]
    /\ who' = [who EXCEPT ![n] = who[b]]
    /\ hold' = [hold EXCEPT ![n] = IF status[b] = "pending" THEN Least(StartsAt[s], hold[b]) ELSE 0]
    /\ movedTo' = [movedTo EXCEPT ![b] = n]
    /\ proposal' = [proposal EXCEPT ![b] = NoProposal]
    /\ reserved' = MovedSeats(b, s)
    /\ UNCHANGED <<now, offer, key, guideLock, calendar>>

\* expire_bookings, without its batches and drafts (module Bookings has both).
Lapsed == {b \in Bookings : status[b] = "pending" /\ hold[b] <= now /\ SlotFree(slot[b])}
ExpireHolds ==
    /\ Lapsed # {}
    /\ status' = [b \in Bookings |-> IF b \in Lapsed THEN "expired" ELSE status[b]]
    /\ Release(Lapsed)
    /\ UNCHANGED <<now, offer, slot, who, key, hold, movedTo, proposal, guideLock, calendar>>

\* Mutant: the rows of slots are read without FOR UPDATE SKIP LOCKED.
UnderMinimumUnlocked(s) ==
    /\ MinGroup[s] > 1 /\ offer[s] = "open"
    /\ Deadline[s] <= now /\ now < StartsAt[s]
    /\ PartySum(LiveAt(s)) < MinGroup[s]
\* guide_min_group_check: rows of slots that another transaction holds are skipped.
UnderMinimum(s) ==
    /\ MinGroup[s] > 1 /\ offer[s] = "open" /\ SlotFree(s)
    /\ Deadline[s] <= now /\ now < StartsAt[s]
    /\ PartySum(LiveAt(s)) < MinGroup[s]

MinGroupCheck ==
    LET S == {s \in Slots : UnderMinimum(s)}
        B == UNION {LiveAt(s) : s \in S} IN
    /\ S # {}
    /\ offer' = [s \in Slots |-> IF s \in S THEN "closed" ELSE offer[s]]
    /\ status' = [b \in Bookings |-> IF b \in B THEN "cancelled" ELSE status[b]]
    /\ Release(B)
    /\ UNCHANGED <<now, slot, who, key, hold, movedTo, proposal, guideLock, calendar>>

-----------------------------------------------------------------------------
(* What the guide does to the calendar, and time. *)

\* clear_schedule_slots: rows no booking ever pointed to; a row held by a
\* booking being written is waited for and kept.
Clearable == {s \in Scheduled : \A b \in Bookings : slot[b] # s}

\* guide_save_schedule and guide_delete_schedule: S is cleared, T made anew.
SaveSchedule(S, T) ==
    /\ S \subseteq Clearable
    /\ T \subseteq {s \in Scheduled : now < StartsAt[s] /\ (offer[s] = "absent" \/ s \in S)}
    /\ S \cup T # {}
    /\ offer' = [s \in Slots |-> IF s \in T THEN "open" ELSE IF s \in S THEN "absent" ELSE offer[s]]
    /\ UNCHANGED <<now, reserved, rowVars, guideLock, calendar>>

\* guide_add_block reads the committed bookings and inserts without a lock.
LookForBlock(p) ==
    /\ p \notin blocks \cup blocking
    /\ Busy \cap Inside[p] = {}
    /\ blocking' = blocking \cup {p}
    /\ UNCHANGED <<now, slotVars, rowVars, guideLock, hired, blocks>>

CommitBlock(p) ==
    /\ p \in blocking
    /\ blocking' = blocking \ {p} /\ blocks' = blocks \cup {p}
    /\ UNCHANGED <<now, slotVars, rowVars, guideLock, hired>>

DeleteBlock(p) ==
    /\ p \in blocks /\ blocks' = blocks \ {p}
    /\ UNCHANGED <<now, slotVars, rowVars, guideLock, hired, blocking>>

\* guide_answer_engagement 'accept' looks at the other hired days and at no tour;
\* cancel_engagement and a rejection give the day back.
AcceptHire(d) ==
    /\ d \in HireDays \ hired /\ hired' = hired \cup {d}
    /\ UNCHANGED <<now, slotVars, rowVars, guideLock, blocks, blocking>>

CancelHire(d) ==
    /\ d \in hired /\ hired' = hired \ {d}
    /\ UNCHANGED <<now, slotVars, rowVars, guideLock, blocks, blocking>>

Tick == /\ now < MaxNow /\ now' = now + 1
        /\ UNCHANGED <<slotVars, rowVars, guideLock, calendar>>

CalInit ==
    /\ now = 0
    /\ offer = [s \in Slots |-> "open"]
    /\ reserved = [s \in Slots |-> 0]
    /\ status = [b \in Bookings |-> "none"]
    /\ slot = [b \in Bookings |-> NoSlot]
    /\ who = [b \in Bookings |-> Nobody] /\ key = [b \in Bookings |-> NoKey]
    /\ hold = [b \in Bookings |-> 0]
    /\ movedTo = [b \in Bookings |-> NoBooking]
    /\ proposal = [b \in Bookings |-> NoProposal]
    /\ guideLock = NoBooking
    /\ hired = {} /\ blocks = {} /\ blocking = {}

\* The steps nobody's page asks for.
Background(b) == BookInsert(b) \/ BookAbort(b)
CheckoutNext(b, c) ==
    \/ CheckoutCommit(b, c)
    \/ \E k \in Keys, s \in Slots : CheckoutDraft(b, c, k, s)
CalendarMoves ==
    \/ ExpireHolds \/ MinGroupCheck \/ Tick
    \/ \E S, T \in SUBSET Scheduled : SaveSchedule(S, T)
    \/ \E p \in Blocks : LookForBlock(p) \/ CommitBlock(p) \/ DeleteBlock(p)
    \/ \E d \in HireDays : AcceptHire(d) \/ CancelHire(d)

CalNext ==
    \/ CalendarMoves
    \/ \E b \in Bookings :
        \/ Background(b) \/ BookCommit(b)
        \/ GuideConfirms(b) \/ GuideRejects(b) \/ TourCancel(b)
        \/ \E c \in Travellers, k \in Keys, s \in Slots : BookStart(b, c, k, s)
        \/ \E c \in Checkouts : CheckoutNext(b, c)
        \/ \E role \in Roles :
               \/ DeclineMove(b, role)
               \/ \E s \in Slots : Propose(b, role, s)
               \/ \E n \in Bookings : AcceptMove(b, n, role)

CalSpec == CalInit /\ [][CalNext]_calVars

-----------------------------------------------------------------------------
(* Properties. *)

\* The counter of a start is the sum of the parties that hold it (062: tour_book,
\* the move and every release), and never more than its seats.
SeatsAreParties ==
    \A s \in Slots : reserved[s] = PartySum(LiveAt(s)) /\ reserved[s] <= Capacity[s]

\* 061: a private start takes one party, whoever books it or moves to it.
PrivateIsOneParty ==
    \A s \in Private : \A a, b \in LiveAt(s) : a = b

\* A traveller with a booking has a start to go to: neither a changed schedule
\* (061: clear_schedule_slots) nor the minimum-group job (061: 843) takes away the
\* row of a start somebody holds or is about to hold.
HeldStartsStay ==
    \A b \in Bookings : status[b] \in Live => offer[slot[b]] = "open"

\* One guide, one place (docs/guide-experience-plan.md 8.2): the guide's agenda
\* never has two starts that clash or too many of one day, and every transaction
\* of tour_book, the move and the jobs is a step of that agenda.
Agenda == INSTANCE GuideAgenda WITH taken <- Busy
ImplementsAgenda == Agenda!Spec

\* The same rule with the days the guide is hired: 8.2 says it "applies to hired
\* days" too.
OneGuideOnePlace ==
    /\ Agenda!OnePlace
    /\ \A b \in Bookings : status[b] \in Live => DayOf[slot[b]] \notin hired
=============================================================================
