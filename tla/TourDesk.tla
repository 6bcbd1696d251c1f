------------------------------ MODULE TourDesk -------------------------------
(* The pages that book a tour and look after a booking, over GuideCalendar:
   apps/web/src/components/tours/tour-booking-flow.tsx and tour-booking-view.tsx.
   A press and the server's transaction are one step where nothing the page
   looks at in between matters: what it shows may be old already when it is
   pressed.  An answer may be lost on its way back, and the page then shows an
   error for what the server did. *)
EXTENDS GuideCalendar

CONSTANTS MaxTries      \* bound on the keys one visit makes

ASSUME DeskAssumptions == Keys = 1..MaxTries /\ MaxTries \in Nat \ {0}

VARIABLES
    chosen,     \* the start that is picked
    pressed,    \* the flow's "pending": the key of the request that is out
    tries,      \* the flow's key.current
    done,       \* the booking on the flow's last screen
    page        \* what the booking page of either side shows

deskVars == <<chosen, pressed, tries, done, page>>
vars == <<calVars, deskVars>>

NoPage == [id |-> NoBooking, status |-> "none", proposal |-> NoProposal]

DeskTypeOK ==
    /\ chosen \in [Travellers -> Slots \cup {NoSlot}]
    /\ pressed \in [Travellers -> BOOLEAN]
    /\ tries \in [Travellers -> Keys]
    /\ done \in [Travellers -> Bookings \cup {NoBooking}]
    /\ page \in [Roles -> [id : Bookings \cup {NoBooking}, status : Statuses, proposal : Proposals]]

TypeOK == CalTypeOK /\ DeskTypeOK

-----------------------------------------------------------------------------
(* The booking flow. *)

\* public_tour_availability: the starts of the month that can be booked now.
Available == {s \in Slots : Bookable(s, Busy) /\ reserved[s] < Capacity[s]}

\* A start of a loaded month; maxParty keeps the party within its seats.
Pick(c, s) ==
    /\ done[c] = NoBooking /\ chosen[c] # s
    /\ s \in Available /\ HasRoom(s, PartyOf[c])
    /\ chosen' = [chosen EXCEPT ![c] = s]
    /\ UNCHANGED <<calVars, pressed, tries, done, page>>

\* Another month: what was picked is forgotten.
TurnMonth(c) ==
    /\ done[c] = NoBooking /\ chosen[c] # NoSlot
    /\ chosen' = [chosen EXCEPT ![c] = NoSlot]
    /\ UNCHANGED <<calVars, pressed, tries, done, page>>

\* onBook: the button is off while a request is out or no start is picked.
Press(b, c) ==
    /\ done[c] = NoBooking /\ ~pressed[c] /\ chosen[c] # NoSlot
    /\ BookStart(b, c, tries[c], chosen[c])
    /\ pressed' = [pressed EXCEPT ![c] = TRUE]
    /\ UNCHANGED <<chosen, tries, done, page>>

Answered(c, b) ==
    /\ pressed[c]
    /\ who[b] = c /\ key[b] = tries[c] /\ status[b] \notin {"writing", "draft"}
    /\ done' = [done EXCEPT ![c] = b]
    /\ chosen' = [chosen EXCEPT ![c] = NoSlot]
    /\ pressed' = [pressed EXCEPT ![c] = FALSE]
    /\ UNCHANGED <<calVars, tries, page>>

\* Any error, a refusal as well as an answer that never came: a new key.
PressFails(c) ==
    /\ done[c] = NoBooking /\ chosen[c] # NoSlot
    /\ tries[c] < MaxTries
    /\ pressed' = [pressed EXCEPT ![c] = FALSE]
    /\ tries' = [tries EXCEPT ![c] = @ + 1]
    /\ UNCHANGED <<calVars, chosen, done, page>>

-----------------------------------------------------------------------------
(* The page of a booking. *)

Shown(b) == [id |-> b, status |-> status[b], proposal |-> proposal[b]]

OpenPage(r, b) ==
    /\ status[b] \in Live
    /\ page' = [page EXCEPT ![r] = Shown(b)]
    /\ UNCHANGED <<calVars, chosen, pressed, tries, done>>

\* The server did it: the page shows the row it answers with, or an error.
Shows(r, b) ==
    \/ page' = [page EXCEPT ![r] = Shown(b)']
    \/ UNCHANGED page

LivePage(r) == page[r].status \in Live
Answerable(r) ==
    LivePage(r) /\ page[r].proposal # NoProposal /\ page[r].proposal.by # r

\* respond: the guide's two buttons on a pending request.
Respond(b) ==
    /\ page["guide"].id = b /\ page["guide"].status = "pending"
    /\ GuideConfirms(b) \/ GuideRejects(b)
    /\ Shows("guide", b)
    /\ UNCHANGED <<chosen, pressed, tries, done>>

CancelFromPage(r, b) ==
    /\ page[r].id = b /\ LivePage(r)
    /\ TourCancel(b)
    /\ Shows(r, b)
    /\ UNCHANGED <<chosen, pressed, tries, done>>

\* One of the other starts of the tour over the next two months.
MoveFromPage(r, b, s) ==
    /\ page[r].id = b /\ LivePage(r)
    /\ Propose(b, r, s)
    /\ Shows(r, b)
    /\ UNCHANGED <<chosen, pressed, tries, done>>

DeclineFromPage(r, b) ==
    /\ page[r].id = b /\ Answerable(r)
    /\ DeclineMove(b, r)
    /\ Shows(r, b)
    /\ UNCHANGED <<chosen, pressed, tries, done>>

\* The request names the booking; the server takes the proposal it finds.
AcceptFromPage(r, b, n) ==
    /\ page[r].id = b /\ Answerable(r)
    /\ AcceptMove(b, n, r)
    /\ Shows(r, n)
    /\ UNCHANGED <<chosen, pressed, tries, done>>

-----------------------------------------------------------------------------
DeskInit ==
    /\ chosen = [c \in Travellers |-> NoSlot]
    /\ pressed = [c \in Travellers |-> FALSE]
    /\ tries = [c \in Travellers |-> 1]
    /\ done = [c \in Travellers |-> NoBooking]
    /\ page = [r \in Roles |-> NoPage]

Init == CalInit /\ DeskInit

FlowNext(c) ==
    \/ TurnMonth(c) \/ PressFails(c)
    \/ \E s \in Slots : Pick(c, s)
    \/ \E b \in Bookings : Press(b, c) \/ Answered(c, b)

PageNext(r, b) ==
    \/ OpenPage(r, b) \/ CancelFromPage(r, b) \/ DeclineFromPage(r, b)
    \/ \E s \in Slots : MoveFromPage(r, b, s)
    \/ \E n \in Bookings : AcceptFromPage(r, b, n)

\* Drafts of the general checkout come from other pages.
OtherNext ==
    \/ \E b \in Bookings : Background(b) \/ BookCommit(b)
    \/ \E b \in Bookings, c \in Checkouts : CheckoutNext(b, c)
    \/ CalendarMoves

Next ==
    \/ \E c \in Travellers : FlowNext(c)
    \/ \E b \in Bookings : Respond(b) \/ \E r \in Roles : PageNext(r, b)
    \/ OtherNext /\ UNCHANGED deskVars

Spec == Init /\ [][Next]_vars

-----------------------------------------------------------------------------
(* Properties. *)

\* A booking that moved is one booking still (062: tour_answer_reschedule), however
\* often either page answers, cancels or proposes again after an answer was lost.
OneRowPerRequest ==
    \A b \in Bookings : movedTo[b] # NoBooking =>
        /\ status[b] = "cancelled"
        /\ \A x \in Bookings : movedTo[x] = movedTo[b] => x = b
=============================================================================
