------------------------------ MODULE RideDesk -------------------------------
(* The pages of a ride over Rides: new-ride-form.tsx, my-rides.tsx and
   ride-request-view.tsx of apps/web/src/components/rides for the traveller,
   driver-inbox.tsx and driver-rides.tsx of components/partners for the driver.
   A press and the server's function are one step: what a page shows may be old
   by then, and whatever the server answers may be lost on its way. *)
EXTENDS Rides

VARIABLES
    detail,     \* RideRequestView: the request and its ride
    inbox,      \* DriverInbox: my_quote of each request it lists
    rows        \* DriverRides: the rides it lists

deskVars == <<detail, inbox, rows>>
vars == <<rideVars, deskVars>>

\* ride_json for one side; the pages tell no other ends of a ride apart.
Seen(state) == IF state \in Ended \ {"completed"} THEN "over" ELSE state
RideJson(q, side) == [state |-> Seen(ride[q].state), theirs |-> Theirs(q, side),
                      canWrite |-> CanWrite(q, side)]
NoJson == [state |-> "none", theirs |-> FALSE, canWrite |-> FALSE]
Jsons == [state : {"none", "confirmed", "completed", "over"}, theirs : BOOLEAN, canWrite : BOOLEAN]

\* ride_request_json: an overdue request is shown as expired before the sweep.
ShownStatus(q) == IF status[q] = "open" /\ ExpiresAt[q] < now THEN "expired" ELSE status[q]
Standing(q) == {[driver |-> d, price |-> quote[q][d].price] : d \in Offered(q)}
Detail(q) == [status |-> ShownStatus(q), ride |-> RideJson(q, "traveller"), offers |-> Standing(q)]
NoDetail == [status |-> "none", ride |-> NoJson, offers |-> {}]

TypeOK ==
    /\ RideTypeOK
    /\ \A q \in Requests :
        /\ detail[q].status \in {"none", "open", "booked", "cancelled", "expired"}
        /\ detail[q].ride \in Jsons
        /\ detail[q].offers \subseteq [driver : Drivers, price : Prices]
    /\ inbox \in [Drivers -> [Requests -> {"absent", "listed", "offered"}]]
    /\ rows \in [Drivers -> [Requests -> Jsons]]

-----------------------------------------------------------------------------
(* The traveller's pages. *)

\* NewRideForm: the button is off while a request is out, but an answer that is
\* lost and a second tab let it send another.
Submit(q) ==
    /\ AskRead(q)
    /\ UNCHANGED deskVars

\* The page is opened, from MyRides or a notification, or reloads after a change.
LoadDetail(q) ==
    /\ status[q] \notin {"none", "asked"}
    /\ detail' = [detail EXCEPT ![q] = Detail(q)]
    /\ UNCHANGED <<rideVars, inbox, rows>>

\* A quote card's button names the quote, not the price on it.
PressAccept(q, offer) ==
    /\ detail[q].status = "open" /\ detail[q].ride.state = "none" /\ offer \in detail[q].offers
    /\ AcceptQuote(q, offer.driver)
    /\ UNCHANGED deskVars

PressCancelRequest(q) ==
    /\ detail[q].status = "open" /\ detail[q].ride.state = "none"
    /\ CancelRequest(q)
    /\ UNCHANGED deskVars

\* What an answer does to a page that shows the ride: the answer, or nothing.
DetailShows(q) ==
    detail' \in {detail, [detail EXCEPT ![q] = [@ EXCEPT !.ride = RideJson(q, "traveller")']]}

PressCancelRide(q) ==
    /\ detail[q].ride.state = "confirmed"
    /\ CancelRide(q, "traveller")
    /\ DetailShows(q)
    /\ UNCHANGED <<inbox, rows>>

TravellerReviews(q) ==
    /\ detail[q].ride.state = "completed" /\ detail[q].ride.canWrite
    /\ WriteReview(q, "traveller")
    /\ DetailShows(q)
    /\ UNCHANGED <<inbox, rows>>

-----------------------------------------------------------------------------
(* The driver's pages. *)

\* driver_open_requests.
Item(d, q) == IF d \in Offered(q) THEN "offered" ELSE "listed"
LoadInbox(d) ==
    /\ inbox' = [inbox EXCEPT ![d] = [q \in Requests |->
           IF Live(d) /\ status[q] = "open" /\ now < ExpiresAt[q] THEN Item(d, q) ELSE "absent"]]
    /\ UNCHANGED <<rideVars, detail, rows>>

\* The form of a request; its button is off until the answer.
SendQuote(d, q, p) ==
    /\ inbox[d][q] # "absent"
    /\ QuoteRead(d, q, p)
    /\ UNCHANGED deskVars

\* The item becomes what the server answers.
QuoteAnswered(d, q) ==
    /\ writing[d] # NoQuote /\ writing[d].q = q
    /\ QuoteWrite(d)
    /\ inbox' \in {inbox, [inbox EXCEPT ![d] =
           [@ EXCEPT ![q] = IF @ = "absent" THEN @ ELSE Item(d, q)']]}
    /\ UNCHANGED <<detail, rows>>

PressWithdraw(d, q) ==
    /\ inbox[d][q] = "offered" /\ writing[d] = NoQuote
    /\ WithdrawQuote(d, q)
    /\ inbox' \in {inbox, [inbox EXCEPT ![d] = [@ EXCEPT ![q] = "listed"]]}
    /\ UNCHANGED <<detail, rows>>

DriverJson(d, q) == IF ride[q].driver = d THEN RideJson(q, "driver") ELSE NoJson

LoadRows(d) ==
    /\ rows' = [rows EXCEPT ![d] = [q \in Requests |-> DriverJson(d, q)]]
    /\ UNCHANGED <<rideVars, detail, inbox>>

RowShows(d, q) ==
    rows' \in {rows, [rows EXCEPT ![d] = [@ EXCEPT ![q] = DriverJson(d, q)']]}

\* RideRow's act: done or no-show once it started, or a cancellation with a reason.
ActOnRide(d, q) ==
    /\ rows[d][q].state = "confirmed"
    /\ CancelRide(q, "driver") \/ \E outcome \in {"completed", "no_show"} : FinishRide(q, outcome)
    /\ RowShows(d, q)
    /\ UNCHANGED <<detail, inbox>>

DriverReviews(d, q) ==
    /\ rows[d][q].state = "completed" /\ rows[d][q].canWrite
    /\ WriteReview(q, "driver")
    /\ RowShows(d, q)
    /\ UNCHANGED <<detail, inbox>>

-----------------------------------------------------------------------------
Init ==
    /\ RideInit
    /\ detail = [q \in Requests |-> NoDetail]
    /\ inbox = [d \in Drivers |-> [q \in Requests |-> "absent"]]
    /\ rows = [d \in Drivers |-> [q \in Requests |-> NoJson]]

TravellerNext(q) ==
    \/ Submit(q) \/ LoadDetail(q)
    \/ PressCancelRequest(q) \/ PressCancelRide(q) \/ TravellerReviews(q)
    \/ \E offer \in [driver : Drivers, price : Prices] : PressAccept(q, offer)

DriverNext(d) ==
    \/ LoadInbox(d) \/ LoadRows(d)
    \/ \E q \in Requests : QuoteAnswered(d, q) \/ PressWithdraw(d, q) \/ ActOnRide(d, q) \/ DriverReviews(d, q)
    \/ \E q \in Requests, p \in Prices : SendQuote(d, q, p)

Next ==
    \/ \E q \in Requests : TravellerNext(q)
    \/ \E d \in Drivers : DriverNext(d)
    \/ Behind /\ UNCHANGED deskVars

\* The clock runs, and the scheduler calls the sweep every day.
Fairness == WF_vars(Tick /\ UNCHANGED deskVars) /\ WF_vars(SweepRides /\ UNCHANGED deskVars)

Spec == Init /\ [][Next]_vars /\ Fairness

-----------------------------------------------------------------------------
(* Properties. *)

\* A request is booked exactly when it has a ride, and the ride is of the one quote
\* that was accepted, at its price (traveller_accept_quote), whatever drivers send,
\* withdraw or lose meanwhile.
BookedIsOneQuote ==
    \A q \in Requests :
        LET accepted == {d \in Drivers : quote[q][d].st = "accepted"} IN
        /\ (status[q] = "booked") = (ride[q].state # "none")
        /\ status[q] = "booked" => /\ accepted = {ride[q].driver}
                                   /\ quote[q][ride[q].driver].price = ride[q].price
        /\ status[q] # "booked" => accepted = {}

\* The rides implement what is promised of them (041:7, "send a fixed price up front";
\* docs/local-services.md, "the traveller books one"): a request that was booked,
\* cancelled or expired is never booked again by a late acceptance, what is booked
\* is an offer that stands at that moment, its driver and price never change, and
\* a ride that was called off stays so.
PhaseOf(q) ==
    CASE status[q] \in {"none", "asked"} -> "new"
      [] status[q] = "open" -> "open"
      [] status[q] \in {"cancelled", "expired"} -> "closed"
      [] OTHER -> CASE ride[q].state = "confirmed" -> "agreed"
                    [] ride[q].state = "completed" -> "given"
                    [] OTHER -> "off"
Phases == [q \in Requests |-> PhaseOf(q)]
Bids   == [q \in Requests |-> IF status[q] = "open" THEN Standing(q) ELSE {}]
Agreed == [q \in Requests |-> IF status[q] = "booked"
                                THEN {[driver |-> ride[q].driver, price |-> ride[q].price]} ELSE {}]
Deals  == INSTANCE RideDeal WITH phase <- Phases, bids <- Bids, deal <- Agreed
ImplementsDeals == Deals!Spec

\* Reviews are blind (041: ride_review_released): nobody writes one after a page
\* has shown the other side's, and old pages do not help.
Shown(q, side) == IF side = "traveller" THEN detail[q].ride.theirs
                  ELSE ride[q].driver # NoDriver /\ rows[ride[q].driver][q].theirs
NoPeeking ==
    [][\A q \in Requests, side \in Sides :
           side \in wrote'[q] \ wrote[q] => ~Shown(q, side)]_vars

\* docs/local-services.md: the sweep "expires ride requests": none stays open.
RequestsEnd ==
    \A q \in Requests : status[q] = "open" ~> status[q] \in {"booked", "cancelled", "expired"}
=============================================================================
