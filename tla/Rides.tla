-------------------------------- MODULE Rides --------------------------------
(* Booking a verified driver: mshwar-database/migrations/041_rides.sql.  A request,
   the prices drivers send for it and the ride one of them becomes.  A function
   that locks the rows it reads is one step; driver_quote and the form's request
   read first and write later, and the suspension of a driver is a transaction of
   three statements whose partner row nobody sees before its commit.  Areas,
   vehicles and seats are left out: a driver who may quote is "live". *)
EXTENDS Naturals, FiniteSets

CONSTANTS
    Requests, Drivers,
    Prices,
    ExpiresAt, StartsAt,    \* of a request
    ReviewDays,             \* how long reviews may be written
    MaxOpen,                \* requests of one traveller
    MaxNow,                 \* bound on the clock
    Doubted,                \* bound: drivers that lapse or are suspended
    NoDriver, NoQuote

ASSUME RideAssumptions ==
    /\ NoDriver \notin Drivers /\ Doubted \subseteq Drivers
    /\ ExpiresAt \in [Requests -> Nat] /\ StartsAt \in [Requests -> Nat]
    /\ ReviewDays \in Nat /\ MaxOpen \in Nat /\ MaxNow \in Nat

VARIABLES
    now,
    status,     \* ride_requests.status, "asked" while the insert is not done
    quote,      \* ride_quotes, one row of a driver and a request
    writing,    \* the quote a driver's transaction is about to write
    ride,       \* rides, one row of a request
    wrote,      \* ride_reviews: the sides that reviewed
    standing,   \* partners.status and whether the documents are valid
    suspension  \* how far the transaction that suspends a driver has come

rideVars == <<now, status, quote, writing, ride, wrote, standing, suspension>>

Sides == {"traveller", "driver"}
Other(side) == IF side = "driver" THEN "traveller" ELSE "driver"
Ended == {"completed", "no_show", "cancelled_by_traveller", "cancelled_by_driver"}
NoOffer == [st |-> "none", price |-> 0]
NoRide == [state |-> "none", driver |-> NoDriver, price |-> 0, done |-> 0]
Quiet == [stage |-> "none", withdrew |-> {}, rides |-> {}]

RideRows == {NoRide} \cup
    [state : {"confirmed"} \cup Ended, driver : Drivers, price : Prices, done : 0..MaxNow]
Offers == [st : {"none", "offered", "accepted", "withdrawn", "declined", "expired"},
           price : Prices \cup {0}]

RideTypeOK ==
    /\ now \in 0..MaxNow
    /\ status \in [Requests -> {"none", "asked", "open", "booked", "cancelled", "expired"}]
    /\ quote \in [Requests -> [Drivers -> Offers]]
    /\ writing \in [Drivers -> {NoQuote} \cup [q : Requests, price : Prices]]
    /\ ride \in [Requests -> RideRows]
    /\ wrote \in [Requests -> SUBSET Sides]
    /\ standing \in [Drivers -> {"live", "lapsed", "suspended"}]
    /\ suspension \in [Drivers -> [stage : {"none", "quotes", "rides"},
                                   withdrew : SUBSET Requests, rides : SUBSET Requests]]

-----------------------------------------------------------------------------
\* partner_is_live, and a vehicle that is.
Live(d) == standing[d] = "live"
\* Mutant: only the time says that a request is over.
OpenByTime(q) == now <= ExpiresAt[q]
\* expires_at < now() says a request is over.
Open(q) == status[q] = "open" /\ now <= ExpiresAt[q]
Offered(q) == {d \in Drivers : quote[q][d].st = "offered"}

\* The offers of q for which Which holds end as st.
Closes(q, which, st) ==
    [d \in Drivers |-> IF d \in which THEN [quote[q][d] EXCEPT !.st = st] ELSE quote[q][d]]

-----------------------------------------------------------------------------
(* Travellers. *)

\* traveller_request_ride: the open requests are counted before the insert.
AskRead(q) ==
    /\ status[q] = "none" /\ now <= ExpiresAt[q]
    /\ Cardinality({x \in Requests : status[x] = "open"}) < MaxOpen
    /\ status' = [status EXCEPT ![q] = "asked"]
    /\ UNCHANGED <<now, quote, writing, ride, wrote, standing, suspension>>

AskWrite(q) ==
    /\ status[q] = "asked"
    /\ status' = [status EXCEPT ![q] = "open"]
    /\ UNCHANGED <<now, quote, writing, ride, wrote, standing, suspension>>

CancelRequest(q) ==
    /\ status[q] = "open"
    /\ status' = [status EXCEPT ![q] = "cancelled"]
    /\ quote' = [quote EXCEPT ![q] = Closes(q, Offered(q), "declined")]
    /\ UNCHANGED <<now, writing, ride, wrote, standing, suspension>>

\* Mutant: the accepted quote is declined with the others.
DeclinesAll(q, d) == Closes(q, Offered(q), "declined")
AcceptsOne(q, d) ==
    [Closes(q, Offered(q) \ {d}, "declined") EXCEPT ![d] = [st |-> "accepted", price |-> quote[q][d].price]]

\* traveller_accept_quote; a suspension under way has locked the offers it withdrew.
AcceptQuote(q, d) ==
    /\ Open(q) /\ d \in Offered(q) /\ Live(d)
    /\ ride' = [ride EXCEPT ![q] =
           [state |-> "confirmed", driver |-> d, price |-> quote[q][d].price, done |-> 0]]
    /\ quote' = [quote EXCEPT ![q] = AcceptsOne(q, d)]
    /\ status' = [status EXCEPT ![q] = "booked"]
    /\ UNCHANGED <<now, writing, wrote, standing, suspension>>

-----------------------------------------------------------------------------
(* Drivers. *)

\* driver_quote reads the driver and the request without a lock.
QuoteRead(d, q, p) ==
    /\ writing[d] = NoQuote /\ Live(d) /\ Open(q)
    /\ writing' = [writing EXCEPT ![d] = [q |-> q, price |-> p]]
    /\ UNCHANGED <<now, status, quote, ride, wrote, standing, suspension>>

Rewritable(st) == st \in {"none", "offered", "withdrawn"}

\* The upsert waits for a row that a suspension under way has withdrawn, and locked.
QuoteWrite(d) ==
    /\ writing[d] # NoQuote
    /\ LET q == writing[d].q IN
        /\ q \notin suspension[d].withdrew
        /\ quote' = [quote EXCEPT ![q] = [@ EXCEPT ![d] =
               IF Rewritable(quote[q][d].st) THEN [st |-> "offered", price |-> writing[d].price]
                                             ELSE quote[q][d]]]
    /\ writing' = [writing EXCEPT ![d] = NoQuote]
    /\ UNCHANGED <<now, status, ride, wrote, standing, suspension>>

WithdrawQuote(d, q) ==
    /\ d \in Offered(q)
    /\ quote' = [quote EXCEPT ![q] = Closes(q, {d}, "withdrawn")]
    /\ UNCHANGED <<now, status, writing, ride, wrote, standing, suspension>>

-----------------------------------------------------------------------------
(* Either side, after the booking. *)

CancelRide(q, side) ==
    /\ ride[q].state = "confirmed"
    /\ ride' = [ride EXCEPT ![q] = [@ EXCEPT !.state =
           IF side = "driver" THEN "cancelled_by_driver" ELSE "cancelled_by_traveller"]]
    /\ UNCHANGED <<now, status, quote, writing, wrote, standing, suspension>>

FinishRide(q, outcome) ==
    /\ ride[q].state = "confirmed" /\ StartsAt[q] <= now
    /\ ride' = [ride EXCEPT ![q] = [@ EXCEPT !.state = outcome,
           !.done = IF outcome = "completed" THEN now ELSE 0]]
    /\ UNCHANGED <<now, status, quote, writing, wrote, standing, suspension>>

ReviewWindow(q) == ride[q].state = "completed" /\ now <= ride[q].done + ReviewDays

WriteReview(q, side) ==
    /\ ReviewWindow(q) /\ side \notin wrote[q]
    /\ wrote' = [wrote EXCEPT ![q] = @ \cup {side}]
    /\ UNCHANGED <<now, status, quote, writing, ride, standing, suspension>>

\* Mutant: a review is published when it is written.
ReleasedAtOnce(q) == wrote[q] # {}
\* ride_review_released: both reviewed, or nobody can any more.
Released(q) == wrote[q] = Sides \/ (ride[q].done # 0 /\ ride[q].done + ReviewDays < now)
Theirs(q, side) == Released(q) /\ Other(side) \in wrote[q]
CanWrite(q, side) ==
    /\ ride[q].state = "completed" /\ now < ride[q].done + ReviewDays
    /\ side \notin wrote[q]

-----------------------------------------------------------------------------
(* Suspension, documents, and the sweep. *)

\* on_partner_status_change, first statement: the offers are withdrawn.
SuspendQuotes(d) ==
    /\ standing[d] # "suspended" /\ suspension[d] = Quiet
    /\ quote' = [q \in Requests |-> Closes(q, {d} \cap Offered(q), "withdrawn")]
    /\ suspension' = [suspension EXCEPT ![d] = [stage |-> "quotes", rides |-> {},
           withdrew |-> {q \in Requests : d \in Offered(q)}]]
    /\ UNCHANGED <<now, status, writing, ride, wrote, standing>>

\* Mutant: the loop does not ask whose rides they are.
EverythingToCome(d) == {q \in Requests : now < StartsAt[q]}
RidesToCome(d) ==
    {q \in Requests : ride[q].driver = d /\ ride[q].state = "confirmed" /\ now < StartsAt[q]}

\* Its loop reads the rides to come.
SuspendReads(d) ==
    /\ suspension[d].stage = "quotes"
    /\ suspension' = [suspension EXCEPT ![d] = [@ EXCEPT !.stage = "rides", !.rides = RidesToCome(d)]]
    /\ UNCHANGED <<now, status, quote, writing, ride, wrote, standing>>

\* The loop updates each by its id alone, whatever became of it; the commit.
SuspendCommits(d) ==
    /\ suspension[d].stage = "rides"
    /\ ride' = [q \in Requests |-> IF q \in suspension[d].rides
                                     THEN [ride[q] EXCEPT !.state = "cancelled_by_driver"] ELSE ride[q]]
    /\ standing' = [standing EXCEPT ![d] = "suspended"]
    /\ suspension' = [suspension EXCEPT ![d] = Quiet]
    /\ UNCHANGED <<now, status, quote, writing, wrote>>

\* Documents lapse and are renewed, a suspended driver is approved again.
StandingChanges(d) ==
    /\ suspension[d] = Quiet
    /\ standing' = [standing EXCEPT ![d] = IF standing[d] = "live" THEN "lapsed" ELSE "live"]
    /\ UNCHANGED <<now, status, quote, writing, ride, wrote, suspension>>

\* Mutant: the sweep closes what its first statement found an offer for.
WithOffers(q) == status[q] = "open" /\ ExpiresAt[q] < now /\ Offered(q) # {}
Overdue(q) == status[q] = "open" /\ ExpiresAt[q] < now

\* trust_sweep_rides: the offers first, then the requests.
SweepRides ==
    /\ \E q \in Requests : Overdue(q)
    /\ quote' = [q \in Requests |-> IF Overdue(q) THEN Closes(q, Offered(q), "expired") ELSE quote[q]]
    /\ status' = [q \in Requests |-> IF Overdue(q) THEN "expired" ELSE status[q]]
    /\ UNCHANGED <<now, writing, ride, wrote, standing, suspension>>

Tick == /\ now < MaxNow /\ now' = now + 1
        /\ UNCHANGED <<status, quote, writing, ride, wrote, standing, suspension>>

RideInit ==
    /\ now = 0
    /\ status = [q \in Requests |-> "none"]
    /\ quote = [q \in Requests |-> [d \in Drivers |-> NoOffer]]
    /\ writing = [d \in Drivers |-> NoQuote]
    /\ ride = [q \in Requests |-> NoRide]
    /\ wrote = [q \in Requests |-> {}]
    /\ standing = [d \in Drivers |-> "live"]
    /\ suspension = [d \in Drivers |-> Quiet]

\* What no page of a traveller or a driver asks for.
Behind ==
    \/ SweepRides \/ Tick
    \/ \E q \in Requests : AskWrite(q)
    \/ \E d \in Doubted : \/ StandingChanges(d)
                          \/ SuspendQuotes(d) \/ SuspendReads(d) \/ SuspendCommits(d)
=============================================================================
