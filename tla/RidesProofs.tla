----------------------------- MODULE RidesProofs -----------------------------
(* The types, the booking of one quote, the blindness of reviews and the deals of
   RideDeal in RideDesk, for every set of requests, drivers and prices, every
   review window, every bound on the clock and any number of suspensions.  RideInv
   strengthens the two invariants: a review is of a ride that is over, and what a
   page has shown stays released.  The deals need one more: nobody quotes for a
   request that is not out. *)
EXTENDS RideDesk, TLAPS

\* A quote that was sent has its price.
OffersPriced == \A q \in Requests, d \in Drivers :
    quote[q][d].st \in {"offered", "accepted"} => quote[q][d].price \in Prices

\* A ride that may still be driven was not completed and has no review.
ReviewsOfTheOver == \A q \in Requests :
    ride[q].state \in {"none", "confirmed"} => ride[q].done = 0 /\ wrote[q] = {}

\* The loop of a suspension holds rides, never bare requests.
SuspendsRides == \A d \in Drivers : \A q \in suspension[d].rides : ride[q].state # "none"

RideInv == RideTypeOK /\ OffersPriced /\ BookedIsOneQuote /\ ReviewsOfTheOver /\ SuspendsRides

\* Nothing that released a review is taken back.
Lasting == \A q \in Requests : Released(q) => Released(q)'

-----------------------------------------------------------------------------
(* Steps that leave rides and reviews alone. *)

\* The clock, the pages and the requests of travellers.
LEMMA QuietStep ==
    ASSUME RideInv, UNCHANGED <<quote, ride, wrote>>,
           now' \in now..MaxNow, RideTypeOK',
           \A d \in Drivers : suspension'[d].rides \subseteq {q \in Requests : ride[q].state # "none"},
           \A q \in Requests : status'[q] = status[q] \/ {status[q], status'[q]} \subseteq {"none", "asked", "open"}
    PROVE  RideInv' /\ Lasting
<1>1. BookedIsOneQuote'
  BY DEF RideInv, BookedIsOneQuote
<1>2. OffersPriced' /\ ReviewsOfTheOver' /\ SuspendsRides'
  BY DEF RideInv, OffersPriced, ReviewsOfTheOver, SuspendsRides
<1>3. Lasting
  <2> SUFFICES ASSUME NEW q \in Requests, Released(q) PROVE Released(q)'
    BY DEF Lasting
  <2>1. now \in Nat /\ now' \in Nat /\ now <= now' /\ ride[q].done \in Nat /\ ReviewDays \in Nat
    BY RideAssumptions DEF RideAssumptions, RideInv, RideTypeOK, RideRows, NoRide
  <2> QED BY <2>1 DEF Released
<1> QED BY <1>1, <1>2, <1>3 DEF RideInv

\* What becomes of the offers that nobody accepts.
LEMMA OffersStep ==
    ASSUME RideInv, UNCHANGED <<now, ride, wrote>>, RideTypeOK',
           \A d \in Drivers : suspension'[d].rides \subseteq suspension[d].rides,
           \A q \in Requests : \/ status'[q] = status[q]
                               \/ status[q] = "open" /\ status'[q] \in {"cancelled", "expired"},
           \A q \in Requests, d \in Drivers :
               \/ quote'[q][d] = quote[q][d]
               \/ /\ quote[q][d].st # "accepted" /\ quote'[q][d].st # "accepted"
                  /\ quote'[q][d].st = "offered" => quote'[q][d].price \in Prices
    PROVE  RideInv' /\ Lasting
<1>1. \A q \in Requests, d \in Drivers :
          /\ quote'[q][d].st = "accepted" <=> quote[q][d].st = "accepted"
          /\ quote[q][d].st = "accepted" => quote'[q][d] = quote[q][d]
  OBVIOUS
<1>2. BookedIsOneQuote'
  <2> SUFFICES ASSUME NEW q \in Requests
               PROVE  LET accepted == {d \in Drivers : quote'[q][d].st = "accepted"} IN
                      /\ (status'[q] = "booked") = (ride'[q].state # "none")
                      /\ status'[q] = "booked" => /\ accepted = {ride'[q].driver}
                                   /\ quote'[q][ride'[q].driver].price = ride'[q].price
                      /\ status'[q] # "booked" => accepted = {}
    BY DEF BookedIsOneQuote
  <2>1. {d \in Drivers : quote'[q][d].st = "accepted"} = {d \in Drivers : quote[q][d].st = "accepted"}
    BY <1>1
  <2>2. status'[q] = "booked" <=> status[q] = "booked"
    OBVIOUS
  <2>3. status[q] = "booked" => quote'[q][ride[q].driver] = quote[q][ride[q].driver]
    BY <1>1 DEF RideInv, BookedIsOneQuote
  <2> QED BY <2>1, <2>2, <2>3 DEF RideInv, BookedIsOneQuote
<1>3. OffersPriced' /\ ReviewsOfTheOver' /\ SuspendsRides'
  BY DEF RideInv, OffersPriced, ReviewsOfTheOver, SuspendsRides
<1>4. Lasting
  BY DEF Lasting, Released
<1> QED BY <1>2, <1>3, <1>4 DEF RideInv

\* What becomes of a ride: it ends, and a review of it is written when it is over.
LEMMA EndsStep ==
    ASSUME RideInv, UNCHANGED <<now, status, quote>>, RideTypeOK',
           \A d \in Drivers : suspension'[d].rides \subseteq {q \in Requests : ride[q].state # "none"},
           \A q \in Requests :
               /\ wrote[q] \subseteq wrote'[q]
               /\ wrote'[q] # wrote[q] => ride'[q] = ride[q] /\ ride[q].state = "completed"
               /\ \/ ride'[q] = ride[q]
                  \/ /\ ride[q].state # "none" /\ ride'[q].state \in Ended
                     /\ ride'[q].driver = ride[q].driver /\ ride'[q].price = ride[q].price
                     /\ ride[q].done # 0 => ride'[q].done = ride[q].done
    PROVE  RideInv' /\ Lasting
<1>1. BookedIsOneQuote'
  BY DEF RideInv, BookedIsOneQuote, Ended
<1>2. OffersPriced' /\ ReviewsOfTheOver' /\ SuspendsRides'
  BY DEF RideInv, OffersPriced, ReviewsOfTheOver, SuspendsRides, Ended
<1>3. Lasting
  <2> SUFFICES ASSUME NEW q \in Requests, Released(q) PROVE Released(q)'
    BY DEF Lasting
  <2>1. wrote'[q] \subseteq Sides
    BY DEF RideTypeOK
  <2> QED BY <2>1 DEF Released
<1> QED BY <1>1, <1>2, <1>3 DEF RideInv

-----------------------------------------------------------------------------
(* The actions of Rides. *)

\* What closing offers leaves of the rows of a request.
LEMMA ClosesType ==
    ASSUME RideTypeOK, NEW q \in Requests, NEW which \in SUBSET Offered(q),
           NEW st \in {"withdrawn", "declined", "expired"}
    PROVE  /\ Closes(q, which, st) \in [Drivers -> Offers]
           /\ \A d \in Drivers : \/ Closes(q, which, st)[d] = quote[q][d]
                                 \/ quote[q][d].st = "offered" /\ Closes(q, which, st)[d].st = st
<1> SUFFICES ASSUME NEW d \in Drivers
             PROVE  /\ Closes(q, which, st)[d] \in Offers
                    /\ \/ Closes(q, which, st)[d] = quote[q][d]
                       \/ quote[q][d].st = "offered" /\ Closes(q, which, st)[d].st = st
  BY DEF Closes
<1>1. quote[q][d] \in Offers
  BY DEF RideTypeOK
<1>2. /\ [quote[q][d] EXCEPT !.st = st] \in Offers
      /\ [quote[q][d] EXCEPT !.st = st].st = st
  BY <1>1 DEF Offers
<1>3. d \in which => quote[q][d].st = "offered"
  BY DEF Offered
<1>4. Closes(q, which, st)[d] = IF d \in which THEN [quote[q][d] EXCEPT !.st = st] ELSE quote[q][d]
  BY DEF Closes
<1> QED BY <1>1, <1>2, <1>3, <1>4

\* A request: its form, and its cancellation.
LEMMA RequestSteps ==
    ASSUME RideInv, NEW q \in Requests, AskRead(q) \/ AskWrite(q) \/ CancelRequest(q)
    PROVE  RideInv' /\ Lasting
<1>1. CASE AskRead(q) \/ AskWrite(q)
  <2>1. RideTypeOK'
    BY <1>1 DEF AskRead, AskWrite, RideInv, RideTypeOK
  <2>2. \A x \in Requests : status'[x] = status[x] \/ {status[x], status'[x]} \subseteq {"none", "asked", "open"}
    BY <1>1 DEF AskRead, AskWrite, RideInv, RideTypeOK
  <2>3. now' \in now..MaxNow
    BY <1>1, RideAssumptions DEF RideAssumptions, AskRead, AskWrite, RideInv, RideTypeOK
  <2>4. UNCHANGED <<quote, ride, wrote, suspension>>
    BY <1>1 DEF AskRead, AskWrite
  <2>5. \A d \in Drivers : suspension'[d].rides \subseteq {x \in Requests : ride[x].state # "none"}
    BY <2>4 DEF RideInv, RideTypeOK, SuspendsRides
  <2> QED BY <2>1, <2>2, <2>3, <2>4, <2>5, QuietStep
<1>2. CASE CancelRequest(q)
  <2> DEFINE C == Closes(q, Offered(q), "declined")
  <2>1. /\ C \in [Drivers -> Offers]
        /\ \A d \in Drivers : C[d] = quote[q][d] \/ (quote[q][d].st = "offered" /\ C[d].st = "declined")
    BY ClosesType DEF RideInv
  <2>2. /\ quote' = [quote EXCEPT ![q] = C] /\ status[q] = "open"
        /\ status' = [status EXCEPT ![q] = "cancelled"]
        /\ UNCHANGED <<now, writing, ride, wrote, standing, suspension>>
    BY <1>2 DEF CancelRequest
  <2> HIDE DEF C
  <2>3. RideTypeOK'
    BY <2>1, <2>2 DEF RideInv, RideTypeOK
  <2> QED BY <2>1, <2>2, <2>3, OffersStep DEF RideInv, RideTypeOK
<1> QED BY <1>1, <1>2

\* A quote becomes the ride.
LEMMA AcceptStep ==
    ASSUME RideInv, NEW q \in Requests, NEW d \in Drivers, AcceptQuote(q, d)
    PROVE  RideInv' /\ Lasting
<1> DEFINE p == quote[q][d].price
           A == AcceptsOne(q, d)
<1>1. status[q] = "open" /\ quote[q][d].st = "offered" /\ p \in Prices
  BY DEF AcceptQuote, Open, Offered, RideInv, OffersPriced
<1>2. ride[q].state = "none" /\ wrote[q] = {} /\ \A x \in Drivers : quote[q][x].st # "accepted"
  BY <1>1 DEF RideInv, BookedIsOneQuote, ReviewsOfTheOver
<1>3. /\ A \in [Drivers -> Offers] /\ A[d] = [st |-> "accepted", price |-> p]
      /\ \A x \in Drivers \ {d} : A[x] = quote[q][x] \/ A[x].st = "declined"
  <2>1. /\ Closes(q, Offered(q) \ {d}, "declined") \in [Drivers -> Offers]
        /\ \A x \in Drivers : \/ Closes(q, Offered(q) \ {d}, "declined")[x] = quote[q][x]
                              \/ Closes(q, Offered(q) \ {d}, "declined")[x].st = "declined"
    BY ClosesType DEF RideInv
  <2>2. [st |-> "accepted", price |-> p] \in Offers
    BY <1>1 DEF Offers
  <2> QED BY <2>1, <2>2 DEF AcceptsOne
<1> DEFINE r == [state |-> "confirmed", driver |-> d, price |-> p, done |-> 0]
<1>4. r \in RideRows /\ r.state = "confirmed" /\ r.driver = d /\ r.price = p /\ r.done = 0
  BY <1>1, RideAssumptions DEF RideAssumptions, RideRows
<1>5. /\ quote' = [quote EXCEPT ![q] = A] /\ status' = [status EXCEPT ![q] = "booked"]
      /\ ride' = [ride EXCEPT ![q] = r]
      /\ UNCHANGED <<now, writing, wrote, standing, suspension>>
  BY DEF AcceptQuote
<1> HIDE DEF A, p, r
<1>6. RideTypeOK'
  BY <1>3, <1>4, <1>5 DEF RideInv, RideTypeOK
<1>7. /\ quote'[q] = A /\ status'[q] = "booked" /\ ride'[q] = r
      /\ \A x \in Requests \ {q} : quote'[x] = quote[x] /\ status'[x] = status[x] /\ ride'[x] = ride[x]
  BY <1>5 DEF RideInv, RideTypeOK
<1>8. BookedIsOneQuote'
  <2> SUFFICES ASSUME NEW x \in Requests
               PROVE  LET accepted == {y \in Drivers : quote'[x][y].st = "accepted"} IN
                      /\ (status'[x] = "booked") = (ride'[x].state # "none")
                      /\ status'[x] = "booked" => /\ accepted = {ride'[x].driver}
                                   /\ quote'[x][ride'[x].driver].price = ride'[x].price
                      /\ status'[x] # "booked" => accepted = {}
    BY DEF BookedIsOneQuote
  <2>1. CASE x = q
    <3>1. {y \in Drivers : A[y].st = "accepted"} = {d}
      BY <1>2, <1>3
    <3> QED BY <2>1, <1>3, <1>4, <1>7, <3>1
  <2>2. CASE x # q
    BY <2>2, <1>7 DEF RideInv, BookedIsOneQuote
  <2> QED BY <2>1, <2>2
<1>9. OffersPriced'
  BY <1>1, <1>3, <1>7 DEF RideInv, OffersPriced, p
<1>10. ReviewsOfTheOver' /\ SuspendsRides'
  BY <1>2, <1>4, <1>5, <1>7 DEF RideInv, ReviewsOfTheOver, SuspendsRides, RideTypeOK
<1>11. Lasting
  <2>1. ride[q].done = 0 /\ wrote[q] # Sides
    BY <1>2 DEF RideInv, ReviewsOfTheOver, Sides
  <2> QED BY <1>5, <1>7, <2>1 DEF Lasting, Released
<1> QED BY <1>6, <1>8, <1>9, <1>10, <1>11 DEF RideInv

\* A driver's quote is read for, written and withdrawn.
LEMMA QuoteSteps ==
    ASSUME RideInv, NEW d \in Drivers, NEW q \in Requests, NEW p \in Prices,
           QuoteRead(d, q, p) \/ QuoteWrite(d) \/ WithdrawQuote(d, q)
    PROVE  RideInv' /\ Lasting
<1>1. CASE QuoteRead(d, q, p)
  <2>1. UNCHANGED <<now, status, quote, ride, wrote, standing, suspension>>
    BY <1>1 DEF QuoteRead
  <2>2. RideTypeOK'
    BY <1>1 DEF QuoteRead, RideInv, RideTypeOK
  <2>3. now' \in now..MaxNow
    BY <2>1, RideAssumptions DEF RideAssumptions, RideInv, RideTypeOK
  <2>5. \A x \in Drivers : suspension'[x].rides \subseteq {y \in Requests : ride[y].state # "none"}
    BY <2>1 DEF RideInv, RideTypeOK, SuspendsRides
  <2> QED BY <2>1, <2>2, <2>3, <2>5, QuietStep
<1>2. CASE QuoteWrite(d)
  <2>1. writing[d] \in [q : Requests, price : Prices]
    BY <1>2 DEF QuoteWrite, RideInv, RideTypeOK
  <2>2. PICK x \in Requests, s \in Prices : x = writing[d].q /\ s = writing[d].price
    BY <2>1
  <2> DEFINE o == IF Rewritable(quote[x][d].st) THEN [st |-> "offered", price |-> s] ELSE quote[x][d]
  <2>3. o \in Offers /\ (o = quote[x][d] \/ (o.st = "offered" /\ o.price \in Prices /\ quote[x][d].st # "accepted"))
    BY DEF Rewritable, Offers, RideInv, RideTypeOK
  <2>4. /\ quote' = [quote EXCEPT ![x] = [@ EXCEPT ![d] = o]]
        /\ writing' = [writing EXCEPT ![d] = NoQuote]
        /\ UNCHANGED <<now, status, ride, wrote, standing, suspension>>
    BY <1>2, <2>2 DEF QuoteWrite
  <2> HIDE DEF o
  <2>5. RideTypeOK'
    BY <2>3, <2>4 DEF RideInv, RideTypeOK
  <2> QED BY <2>3, <2>4, <2>5, OffersStep DEF RideInv, RideTypeOK
<1>3. CASE WithdrawQuote(d, q)
  <2> DEFINE C == Closes(q, {d}, "withdrawn")
  <2>1. /\ C \in [Drivers -> Offers]
        /\ \A x \in Drivers : C[x] = quote[q][x] \/ (quote[q][x].st = "offered" /\ C[x].st = "withdrawn")
    BY <1>3, ClosesType DEF RideInv, WithdrawQuote
  <2>2. /\ quote' = [quote EXCEPT ![q] = C]
        /\ UNCHANGED <<now, status, writing, ride, wrote, standing, suspension>>
    BY <1>3 DEF WithdrawQuote
  <2> HIDE DEF C
  <2>3. RideTypeOK'
    BY <2>1, <2>2 DEF RideInv, RideTypeOK
  <2> QED BY <2>1, <2>2, <2>3, OffersStep DEF RideInv, RideTypeOK
<1> QED BY <1>1, <1>2, <1>3

\* A ride ends, by either side, and is reviewed.
LEMMA RideSteps ==
    ASSUME RideInv, NEW q \in Requests, NEW side \in Sides, NEW outcome \in {"completed", "no_show"},
           CancelRide(q, side) \/ FinishRide(q, outcome) \/ WriteReview(q, side)
    PROVE  RideInv' /\ Lasting
<1>0. /\ \A d \in Drivers : suspension[d].rides \subseteq {x \in Requests : ride[x].state # "none"}
      /\ ride \in [Requests -> RideRows] /\ now \in 0..MaxNow
  BY DEF RideInv, RideTypeOK, SuspendsRides
<1>1. CASE CancelRide(q, side)
  <2> DEFINE st == IF side = "driver" THEN "cancelled_by_driver" ELSE "cancelled_by_traveller"
             r == [ride[q] EXCEPT !.state = st]
  <2>1. ride[q].state = "confirmed" /\ ride' = [ride EXCEPT ![q] = r] /\ ride'[q] = r
        /\ UNCHANGED <<now, status, quote, writing, wrote, standing, suspension>>
    BY <1>0, <1>1 DEF CancelRide
  <2>2. /\ r \in RideRows /\ r.state \in Ended /\ r.driver = ride[q].driver
        /\ r.price = ride[q].price /\ r.done = ride[q].done
    BY <1>0, <2>1 DEF RideRows, NoRide, Ended
  <2> HIDE DEF r
  <2>3. RideTypeOK'
    BY <2>1, <2>2 DEF RideInv, RideTypeOK
  <2> QED BY <1>0, <2>1, <2>2, <2>3, EndsStep
<1>2. CASE FinishRide(q, outcome)
  <2> DEFINE r == [ride[q] EXCEPT !.state = outcome, !.done = IF outcome = "completed" THEN now ELSE 0]
  <2>1. ride[q].state = "confirmed" /\ ride' = [ride EXCEPT ![q] = r] /\ ride'[q] = r
        /\ UNCHANGED <<now, status, quote, writing, wrote, standing, suspension>>
    BY <1>0, <1>2 DEF FinishRide
  <2>2. /\ r \in RideRows /\ r.state \in Ended /\ r.driver = ride[q].driver /\ r.price = ride[q].price
    <3>1. 0 \in 0..MaxNow
      BY RideAssumptions DEF RideAssumptions
    <3>2. ride[q] \in [state : {"confirmed"} \cup Ended, driver : Drivers, price : Prices, done : 0..MaxNow]
      BY <1>0, <2>1 DEF RideRows, NoRide
    <3>3. outcome \in Ended
      BY DEF Ended
    <3> QED BY <1>0, <3>1, <3>2, <3>3 DEF RideRows
  <2>3. ride[q].done = 0
    BY <2>1 DEF RideInv, ReviewsOfTheOver
  <2> HIDE DEF r
  <2>4. RideTypeOK'
    BY <2>1, <2>2 DEF RideInv, RideTypeOK
  <2> QED BY <1>0, <2>1, <2>2, <2>3, <2>4, EndsStep
<1>3. CASE WriteReview(q, side)
  <2>1. RideTypeOK'
    BY <1>3 DEF WriteReview, RideInv, RideTypeOK
  <2>2. /\ ride[q].state = "completed" /\ wrote' = [wrote EXCEPT ![q] = @ \cup {side}]
        /\ UNCHANGED <<now, status, quote, writing, ride, standing, suspension>>
    BY <1>3 DEF WriteReview, ReviewWindow
  <2>3. \A x \in Requests : wrote[x] \subseteq wrote'[x] /\ (wrote'[x] # wrote[x] => x = q)
    BY <2>2 DEF RideInv, RideTypeOK
  <2> QED BY <1>0, <2>1, <2>2, <2>3, EndsStep
<1> QED BY <1>1, <1>2, <1>3

\* The transaction that suspends a driver.
LEMMA SuspensionSteps ==
    ASSUME RideInv, NEW d \in Drivers, SuspendQuotes(d) \/ SuspendReads(d) \/ SuspendCommits(d)
    PROVE  RideInv' /\ Lasting
<1>0. /\ \A x \in Drivers : suspension[x].rides \subseteq {y \in Requests : ride[y].state # "none"}
      /\ suspension \in [Drivers -> [stage : {"none", "quotes", "rides"},
               withdrew : SUBSET Requests, rides : SUBSET Requests]]
  BY DEF RideInv, RideTypeOK, SuspendsRides
<1>1. CASE SuspendQuotes(d)
  <2> DEFINE C == [q \in Requests |-> Closes(q, {d} \cap Offered(q), "withdrawn")]
  <2>1. /\ C \in [Requests -> [Drivers -> Offers]]
        /\ \A q \in Requests, x \in Drivers :
               C[q][x] = quote[q][x] \/ (quote[q][x].st = "offered" /\ C[q][x].st = "withdrawn")
    <3>1. \A q \in Requests : {d} \cap Offered(q) \in SUBSET Offered(q)
      OBVIOUS
    <3> QED BY <3>1, ClosesType DEF RideInv
  <2> DEFINE W == {q \in Requests : d \in Offered(q)}
  <2>2. /\ quote' = C
        /\ suspension' = [suspension EXCEPT ![d] = [stage |-> "quotes", rides |-> {}, withdrew |-> W]]
        /\ UNCHANGED <<now, status, writing, ride, wrote, standing>>
    BY <1>1 DEF SuspendQuotes
  <2>3. W \in SUBSET Requests
    OBVIOUS
  <2> HIDE DEF C, W
  <2>4. RideTypeOK' /\ \A x \in Drivers : suspension'[x].rides \subseteq suspension[x].rides
    BY <1>0, <2>1, <2>2, <2>3 DEF RideInv, RideTypeOK
  <2> QED BY <2>1, <2>2, <2>4, OffersStep
<1>2. CASE SuspendReads(d)
  <2>1. /\ suspension' = [suspension EXCEPT ![d] = [@ EXCEPT !.stage = "rides", !.rides = RidesToCome(d)]]
        /\ UNCHANGED <<now, status, quote, writing, ride, wrote, standing>>
    BY <1>2 DEF SuspendReads
  <2>2. RidesToCome(d) \subseteq {y \in Requests : ride[y].state # "none"}
    BY DEF RidesToCome
  <2>3. /\ suspension' \in [Drivers -> [stage : {"none", "quotes", "rides"},
               withdrew : SUBSET Requests, rides : SUBSET Requests]]
        /\ \A x \in Drivers : suspension'[x].rides \subseteq {y \in Requests : ride[y].state # "none"}
    BY <1>0, <2>1, <2>2
  <2>4. RideTypeOK'
    BY <2>1, <2>3 DEF RideInv, RideTypeOK
  <2>5. now' \in now..MaxNow
    BY <2>1, RideAssumptions DEF RideAssumptions, RideInv, RideTypeOK
  <2> QED BY <2>1, <2>3, <2>4, <2>5, QuietStep
<1>3. CASE SuspendCommits(d)
  <2> DEFINE R == [q \in Requests |-> IF q \in suspension[d].rides
                     THEN [ride[q] EXCEPT !.state = "cancelled_by_driver"] ELSE ride[q]]
  <2>1. /\ ride' = R /\ standing' = [standing EXCEPT ![d] = "suspended"]
        /\ suspension' = [suspension EXCEPT ![d] = Quiet]
        /\ UNCHANGED <<now, status, quote, writing, wrote>>
    BY <1>3 DEF SuspendCommits
  <2>2. \A q \in Requests : /\ R[q] \in RideRows
                            /\ \/ R[q] = ride[q]
                               \/ /\ ride[q].state # "none" /\ R[q].state \in Ended
                                  /\ R[q].driver = ride[q].driver /\ R[q].price = ride[q].price
                                  /\ R[q].done = ride[q].done
    <3> SUFFICES ASSUME NEW q \in Requests
                 PROVE  /\ R[q] \in RideRows
                        /\ \/ R[q] = ride[q]
                           \/ /\ ride[q].state # "none" /\ R[q].state \in Ended
                              /\ R[q].driver = ride[q].driver /\ R[q].price = ride[q].price
                              /\ R[q].done = ride[q].done
      OBVIOUS
    <3>1. ride[q] \in RideRows /\ (q \in suspension[d].rides => ride[q].state # "none")
      BY <1>0 DEF RideInv, RideTypeOK
    <3>2. CASE q \in suspension[d].rides
      BY <3>1, <3>2 DEF RideRows, NoRide, Ended
    <3>3. CASE q \notin suspension[d].rides
      BY <3>1, <3>3
    <3> QED BY <3>2, <3>3
  <2>3. R \in [Requests -> RideRows]
    BY <2>2
  <2> HIDE DEF R
  <2>4. RideTypeOK'
    BY <2>1, <2>3 DEF RideInv, RideTypeOK, Quiet
  <2>5. \A x \in Drivers : suspension'[x].rides \subseteq {y \in Requests : ride[y].state # "none"}
    BY <1>0, <2>1 DEF Quiet
  <2> QED BY <2>1, <2>2, <2>4, <2>5, EndsStep
<1> QED BY <1>1, <1>2, <1>3

\* The sweep, the clock, the standing of drivers and the requests being written.
LEMMA BehindStep ==
    ASSUME RideInv, Behind
    PROVE  RideInv' /\ Lasting
<1>1. CASE SweepRides
  <2> DEFINE C == [q \in Requests |-> IF Overdue(q) THEN Closes(q, Offered(q), "expired") ELSE quote[q]]
  <2>1. /\ C \in [Requests -> [Drivers -> Offers]]
        /\ \A q \in Requests, x \in Drivers :
               C[q][x] = quote[q][x] \/ (quote[q][x].st = "offered" /\ C[q][x].st = "expired")
    BY ClosesType DEF RideInv, RideTypeOK
  <2>2. /\ quote' = C /\ status' = [q \in Requests |-> IF Overdue(q) THEN "expired" ELSE status[q]]
        /\ UNCHANGED <<now, writing, ride, wrote, standing, suspension>>
    BY <1>1 DEF SweepRides
  <2> HIDE DEF C
  <2>3. RideTypeOK'
    BY <2>1, <2>2 DEF RideInv, RideTypeOK
  <2>4. \A q \in Requests : status'[q] = status[q] \/ (status[q] = "open" /\ status'[q] = "expired")
    BY <2>2 DEF Overdue
  <2> QED BY <2>1, <2>2, <2>3, <2>4, OffersStep
<1>2. CASE Tick \/ \E d \in Doubted : StandingChanges(d)
  <2>1. /\ UNCHANGED <<status, quote, writing, ride, wrote, suspension>>
        /\ now' \in now..MaxNow /\ RideTypeOK'
    <3>1. MaxNow \in Nat /\ now \in 0..MaxNow
      BY RideAssumptions DEF RideAssumptions, RideInv, RideTypeOK
    <3>2. CASE Tick
      BY <3>1, <3>2 DEF Tick, RideInv, RideTypeOK
    <3>3. CASE \E d \in Doubted : StandingChanges(d)
      <4>1. /\ standing' \in [Drivers -> {"live", "lapsed", "suspended"}]
            /\ UNCHANGED <<now, status, quote, writing, ride, wrote, suspension>>
        BY <3>3 DEF StandingChanges, RideInv, RideTypeOK
      <4> QED BY <3>1, <4>1 DEF RideInv, RideTypeOK
    <3> QED BY <1>2, <3>2, <3>3
  <2>2. \A x \in Drivers : suspension[x].rides \subseteq {y \in Requests : ride[y].state # "none"}
    BY DEF RideInv, RideTypeOK, SuspendsRides
  <2> QED BY <2>1, <2>2, QuietStep
<1>3. CASE \E q \in Requests : AskWrite(q)
  BY <1>3, RequestSteps
<1>4. CASE \E d \in Doubted : SuspendQuotes(d) \/ SuspendReads(d) \/ SuspendCommits(d)
  BY <1>4, SuspensionSteps, RideAssumptions DEF RideAssumptions
<1> QED BY <1>1, <1>2, <1>3, <1>4 DEF Behind

-----------------------------------------------------------------------------
(* The pages. *)

DetailType == detail \in [Requests ->
    [status : {"none", "open", "booked", "cancelled", "expired"}, ride : Jsons,
     offers : SUBSET [driver : Drivers, price : Prices]]]
ListsType ==
    /\ inbox \in [Drivers -> [Requests -> {"absent", "listed", "offered"}]]
    /\ rows \in [Drivers -> [Requests -> Jsons]]

\* The pages show the other side's review only when it is released.
PagesBlind ==
    \A q \in Requests :
        /\ detail[q].ride.theirs => Released(q)
        /\ \A d \in Drivers : rows[d][q].theirs => Released(q)

DeskInv == RideInv /\ DetailType /\ ListsType /\ PagesBlind

\* What the server answers about a ride.
LEMMA JsonType ==
    ASSUME RideTypeOK, NEW q \in Requests, NEW side \in Sides
    PROVE  RideJson(q, side) \in Jsons /\ (RideJson(q, side).theirs => Released(q))
<1>1. /\ Seen(ride[q].state) \in {"none", "confirmed", "completed", "over"}
      /\ Theirs(q, side) \in BOOLEAN /\ CanWrite(q, side) \in BOOLEAN
  BY DEF RideTypeOK, RideRows, NoRide, Seen, Ended, Theirs, CanWrite
<1> QED BY <1>1 DEF RideJson, Jsons, Theirs

\* A page that keeps what it shows, or shows what the server answers.
Shows == /\ \A q \in Requests :
               \/ detail'[q] = detail[q]
               \/ \E side \in Sides : detail'[q].ride = RideJson(q, side)'
         /\ \A d \in Drivers, q \in Requests :
               \/ rows'[d][q] = rows[d][q]
               \/ ~rows'[d][q].theirs
               \/ \E side \in Sides : rows'[d][q] = RideJson(q, side)'

\* Whatever a page shows was released, and stays so.
LEMMA StillBlind ==
    ASSUME DeskInv, RideTypeOK', Lasting, Shows
    PROVE  PagesBlind'
<1>1. ASSUME NEW q \in Requests, NEW side \in Sides
      PROVE  RideJson(q, side)'.theirs => Released(q)'
  <2>1. (RideJson(q, side).theirs => Released(q))'
    BY DEF RideJson, Theirs
  <2> QED BY <2>1
<1>2. ASSUME NEW q \in Requests, detail'[q].ride.theirs
      PROVE  Released(q)'
  BY <1>1, <1>2 DEF Shows, Lasting, DeskInv, PagesBlind
<1>3. ASSUME NEW q \in Requests, NEW d \in Drivers, rows'[d][q].theirs
      PROVE  Released(q)'
  BY <1>1, <1>3 DEF Shows, Lasting, DeskInv, PagesBlind
<1> QED BY <1>2, <1>3 DEF PagesBlind

\* A step of a page over one of Rides.
LEMMA PageStep ==
    ASSUME DeskInv, RideInv', Lasting, Shows, DetailType', ListsType'
    PROVE  DeskInv'
BY StillBlind DEF DeskInv, RideInv

\* A step that no page sees.
LEMMA UnseenStep ==
    ASSUME DeskInv, RideInv', Lasting, UNCHANGED deskVars
    PROVE  DeskInv'
<1>1. Shows /\ DetailType' /\ ListsType'
  BY DEF deskVars, Shows, DeskInv, DetailType, ListsType
<1> QED BY <1>1, PageStep

\* The page of a request.
LEMMA DetailStep ==
    ASSUME DeskInv, RideInv', Lasting, UNCHANGED <<inbox, rows>>, NEW q \in Requests, DetailShows(q)
    PROVE  DeskInv'
<1>1. ListsType'
  BY DEF DeskInv, ListsType
<1> DEFINE json == RideJson(q, "traveller")'
<1>2. json \in Jsons
  <2>1. (RideJson(q, "traveller") \in Jsons)'
    <3>1. /\ Seen(ride'[q].state) \in {"none", "confirmed", "completed", "over"}
          /\ Theirs(q, "traveller")' \in BOOLEAN /\ CanWrite(q, "traveller")' \in BOOLEAN
      BY DEF RideInv, RideTypeOK, RideRows, NoRide, Seen, Ended, Theirs, CanWrite
    <3> QED BY <3>1 DEF RideJson, Jsons
  <2> QED BY <2>1
<1>3. detail' = detail \/ detail' = [detail EXCEPT ![q] = [@ EXCEPT !.ride = json]]
  BY DEF DetailShows
<1> HIDE DEF json
<1>4. DetailType'
  BY <1>2, <1>3 DEF DeskInv, DetailType
<1>5. \A x \in Requests : detail'[x] = detail[x] \/ (x = q /\ detail'[x].ride = json)
  BY <1>3 DEF DeskInv, DetailType
<1>6. Shows
  BY <1>5 DEF Shows, json, Sides
<1> QED BY <1>1, <1>4, <1>6, PageStep

\* A row of a driver's list of rides.
LEMMA RowStep ==
    ASSUME DeskInv, RideInv', Lasting, UNCHANGED <<detail, inbox>>,
           NEW d \in Drivers, NEW q \in Requests, RowShows(d, q)
    PROVE  DeskInv'
<1> DEFINE json == DriverJson(d, q)'
<1>1. json \in Jsons /\ (json = RideJson(q, "driver")' \/ ~json.theirs)
  <2>1. RideJson(q, "driver")' \in Jsons
    <3>1. /\ Seen(ride'[q].state) \in {"none", "confirmed", "completed", "over"}
          /\ Theirs(q, "driver")' \in BOOLEAN /\ CanWrite(q, "driver")' \in BOOLEAN
      BY DEF RideInv, RideTypeOK, RideRows, NoRide, Seen, Ended, Theirs, CanWrite
    <3> QED BY <3>1 DEF RideJson, Jsons
  <2>2. NoJson \in Jsons /\ ~NoJson.theirs
    BY DEF NoJson, Jsons
  <2> QED BY <2>1, <2>2 DEF DriverJson
<1>2. rows' = rows \/ rows' = [rows EXCEPT ![d] = [@ EXCEPT ![q] = json]]
  BY DEF RowShows
<1> HIDE DEF json
<1>3. ListsType' /\ DetailType'
  <2>1. rows \in [Drivers -> [Requests -> Jsons]]
    BY DEF DeskInv, ListsType
  <2>2. [rows EXCEPT ![d] = [@ EXCEPT ![q] = json]] \in [Drivers -> [Requests -> Jsons]]
    <3>1. [rows[d] EXCEPT ![q] = json] \in [Requests -> Jsons]
      BY <1>1, <2>1
    <3> QED BY <2>1, <3>1
  <2>3. rows' \in [Drivers -> [Requests -> Jsons]]
    BY <1>2, <2>1, <2>2
  <2> QED BY <2>3 DEF DeskInv, ListsType, DetailType
<1>4. \A c \in Drivers, x \in Requests : rows'[c][x] = rows[c][x] \/ (x = q /\ rows'[c][x] = json)
  BY <1>2 DEF DeskInv, ListsType
<1>5. Shows
  BY <1>1, <1>4 DEF Shows, Sides
<1> QED BY <1>3, <1>5, PageStep

\* A step of the traveller's pages.
LEMMA TravellerStep ==
    ASSUME DeskInv, NEW q \in Requests, TravellerNext(q)
    PROVE  DeskInv'
<1>0. RideInv /\ RideTypeOK
  BY DEF DeskInv, RideInv
<1>1. CASE Submit(q) \/ PressCancelRequest(q)
  BY <1>0, <1>1, RequestSteps, UnseenStep DEF Submit, PressCancelRequest
<1>2. CASE \E offer \in [driver : Drivers, price : Prices] : PressAccept(q, offer)
  BY <1>0, <1>2, AcceptStep, UnseenStep DEF PressAccept
<1>3. CASE PressCancelRide(q) \/ TravellerReviews(q)
  <2>1. RideInv' /\ Lasting
    BY <1>0, <1>3, RideSteps DEF PressCancelRide, TravellerReviews, Sides
  <2> QED BY <1>3, <2>1, DetailStep DEF PressCancelRide, TravellerReviews
<1>4. CASE LoadDetail(q)
  <2>1. UNCHANGED rideVars /\ detail' = [detail EXCEPT ![q] = Detail(q)] /\ UNCHANGED <<inbox, rows>>
        /\ status[q] \notin {"none", "asked"}
    BY <1>4 DEF LoadDetail
  <2>2. RideInv' /\ Lasting
    BY <1>0, <2>1 DEF rideVars, RideInv, RideTypeOK, OffersPriced, BookedIsOneQuote,
                      ReviewsOfTheOver, SuspendsRides, Lasting, Released
  <2>3. Detail(q) \in [status : {"none", "open", "booked", "cancelled", "expired"}, ride : Jsons,
                       offers : SUBSET [driver : Drivers, price : Prices]]
    <3>1. RideJson(q, "traveller") \in Jsons
      BY <1>0, JsonType DEF Sides
    <3>2. ShownStatus(q) \in {"none", "open", "booked", "cancelled", "expired"}
      BY <1>0, <2>1 DEF ShownStatus, RideTypeOK
    <3>3. {[driver |-> d, price |-> quote[q][d].price] : d \in Offered(q)}
              \subseteq [driver : Drivers, price : Prices]
      BY <1>0 DEF Offered, RideInv, OffersPriced
    <3> QED BY <3>1, <3>2, <3>3 DEF Detail, Standing
  <2>4. DetailType' /\ ListsType'
    BY <2>1, <2>3 DEF DeskInv, DetailType, ListsType
  <2>5. \A x \in Requests : detail'[x] = detail[x] \/ (x = q /\ detail'[x] = Detail(q))
    BY <2>1 DEF DeskInv, DetailType
  <2>6. Detail(q).ride = RideJson(q, "traveller")'
    BY <2>1 DEF Detail, RideJson, Theirs, CanWrite, Released, rideVars
  <2>7. Shows
    BY <2>1, <2>5, <2>6 DEF Shows, Sides
  <2> QED BY <2>2, <2>4, <2>7, PageStep
<1> QED BY <1>1, <1>2, <1>3, <1>4 DEF TravellerNext

\* A step of a driver's pages.
LEMMA DriverStep ==
    ASSUME DeskInv, NEW d \in Drivers, DriverNext(d)
    PROVE  DeskInv'
<1>0. RideInv /\ RideTypeOK
  BY DEF DeskInv, RideInv
<1>1. CASE \E q \in Requests, p \in Prices : SendQuote(d, q, p)
  BY <1>0, <1>1, QuoteSteps, UnseenStep DEF SendQuote
<1>2. CASE \E q \in Requests : QuoteAnswered(d, q) \/ PressWithdraw(d, q)
  <2>1. PICK q \in Requests : QuoteAnswered(d, q) \/ PressWithdraw(d, q)
    BY <1>2
  <2>2. RideInv' /\ Lasting
    <3>1. CASE QuoteAnswered(d, q)
      <4>1. \E p \in Prices : TRUE
        BY <1>0, <3>1 DEF QuoteAnswered, RideTypeOK
      <4> QED BY <1>0, <3>1, <4>1, QuoteSteps DEF QuoteAnswered
    <3>2. CASE PressWithdraw(d, q)
      <4>1. \E p \in Prices : TRUE
        BY <1>0, <3>2 DEF PressWithdraw, WithdrawQuote, Offered, RideInv, OffersPriced
      <4> QED BY <1>0, <3>2, <4>1, QuoteSteps DEF PressWithdraw
    <3> QED BY <2>1, <3>1, <3>2
  <2>3. /\ UNCHANGED <<detail, rows>>
        /\ \/ inbox' = inbox
           \/ \E x \in {"absent", "listed", "offered"} : inbox' = [inbox EXCEPT ![d] = [@ EXCEPT ![q] = x]]
    <3>1. CASE QuoteAnswered(d, q)
      <4>1. Item(d, q)' \in {"absent", "listed", "offered"}
        BY DEF Item
      <4>2. IF inbox[d][q] = "absent" THEN inbox[d][q] \in {"absent", "listed", "offered"} ELSE TRUE
        OBVIOUS
      <4> QED BY <3>1, <4>1, <4>2 DEF QuoteAnswered
    <3>2. CASE PressWithdraw(d, q)
      BY <3>2 DEF PressWithdraw
    <3> QED BY <2>1, <3>1, <3>2
  <2>4. ListsType'
    <3>1. CASE inbox' = inbox
      BY <2>3, <3>1 DEF DeskInv, ListsType
    <3>2. CASE inbox' # inbox
      <4>1. PICK x \in {"absent", "listed", "offered"} : inbox' = [inbox EXCEPT ![d] = [@ EXCEPT ![q] = x]]
        BY <2>3, <3>2
      <4> QED BY <2>3, <4>1 DEF DeskInv, ListsType
    <3> QED BY <3>1, <3>2
  <2>5. Shows /\ DetailType'
    BY <2>3 DEF Shows, DeskInv, DetailType
  <2> QED BY <2>2, <2>4, <2>5, PageStep
<1>3. CASE \E q \in Requests : ActOnRide(d, q) \/ DriverReviews(d, q)
  <2>1. PICK q \in Requests : ActOnRide(d, q) \/ DriverReviews(d, q)
    BY <1>3
  <2>2. RideInv' /\ Lasting
    BY <1>0, <2>1, RideSteps DEF ActOnRide, DriverReviews, Sides
  <2> QED BY <2>1, <2>2, RowStep DEF ActOnRide, DriverReviews
<1>4. CASE LoadInbox(d) \/ LoadRows(d)
  <2>1. UNCHANGED rideVars /\ UNCHANGED detail
    BY <1>4 DEF LoadInbox, LoadRows
  <2>2. RideInv' /\ Lasting
    BY <1>0, <2>1 DEF rideVars, RideInv, RideTypeOK, OffersPriced, BookedIsOneQuote,
                      ReviewsOfTheOver, SuspendsRides, Lasting, Released
  <2>3. \A q \in Requests : /\ DriverJson(d, q) \in Jsons
                            /\ ~DriverJson(d, q).theirs \/ DriverJson(d, q) = RideJson(q, "driver")'
    <3> SUFFICES ASSUME NEW q \in Requests
                 PROVE  /\ DriverJson(d, q) \in Jsons
                        /\ ~DriverJson(d, q).theirs \/ DriverJson(d, q) = RideJson(q, "driver")'
      OBVIOUS
    <3>1. RideJson(q, "driver") \in Jsons
      BY <1>0, JsonType DEF Sides
    <3>2. RideJson(q, "driver")' = RideJson(q, "driver")
      BY <2>1 DEF RideJson, Theirs, CanWrite, Released, rideVars
    <3>3. NoJson \in Jsons /\ ~NoJson.theirs
      BY DEF NoJson, Jsons
    <3> QED BY <3>1, <3>2, <3>3 DEF DriverJson
  <2>4. CASE LoadRows(d)
    <3> DEFINE R == [q \in Requests |-> DriverJson(d, q)]
    <3>1. R \in [Requests -> Jsons] /\ \A q \in Requests : R[q] = DriverJson(d, q)
      BY <2>3
    <3>2. rows' = [rows EXCEPT ![d] = R] /\ inbox' = inbox
      BY <2>4 DEF LoadRows
    <3> HIDE DEF R
    <3>3. DetailType' /\ ListsType'
      BY <2>1, <3>1, <3>2 DEF DeskInv, DetailType, ListsType
    <3>4. \A c \in Drivers, q \in Requests : rows'[c][q] = rows[c][q] \/ rows'[c][q] = DriverJson(d, q)
      BY <3>1, <3>2 DEF DeskInv, ListsType
    <3>5. Shows
      BY <2>1, <2>3, <3>4 DEF Shows, Sides
    <3> QED BY <2>2, <3>3, <3>5, PageStep
  <2>5. CASE LoadInbox(d)
    <3> DEFINE I == [q \in Requests |->
           IF Live(d) /\ status[q] = "open" /\ now < ExpiresAt[q] THEN Item(d, q) ELSE "absent"]
    <3>1. I \in [Requests -> {"absent", "listed", "offered"}]
      BY DEF Item
    <3>2. inbox' = [inbox EXCEPT ![d] = I] /\ rows' = rows
      BY <2>5 DEF LoadInbox
    <3> HIDE DEF I
    <3>3. DetailType' /\ ListsType' /\ Shows
      BY <2>1, <3>1, <3>2 DEF DeskInv, DetailType, ListsType, Shows
    <3> QED BY <2>2, <3>3, PageStep
  <2> QED BY <1>4, <2>4, <2>5
<1> QED BY <1>1, <1>2, <1>3, <1>4 DEF DriverNext

\* Every step keeps the invariant.
LEMMA DeskNext == DeskInv /\ [Next]_vars => DeskInv'
<1> SUFFICES ASSUME DeskInv, [Next]_vars PROVE DeskInv'
  OBVIOUS
<1>1. CASE UNCHANGED vars
  BY <1>1 DEF vars, rideVars, deskVars, DeskInv, DetailType, ListsType, PagesBlind, RideInv, RideTypeOK,
              OffersPriced, BookedIsOneQuote, ReviewsOfTheOver, SuspendsRides, Released
<1>2. CASE \E q \in Requests : TravellerNext(q)
  BY <1>2, TravellerStep
<1>3. CASE \E d \in Drivers : DriverNext(d)
  BY <1>3, DriverStep
<1>4. CASE Behind /\ UNCHANGED deskVars
  BY <1>4, BehindStep, UnseenStep DEF DeskInv
<1> QED BY <1>1, <1>2, <1>3, <1>4 DEF Next

LEMMA DeskInit == Init => DeskInv
<1> SUFFICES ASSUME Init PROVE DeskInv
  OBVIOUS
<1>1. RideInv
  BY RideAssumptions DEF RideAssumptions, Init, RideInit, RideInv, RideTypeOK, OffersPriced,
     BookedIsOneQuote, ReviewsOfTheOver, SuspendsRides, Offers, NoOffer, RideRows, NoRide, Quiet
<1>2. DetailType /\ ListsType /\ PagesBlind
  BY DEF Init, DetailType, ListsType, PagesBlind, NoDetail, NoJson, Jsons
<1> QED BY <1>1, <1>2 DEF DeskInv

LEMMA DeskInvariance == Spec => []DeskInv
BY DeskInit, DeskNext, PTL DEF Spec

-----------------------------------------------------------------------------
\* The variables of Rides and of its pages keep their types.
THEOREM RidesTypeCorrect == Spec => []TypeOK
<1>1. DeskInv => TypeOK
  BY DEF DeskInv, RideInv, DetailType, ListsType, TypeOK
<1> QED BY <1>1, DeskInvariance, PTL

\* A request is booked exactly when it has a ride, of the one quote accepted, at
\* its price (041: traveller_accept_quote).
THEOREM BookingIsOneQuote == Spec => []BookedIsOneQuote
<1>1. DeskInv => BookedIsOneQuote
  BY DEF DeskInv, RideInv
<1> QED BY <1>1, DeskInvariance, PTL

\* Nobody writes a review after any page has shown the other side's (041:
\* ride_review_released).
THEOREM ReviewsBlind == Spec => NoPeeking
<1> DEFINE Unpeeked == \A q \in Requests, side \in Sides :
               side \in wrote'[q] \ wrote[q] => ~Shown(q, side)
<1>1. DeskInv /\ [Next]_vars => [Unpeeked]_vars
  <2> SUFFICES ASSUME DeskInv, [Next]_vars, NEW q \in Requests, NEW side \in Sides,
                      side \in wrote'[q] \ wrote[q], Shown(q, side)
               PROVE  FALSE
    OBVIOUS
  <2>1. Released(q)
    BY DEF Shown, DeskInv, PagesBlind, RideInv, RideTypeOK, RideRows, NoRide
  <2>2. \E x \in Requests, y \in Sides : WriteReview(x, y)
    BY DEF Next, TravellerNext, DriverNext, Behind, vars, rideVars, deskVars, Submit, LoadDetail, PressAccept,
           PressCancelRequest, PressCancelRide, TravellerReviews, LoadInbox, LoadRows, SendQuote,
           QuoteAnswered, PressWithdraw, ActOnRide, DriverReviews, Sides, AskRead, AskWrite, CancelRequest,
           AcceptQuote, QuoteRead, QuoteWrite, WithdrawQuote, CancelRide, FinishRide, SuspendQuotes,
           SuspendReads, SuspendCommits, StandingChanges, SweepRides, Tick
  <2>3. WriteReview(q, side)
    <3>1. PICK x \in Requests, y \in Sides : WriteReview(x, y)
      BY <2>2
    <3>2. wrote' = [wrote EXCEPT ![x] = @ \cup {y}]
      BY <3>1 DEF WriteReview
    <3>3. x = q /\ y = side
      BY <3>2 DEF DeskInv, RideInv, RideTypeOK
    <3> QED BY <3>1, <3>3
  <2>4. /\ now <= ride[q].done + ReviewDays /\ side \notin wrote[q]
        /\ now \in Nat /\ ride[q].done \in Nat /\ ReviewDays \in Nat
    BY <2>3, RideAssumptions DEF RideAssumptions, WriteReview, ReviewWindow, DeskInv, RideInv, RideTypeOK, RideRows, NoRide
  <2> QED BY <2>1, <2>4 DEF Released
<1> QED BY <1>1, DeskInvariance, PTL DEF Spec, NoPeeking
-----------------------------------------------------------------------------
(* The deals of RideDeal. *)

\* What the server does under a page.
RideNext ==
    \/ SweepRides \/ Tick
    \/ \E q \in Requests :
           \/ AskRead(q) \/ AskWrite(q) \/ CancelRequest(q)
           \/ \E d \in Drivers : AcceptQuote(q, d) \/ WithdrawQuote(d, q)
           \/ \E d \in Drivers, p \in Prices : QuoteRead(d, q, p)
           \/ \E side \in Sides : CancelRide(q, side) \/ WriteReview(q, side)
           \/ \E outcome \in {"completed", "no_show"} : FinishRide(q, outcome)
    \/ \E d \in Drivers :
           \/ QuoteWrite(d) \/ StandingChanges(d)
           \/ SuspendQuotes(d) \/ SuspendReads(d) \/ SuspendCommits(d)

LEMMA PagesPress == ASSUME [Next]_vars PROVE RideNext \/ UNCHANGED rideVars
<1>1. ASSUME NEW q \in Requests, TravellerNext(q) PROVE RideNext \/ UNCHANGED rideVars
  <2>1. CASE \E offer \in [driver : Drivers, price : Prices] : PressAccept(q, offer)
    BY <2>1 DEF PressAccept, RideNext
  <2>2. CASE \/ Submit(q) \/ LoadDetail(q)
             \/ PressCancelRequest(q) \/ PressCancelRide(q) \/ TravellerReviews(q)
    BY <2>2 DEF Submit, LoadDetail, PressCancelRequest, PressCancelRide, TravellerReviews, RideNext, Sides
  <2> QED BY <1>1, <2>1, <2>2 DEF TravellerNext
<1>2. ASSUME NEW d \in Drivers, DriverNext(d) PROVE RideNext \/ UNCHANGED rideVars
  BY <1>2 DEF DriverNext, LoadInbox, LoadRows, QuoteAnswered, PressWithdraw, ActOnRide, DriverReviews, SendQuote,
     RideNext, Sides
<1>3. CASE Behind
  BY <1>3, RideAssumptions DEF RideAssumptions, Behind, RideNext
<1> QED BY <1>1, <1>2, <1>3 DEF Next, vars

\* Nobody quotes for a request that is not out yet, or is about to.
FreshUnquoted == \A q \in Requests : status[q] \in {"none", "asked"} =>
    /\ \A d \in Drivers : quote[q][d].st # "offered"
    /\ \A d \in Drivers : writing[d] # NoQuote => writing[d].q # q

\* A step that writes no new offer and puts no request back.
LEMMA FreshKept ==
    ASSUME FreshUnquoted,
           \A q \in Requests : status'[q] \in {"none", "asked"} => status[q] \in {"none", "asked"},
           \A d \in Drivers : writing'[d] = writing[d] \/ writing'[d] = NoQuote,
           \A q \in Requests, d \in Drivers : quote'[q][d].st = "offered" => quote[q][d].st = "offered"
    PROVE  FreshUnquoted'
BY DEF FreshUnquoted

\* Offers end, and the rest of the requests is left alone.
LEMMA FreshCloses ==
    ASSUME RideTypeOK, FreshUnquoted, writing' = writing,
           \A q \in Requests : status'[q] \in {"none", "asked"} => status[q] \in {"none", "asked"},
           \A q \in Requests, d \in Drivers :
               \/ quote'[q][d] = quote[q][d]
               \/ quote'[q][d].st # "offered"
    PROVE  FreshUnquoted'
BY FreshKept

LEMMA FreshStep == ASSUME RideInv, FreshUnquoted, [Next]_vars PROVE FreshUnquoted'
<1>0. RideTypeOK /\ status \in [Requests -> {"none", "asked", "open", "booked", "cancelled", "expired"}]
      /\ quote \in [Requests -> [Drivers -> Offers]]
      /\ writing \in [Drivers -> {NoQuote} \cup [q : Requests, price : Prices]]
  BY DEF RideInv, RideTypeOK
<1>1. CASE UNCHANGED <<status, quote, writing>>
  BY <1>1 DEF FreshUnquoted
<1>2. CASE SweepRides
  <2> DEFINE C(q) == Closes(q, Offered(q), "expired")
  <2>1. /\ quote' = [q \in Requests |-> IF Overdue(q) THEN C(q) ELSE quote[q]]
        /\ status' = [q \in Requests |-> IF Overdue(q) THEN "expired" ELSE status[q]]
        /\ writing' = writing
    BY <1>2 DEF SweepRides
  <2>2. \A q \in Requests, d \in Drivers : C(q)[d] = quote[q][d] \/ C(q)[d].st # "offered"
    BY <1>0, ClosesType
  <2> HIDE DEF C
  <2> QED BY <1>0, <2>1, <2>2, FreshCloses
<1>3. ASSUME NEW q \in Requests, AskRead(q) \/ AskWrite(q) PROVE FreshUnquoted'
  BY <1>0, <1>3 DEF AskRead, AskWrite, FreshUnquoted
<1>4. ASSUME NEW q \in Requests, CancelRequest(q) PROVE FreshUnquoted'
  <2> DEFINE C == Closes(q, Offered(q), "declined")
  <2>1. quote' = [quote EXCEPT ![q] = C] /\ status' = [status EXCEPT ![q] = "cancelled"] /\ writing' = writing
    BY <1>4 DEF CancelRequest
  <2>2. \A d \in Drivers : C[d] = quote[q][d] \/ C[d].st # "offered"
    BY <1>0, ClosesType
  <2> HIDE DEF C
  <2> QED BY <1>0, <2>1, <2>2, FreshCloses
<1>5. ASSUME NEW q \in Requests, NEW d \in Drivers, AcceptQuote(q, d) PROVE FreshUnquoted'
  <2> DEFINE C == AcceptsOne(q, d)
  <2>1. quote' = [quote EXCEPT ![q] = C] /\ status' = [status EXCEPT ![q] = "booked"] /\ writing' = writing
    BY <1>5 DEF AcceptQuote
  <2>2. \A x \in Drivers : C[x] = quote[q][x] \/ C[x].st # "offered"
    <3> DEFINE D == Closes(q, Offered(q) \ {d}, "declined")
    <3>1. D \in [Drivers -> Offers] /\ \A x \in Drivers : D[x] = quote[q][x] \/ D[x].st # "offered"
      BY <1>0, ClosesType
    <3>2. C = [D EXCEPT ![d] = [st |-> "accepted", price |-> quote[q][d].price]]
      BY DEF AcceptsOne
    <3> HIDE DEF D, C
    <3> QED BY <3>1, <3>2
  <2> HIDE DEF C
  <2> QED BY <1>0, <2>1, <2>2, FreshCloses
<1>6. ASSUME NEW q \in Requests, NEW d \in Drivers, WithdrawQuote(d, q) PROVE FreshUnquoted'
  <2> DEFINE C == Closes(q, {d}, "withdrawn")
  <2>1. quote' = [quote EXCEPT ![q] = C] /\ status' = status /\ writing' = writing
    BY <1>6 DEF WithdrawQuote
  <2>2. \A x \in Drivers : C[x] = quote[q][x] \/ C[x].st # "offered"
    BY <1>0, <1>6, ClosesType DEF WithdrawQuote
  <2> HIDE DEF C
  <2> QED BY <1>0, <2>1, <2>2, FreshCloses
<1>7. ASSUME NEW d \in Drivers, SuspendQuotes(d) PROVE FreshUnquoted'
  <2> DEFINE C(q) == Closes(q, {d} \cap Offered(q), "withdrawn")
  <2>1. quote' = [q \in Requests |-> C(q)] /\ status' = status /\ writing' = writing
    BY <1>7 DEF SuspendQuotes
  <2>2. \A q \in Requests, x \in Drivers : C(q)[x] = quote[q][x] \/ C(q)[x].st # "offered"
    BY <1>0, ClosesType
  <2> HIDE DEF C
  <2> QED BY <1>0, <2>1, <2>2, FreshCloses
<1>8. ASSUME NEW q \in Requests, NEW d \in Drivers, NEW p \in Prices, QuoteRead(d, q, p)
      PROVE  FreshUnquoted'
  <2>1. status[q] = "open" /\ UNCHANGED <<status, quote>> /\ writing' = [writing EXCEPT ![d] = [q |-> q, price |-> p]]
    BY <1>8 DEF QuoteRead, Open
  <2> QED BY <1>0, <2>1 DEF FreshUnquoted
<1>9. ASSUME NEW d \in Drivers, QuoteWrite(d) PROVE FreshUnquoted'
  <2>1. writing[d] # NoQuote /\ writing[d] \in [q : Requests, price : Prices]
    BY <1>0, <1>9 DEF QuoteWrite
  <2>2. PICK x \in Requests : x = writing[d].q
    BY <2>1
  <2>3. status[x] \notin {"none", "asked"}
    BY <2>1, <2>2 DEF FreshUnquoted
  <2>4. \A q \in Requests : q # x => quote'[q] = quote[q]
    BY <1>0, <1>9, <2>2 DEF QuoteWrite
  <2>5. UNCHANGED status /\ writing' = [writing EXCEPT ![d] = NoQuote]
    BY <1>9 DEF QuoteWrite
  <2> QED BY <1>0, <2>3, <2>4, <2>5 DEF FreshUnquoted
<1>10. RideNext => \/ UNCHANGED <<status, quote, writing>>
                   \/ SweepRides
                   \/ \E q \in Requests :
                          \/ AskRead(q) \/ AskWrite(q) \/ CancelRequest(q)
                          \/ \E d \in Drivers : AcceptQuote(q, d) \/ WithdrawQuote(d, q)
                          \/ \E d \in Drivers, p \in Prices : QuoteRead(d, q, p)
                   \/ \E d \in Drivers : QuoteWrite(d) \/ SuspendQuotes(d)
  BY DEF RideNext, Tick, CancelRide, WriteReview, FinishRide, StandingChanges, SuspendReads, SuspendCommits
<1> QED BY <1>1, <1>2, <1>3, <1>4, <1>5, <1>6, <1>7, <1>8, <1>9, <1>10, PagesPress DEF rideVars

-----------------------------------------------------------------------------
(* What a step does to a request and its ride. *)
GoesOut(q) == /\ status[q] = "asked" /\ status'[q] = "open" /\ ride'[q] = ride[q]
              /\ \A d \in Drivers : quote'[q][d].st # "offered"
IsOver(q)  == status[q] = "open" /\ status'[q] \in {"cancelled", "expired"}
IsTaken(q) == /\ status[q] = "open" /\ status'[q] = "booked"
              /\ \E d \in Offered(q) : ride'[q] = [state |-> "confirmed", driver |-> d,
                                                   price |-> quote[q][d].price, done |-> 0]
RideEnds(q) == /\ status[q] = "booked" /\ status'[q] = "booked"
               /\ ride'[q].driver = ride[q].driver /\ ride'[q].price = ride[q].price
               /\ ride'[q].state \in Ended
               /\ ride[q].state = "confirmed" \/ ride'[q].state = "cancelled_by_driver"
IsKept(q)  == /\ ride'[q] = ride[q]
              /\ status'[q] = status[q] \/ (status[q] = "none" /\ status'[q] = "asked")
Turns(q) == GoesOut(q) \/ IsOver(q) \/ IsTaken(q) \/ RideEnds(q) \/ IsKept(q)

\* What the mapping makes of a request.
LEMMA DealOf ==
    ASSUME NEW q \in Requests
    PROVE  /\ Phases[q] = PhaseOf(q) /\ Phases'[q] = PhaseOf(q)'
           /\ Bids[q] = IF status[q] = "open" THEN Standing(q) ELSE {}
           /\ Bids'[q] = IF status'[q] = "open" THEN Standing(q)' ELSE {}
           /\ Agreed[q] = IF status[q] = "booked"
                            THEN {[driver |-> ride[q].driver, price |-> ride[q].price]} ELSE {}
           /\ Agreed'[q] = IF status'[q] = "booked"
                            THEN {[driver |-> ride'[q].driver, price |-> ride'[q].price]} ELSE {}
BY DEF Phases, Bids, Agreed

\* Each of these is a move of RideDeal.
LEMMA TurnsMove ==
    ASSUME RideInv, RideInv', NEW q \in Requests, Turns(q)
    PROVE  Deals!Moves(q)
<1>0. /\ status[q] \in {"none", "asked", "open", "booked", "cancelled", "expired"}
      /\ ride[q] \in RideRows
  BY DEF RideInv, RideTypeOK
<1>1. CASE GoesOut(q)
  <2>1. Phases[q] = "new" /\ Phases'[q] = "open"
    BY <1>1, DealOf DEF GoesOut, PhaseOf
  <2>2. Standing(q)' = {}
    BY <1>1 DEF GoesOut, Standing, Offered
  <2>3. Bids'[q] = {} /\ Agreed'[q] = {}
    BY <1>1, <2>2, DealOf DEF GoesOut
  <2> QED BY <2>1, <2>3 DEF Deals!Moves, Deals!Opens
<1>2. CASE IsOver(q)
  BY <1>2, DealOf DEF IsOver, PhaseOf, Deals!Moves, Deals!Closes
<1>3. CASE IsTaken(q)
  <2>1. PICK d \in Offered(q) : ride'[q] = [state |-> "confirmed", driver |-> d,
                                            price |-> quote[q][d].price, done |-> 0]
    BY <1>3 DEF IsTaken
  <2> DEFINE x == [driver |-> d, price |-> quote[q][d].price]
  <2>2. x \in Standing(q)
    BY DEF Standing
  <2>3. [driver |-> ride'[q].driver, price |-> ride'[q].price] = x /\ ride'[q].state = "confirmed"
    BY <2>1
  <2>4. Phases[q] = "open" /\ Phases'[q] = "agreed"
    BY <1>3, <2>3, DealOf DEF IsTaken, PhaseOf
  <2>5. x \in Bids[q] /\ Bids'[q] = {} /\ Agreed'[q] = {x}
    BY <1>3, <2>2, <2>3, DealOf DEF IsTaken
  <2> HIDE DEF x
  <2> QED BY <2>4, <2>5 DEF Deals!Moves, Deals!Agrees
<1>4. CASE RideEnds(q)
  <2>1. Bids'[q] = Bids[q] /\ Agreed'[q] = Agreed[q]
    BY <1>4, DealOf DEF RideEnds
  <2>2. ride[q].state \in {"confirmed"} \cup Ended
    BY <1>0, <1>4 DEF RideEnds, RideInv, BookedIsOneQuote, RideRows, NoRide
  <2>3. \/ <<Phases[q], Phases'[q]>> \in {<<"agreed", "given">>, <<"agreed", "off">>, <<"given", "off">>}
        \/ Phases'[q] = Phases[q]
    BY <1>4, <2>2, DealOf DEF RideEnds, PhaseOf, Ended
  <2> QED BY <2>1, <2>3 DEF Deals!Moves, Deals!Ends, Deals!Stays
<1>5. CASE IsKept(q)
  <2>1. Phases'[q] = Phases[q] /\ Agreed'[q] = Agreed[q]
    BY <1>5, DealOf DEF IsKept, PhaseOf
  <2>2. CASE status[q] = "open"
    <3>1. status'[q] = "open" /\ Phases[q] = "open"
      BY <1>5, <2>2, DealOf DEF IsKept, PhaseOf
    <3>2. (Standing(q) \subseteq [driver : Drivers, price : Prices] /\ Deals!OnePerDriver(Standing(q)))'
      BY DEF RideInv, OffersPriced, Standing, Offered, Deals!OnePerDriver
    <3>3. Bids'[q] = Standing(q)'
      BY <3>1, DealOf
    <3> QED BY <2>1, <3>1, <3>2, <3>3 DEF Deals!Moves, Deals!Bidding, Deals!Offers, Deals!OnePerDriver
  <2>3. CASE status[q] # "open"
    BY <1>5, <2>1, <2>3, DealOf DEF IsKept, Deals!Moves, Deals!Stays
  <2> QED BY <2>2, <2>3
<1> QED BY <1>1, <1>2, <1>3, <1>4, <1>5 DEF Turns

\* Every step does one of them to each request.
LEMMA StepTurns ==
    ASSUME RideInv, FreshUnquoted, [Next]_vars, NEW x \in Requests
    PROVE  Turns(x)
<1>0. /\ status \in [Requests -> {"none", "asked", "open", "booked", "cancelled", "expired"}]
      /\ ride \in [Requests -> RideRows]
      /\ \A q \in Requests : (status[q] = "booked") = (ride[q].state # "none")
  BY DEF RideInv, RideTypeOK, BookedIsOneQuote
<1>1. CASE UNCHANGED <<status, ride>>
  BY <1>1 DEF Turns, IsKept
<1>2. CASE SweepRides
  BY <1>0, <1>2 DEF SweepRides, Overdue, Turns, IsKept, IsOver
<1>3. ASSUME NEW q \in Requests, AskRead(q) \/ AskWrite(q) \/ CancelRequest(q) PROVE Turns(x)
  <2>1. CASE AskRead(q)
    BY <1>0, <2>1 DEF AskRead, Turns, IsKept
  <2>2. CASE AskWrite(q)
    BY <1>0, <2>2 DEF AskWrite, FreshUnquoted, Turns, IsKept, GoesOut
  <2>3. CASE CancelRequest(q)
    BY <1>0, <2>3 DEF CancelRequest, Turns, IsKept, IsOver
  <2> QED BY <1>3, <2>1, <2>2, <2>3
<1>4. ASSUME NEW q \in Requests, NEW d \in Drivers, AcceptQuote(q, d) PROVE Turns(x)
  BY <1>0, <1>4 DEF AcceptQuote, Open, Turns, IsKept, IsTaken
<1>5. ASSUME NEW q \in Requests, NEW side \in Sides, CancelRide(q, side) PROVE Turns(x)
  <2> DEFINE st == IF side = "driver" THEN "cancelled_by_driver" ELSE "cancelled_by_traveller"
  <2>1. /\ ride[q].state = "confirmed" /\ status' = status
        /\ ride' = [ride EXCEPT ![q] = [@ EXCEPT !.state = st]] /\ st \in Ended
    BY <1>5 DEF CancelRide, Ended
  <2>2. ride[q] \in [state : {"confirmed"} \cup Ended, driver : Drivers, price : Prices, done : 0..MaxNow]
    BY <1>0, <2>1 DEF RideRows, NoRide
  <2> HIDE DEF st
  <2> QED BY <1>0, <2>1, <2>2 DEF Turns, IsKept, RideEnds
<1>6. ASSUME NEW q \in Requests, NEW outcome \in {"completed", "no_show"}, FinishRide(q, outcome) PROVE Turns(x)
  <2> DEFINE D == IF outcome = "completed" THEN now ELSE 0
  <2>1. /\ ride[q].state = "confirmed" /\ status' = status
        /\ ride' = [ride EXCEPT ![q] = [@ EXCEPT !.state = outcome, !.done = D]] /\ outcome \in Ended
    BY <1>6 DEF FinishRide, Ended
  <2>2. ride[q] \in [state : {"confirmed"} \cup Ended, driver : Drivers, price : Prices, done : 0..MaxNow]
    BY <1>0, <2>1 DEF RideRows, NoRide
  <2> HIDE DEF D
  <2> QED BY <1>0, <2>1, <2>2 DEF Turns, IsKept, RideEnds
<1>7. ASSUME NEW d \in Drivers, SuspendCommits(d) PROVE Turns(x)
  <2>1. CASE x \in suspension[d].rides
    <3>1. ride[x].state # "none"
      BY <2>1 DEF RideInv, SuspendsRides
    <3>2. ride[x] \in [state : {"confirmed"} \cup Ended, driver : Drivers, price : Prices, done : 0..MaxNow]
      BY <1>0, <3>1 DEF RideRows, NoRide
    <3>3. status' = status /\ ride'[x] = [ride[x] EXCEPT !.state = "cancelled_by_driver"]
      BY <1>7, <2>1 DEF SuspendCommits
    <3> QED BY <1>0, <3>1, <3>2, <3>3 DEF Turns, RideEnds, Ended
  <2>2. CASE x \notin suspension[d].rides
    BY <1>7, <2>2 DEF SuspendCommits, Turns, IsKept
  <2> QED BY <2>1, <2>2
<1>8. RideNext => \/ UNCHANGED <<status, ride>>
                  \/ SweepRides
                  \/ \E q \in Requests :
                         \/ AskRead(q) \/ AskWrite(q) \/ CancelRequest(q)
                         \/ \E d \in Drivers : AcceptQuote(q, d)
                         \/ \E side \in Sides : CancelRide(q, side)
                         \/ \E outcome \in {"completed", "no_show"} : FinishRide(q, outcome)
                  \/ \E d \in Drivers : SuspendCommits(d)
  BY DEF RideNext, Tick, WriteReview, StandingChanges, SuspendReads, SuspendQuotes, QuoteRead, QuoteWrite, WithdrawQuote
<1> QED BY <1>1, <1>2, <1>3, <1>4, <1>5, <1>6, <1>7, <1>8, PagesPress DEF rideVars

\* The rides implement the deals: what was booked is one offer that stood, its
\* driver and price are fixed, and no late acceptance books a request that is over
\* (041: traveller_accept_quote), whatever drivers, suspensions and old pages do.
THEOREM DealsKept == Spec => ImplementsDeals
<1>1. Init => Deals!Init
  BY DEF Init, RideInit, Deals!Init, Phases, Bids, Agreed, PhaseOf
<1>2. Init => FreshUnquoted
  BY DEF Init, RideInit, FreshUnquoted, NoOffer
<1>3. RideInv /\ FreshUnquoted /\ [Next]_vars => FreshUnquoted'
  BY FreshStep
<1>4. RideInv /\ RideInv' /\ FreshUnquoted /\ [Next]_vars => [Deals!Next]_(Deals!vars)
  BY StepTurns, TurnsMove DEF Deals!Next
<1>5. Spec => []RideInv
  <2>1. DeskInv => RideInv
    BY DEF DeskInv
  <2> QED BY <2>1, DeskInvariance, PTL
<1> QED BY <1>1, <1>2, <1>3, <1>4, <1>5, PTL DEF Spec, ImplementsDeals, Deals!Spec
=============================================================================
