------------------------------- MODULE RideDeal -------------------------------
(* What booking a driver promises, abstractly: docs/local-services.md, "Drivers
   (V3)": travellers send one request, drivers send fixed prices, the traveller
   books one.  A request is open once; what is agreed is an offer that stands at
   that moment, and its driver and price are fixed for good.  Nothing is said of
   pages, clocks, documents or reviews. *)
CONSTANTS Requests, Drivers, Prices

VARIABLES
    phase,      \* of a request
    bids,       \* the offers that stand for it
    deal        \* the offers that were agreed for it: none, or one

vars == <<phase, bids, deal>>

Offers == [driver : Drivers, price : Prices]
OnePerDriver(B) == \A x, y \in B : x.driver = y.driver => x = y

\* The moves of a request q; several requests may move in one step.
Opens(q) ==
    /\ phase[q] = "new" /\ phase'[q] = "open"
    /\ bids'[q] = {} /\ deal'[q] = {}

\* Drivers offer, offer anew and take back.
Bidding(q) ==
    /\ phase[q] = "open" /\ phase'[q] = "open"
    /\ bids'[q] \subseteq Offers /\ OnePerDriver(bids'[q])
    /\ deal'[q] = deal[q]

Agrees(q) ==
    /\ phase[q] = "open" /\ phase'[q] = "agreed"
    /\ \E x \in bids[q] : deal'[q] = {x}
    /\ bids'[q] = {}

Closes(q) ==
    /\ phase[q] = "open" /\ phase'[q] = "closed"
    /\ bids'[q] = {} /\ deal'[q] = {}

\* The ride is given or called off.  A suspension may call off one that was given
\* since it looked (041:878); nothing that was called off is given.
Ends(q) ==
    /\ <<phase[q], phase'[q]>> \in {<<"agreed", "given">>, <<"agreed", "off">>, <<"given", "off">>}
    /\ bids'[q] = bids[q] /\ deal'[q] = deal[q]

Stays(q) == phase'[q] = phase[q] /\ bids'[q] = bids[q] /\ deal'[q] = deal[q]

Moves(q) == Opens(q) \/ Bidding(q) \/ Agrees(q) \/ Closes(q) \/ Ends(q) \/ Stays(q)

Init ==
    /\ phase = [q \in Requests |-> "new"]
    /\ bids = [q \in Requests |-> {}]
    /\ deal = [q \in Requests |-> {}]

Next == \A q \in Requests : Moves(q)

Spec == Init /\ [][Next]_vars
=============================================================================
