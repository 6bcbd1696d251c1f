------------------------------- MODULE MCRides -------------------------------
(* Small instances of RideDesk: one request of a traveller and two drivers. *)
EXTENDS RideDesk, TLC

CONSTANTS q1, q2, d1, d2

MCExpiresAt == [q \in Requests |-> 1]
MCStartsAt  == [q \in Requests |-> 2]
=============================================================================
