----------------------------- MODULE MCBookings -----------------------------
(* Small instances of Bookings: one slot under contention. *)
EXTENDS Bookings, TLC

CONSTANTS a, b, c, r1, r2, s1, Seats

MCPartyOf   == [k \in Keys |-> IF k = c THEN 2 ELSE 1]
MCSlotOf    == [k \in Keys |-> s1]
MCCapacity  == [s \in Slots |-> Seats]
MCStartsAt  == [s \in Slots |-> 2]
MCEndsAt    == [s \in Slots |-> 3]
MCFreshUntil == [s \in Slots |-> 0]
=============================================================================
