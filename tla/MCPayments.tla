----------------------------- MODULE MCPayments -----------------------------
(* Small instances of Payments: one slot, one or two bookings, two payment keys. *)
EXTENDS Payments, TLC

CONSTANTS a, b, r1, s1, p1, p2, Start

MCPartyOf    == [k \in Keys |-> 1]
MCSlotOf     == [k \in Keys |-> s1]
MCCapacity   == [s \in Slots |-> Cardinality(Keys)]
MCStartsAt   == [s \in Slots |-> Start]
MCEndsAt     == [s \in Slots |-> Start + 1]
MCFreshUntil == [s \in Slots |-> 0]
MCWindows    == {[before |-> 2, refund |-> 2], [before |-> 1, refund |-> 1]}

\* Payment keys are compared and nothing else.
MCSymmetry   == Permutations(PayKeys)
=============================================================================
