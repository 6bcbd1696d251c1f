----------------------------- MODULE MCCalendar ------------------------------
(* Small instances of GuideCalendar: two tours of one guide. *)
EXTENDS GuideCalendar, TLC

CONSTANTS a1, a2, a3, b1, p1, b, c, d, t1, t2

MCTourOf   == [s \in Slots |-> IF s = b1 THEN "valley" ELSE "souk"]
MCDayOf    == [s \in Slots |-> IF s = a1 THEN 1 ELSE IF s = a3 THEN 3 ELSE 2]
MCClashes  == {<<a1, b1>>, <<b1, a1>>} \cap (Slots \X Slots)
MCCovers   == [p \in Blocks |-> {a1, b1} \cap Slots]
MCInside   == [p \in Blocks |-> {a1} \cap Slots]
MCCapacity == [s \in Slots |-> IF s = b1 THEN 1 ELSE 2]
MCPartyOf  == [t \in Travellers |-> 1]
MCMinGroup == [s \in Slots |-> IF s = a2 /\ Scheduled # {} THEN 2 ELSE 1]
MCDeadline == [s \in Slots |-> 1]
MCStartsAt == [s \in Slots |-> IF s \in {a2, a3} THEN 3 ELSE 2]
\* All parties are of one and all travellers book the same way.
MCSymmetry == Permutations(Bookings) \cup Permutations(Travellers)
=============================================================================
