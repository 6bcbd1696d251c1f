----------------------------- MODULE GuideAgenda -----------------------------
(* What a guide's calendar promises, abstractly: docs/guide-experience-plan.md
   section 8.2, "One guide, one place", and the daily limit.  The agenda is the
   set of starts somebody holds; nothing is said of bookings, seats or locks. *)
EXTENDS Naturals, FiniteSets

CONSTANTS
    Slots,          \* the starts on offer
    Clashes,        \* the pairs of starts too close for one guide
    DayOf,          \* Slots -> days
    DailyCap        \* starts a guide gives in a day

VARIABLE taken      \* the starts with a live booking

OnePlace == \A s, t \in taken : <<s, t>> \notin Clashes
SameDay(s, S) == {t \in S : DayOf[t] = DayOf[s]}

Free(S) == /\ S \subseteq taken
           /\ taken' = taken \ S

\* A new start enters after others may have been freed: that is a move.
Take(s, S) ==
    /\ s \notin taken /\ S \subseteq taken
    /\ \A t \in taken \ S : <<s, t>> \notin Clashes
    /\ Cardinality(SameDay(s, taken \ S)) < DailyCap
    /\ taken' = (taken \ S) \cup {s}

Init == taken = {}
Next == \E S \in SUBSET taken : Free(S) \/ \E s \in Slots : Take(s, S)
Spec == Init /\ [][Next]_taken
=============================================================================
