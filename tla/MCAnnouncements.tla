--------------------------- MODULE MCAnnouncements ---------------------------
(* Small instances of Announcements, with the constants of MCBookings. *)
EXTENDS MCBookings, Announcements

\* a and b have one slot, one party size and no draft, and are compared only; so
\* are the requests in flight.
MCSymmetry == Permutations({a, b}) \cup Permutations(Requests)
=============================================================================
