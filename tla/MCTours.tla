------------------------------- MODULE MCTours -------------------------------
(* Small instances of TourDesk, with the constants of MCCalendar. *)
EXTENDS MCCalendar, TourDesk
=============================================================================
