--------------------------- MODULE MCNotifications ---------------------------
(* Small instances of Notifications. *)
EXTENDS Notifications, TLC

CONSTANTS m, n, x, w1, w2

\* Workers are compared and nothing else.
MCSymmetry == Permutations(Workers)
=============================================================================
