------------------------------- MODULE MCPlan --------------------------------
(* Small instances of PlanFlow: two places, one of which spoils a day. *)
EXTENDS PlanFlow, TLC

CONSTANTS x, y, s1, t1, q1, q2, q3, q4

MCBlocked  == {<<<<x, y>>, 1>>, <<<<y, x>>, 1>>}
MCSymmetry == Permutations(Requests) \cup Permutations(Places)
=============================================================================
