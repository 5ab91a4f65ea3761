-------------------------- MODULE MCDecisionEngine --------------------------
(***************************************************************************)
(* The decision engine on small inputs: CPU levels on both sides of every  *)
(* threshold, clusters from empty to above the maximum, among them one of  *)
(* 20 servers, where an ordinary step at 94 % is larger than an emergency  *)
(* step; every trend and streak.                                           *)
(***************************************************************************)
EXTENDS DecisionEngine

MCCPULevels == {0, 29, 30, 75, 80, 94, 95}
MCServerCounts == {0, 1, 2, 3, 12, 20, 23, 25, 26, 27}
=============================================================================
