----------------------------- MODULE MCAnalyzer -----------------------------
(***************************************************************************)
(* The analyzer with three levels of load, a history that just covers the  *)
(* trend's window and the minute, and a source whose clock is right, one   *)
(* interval behind or one ahead.                                           *)
(***************************************************************************)
EXTENDS Analyzer

MCCPULevels == {0, 50, 90}
MCSourceLag == -1..1
=============================================================================
