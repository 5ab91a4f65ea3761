----------------------------- MODULE MCSimulator -----------------------------
(***************************************************************************)
(* Two requests at a time on one cluster.                                  *)
(***************************************************************************)
EXTENDS Simulator

MCBodies == {<<"add", "remove">>}
=============================================================================
