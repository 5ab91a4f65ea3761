------------------------ MODULE MCResilientCollector ------------------------
(***************************************************************************)
(* One pipeline's collector with retries and deadlines of a few ticks.     *)
(***************************************************************************)
EXTENDS ResilientCollector
=============================================================================
