-------------------------- MODULE MCCircuitBreaker --------------------------
(***************************************************************************)
(* The breaker with overlapping callers.                                   *)
(***************************************************************************)
EXTENDS CircuitBreaker
=============================================================================
