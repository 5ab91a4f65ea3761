--------------------------- MODULE MCRateLimiter ---------------------------
(***************************************************************************)
(* Two clients, with limits small enough to be reached in every window.    *)
(***************************************************************************)
EXTENDS RateLimiter
=============================================================================
