--------------------------- MODULE MCEventDelivery ---------------------------
(***************************************************************************)
(* One cluster with two publishers, its pipeline and an alert of its       *)
(* breaker, one event each: published one after the other or overlapping.  *)
(* One connection: a subscription is then to the cluster or to none.  The  *)
(* channels have room for one, so that a second event finds them full.     *)
(***************************************************************************)
EXTENDS EventDelivery
=============================================================================
