------------------------- MODULE MCClusterLifecycle -------------------------
(***************************************************************************)
(* Two requests at a time over a few clusters, with crashes and restarts.  *)
(***************************************************************************)
EXTENDS ClusterConsistency
=============================================================================
