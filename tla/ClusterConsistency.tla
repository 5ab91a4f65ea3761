------------------------- MODULE ClusterConsistency -------------------------
(***************************************************************************)
(* How far the clusters table and the orchestrator agree.  The code keeps  *)
(* them together by order alone: no transaction covers a row and its       *)
(* pipeline, and nothing compares the two while the process runs.  Two     *)
(* history variables remember what has driven them apart, so that the      *)
(* properties can say that nothing else does.                              *)
(***************************************************************************)
EXTENDS ClusterLifecycle

VARIABLES
    apart,      \* history: the clusters whose row and pipeline may differ
    late        \* history: the pipelines started after Orchestrator.Stop

consistencyVars == <<vars, apart, late>>

-----------------------------------------------------------------------------
(* The causes, as what a step of the code does to cluster c.               *)

(* A request leaves this place of its handler. *)
Leaves(r, c, step) == req[r].cluster = c /\ At(r, step) /\ req'[r].step # step

(* main could not read the table and went on without. *)
BootMissed(c) == row[c] = "active" /\ c \notin pipelines'

(* Update wrote another status than the row had. *)
StatusChanged(c) == row[c] \in Status /\ row'[c] \in Status \ {row[c]}

(* Delete found no pipeline to stop since the creation had not started it. *)
Overtaken(c) ==
    \E r \in Request : Leaves(r, c, "stop") /\ c \notin pipelines /\ BeingCreated(c)

(* Delete stopped the pipeline and then could not delete the row. *)
Undeleted(c) == \E r \in Request : Leaves(r, c, "row") /\ row'[c] # NoRow

DrivenApart(c) == StatusChanged(c) \/ Overtaken(c) \/ Undeleted(c)

(* A shutdown ends the agreement; a boot starts it anew. *)
Record ==
    /\ apart' = {c \in Cluster :
          \/ proc = "down" /\ proc' = "serving" /\ BootMissed(c)
          \/ proc' \in {"serving", "signalled"} /\ (c \in apart \/ DrivenApart(c))}
    /\ late' = IF proc \in {"stopping", "closed"} /\ proc' # "down"
               THEN late \cup (pipelines' \ pipelines)
               ELSE {}

ConsistencyInit == Init /\ apart = {} /\ late = {}

ConsistencyNext == Next /\ Record

ConsistencySpec == ConsistencyInit /\ [][ConsistencyNext]_consistencyVars /\ Fairness

-----------------------------------------------------------------------------
(* Properties. *)

InHand(c) == \E r \in Request : ~At(r, "idle") /\ req[r].cluster = c

(* Crashes, restarts and overlapping handlers leave no cluster without its *)
(* pipeline and no pipeline without its cluster: as long as the process    *)
(* serves and no request has the cluster in hand, its loop runs, and can   *)
(* be stopped, exactly if its row is active - but for the four causes that *)
(* the code accepts: a boot that could not read the table, a status        *)
(* written by Update, a deletion that overtakes the creation, and a        *)
(* deletion whose last step fails.                                         *)
MonitoredIffActive ==
    proc \in {"serving", "signalled"} =>
        \A c \in Cluster : ~InHand(c) /\ c \notin apart =>
            /\ row[c] = "active" <=> c \in pipelines
            /\ c \in pipelines <=> loop[c] = "running"

(* Orchestrator.Stop stops what there was to stop: when the goroutines it  *)
(* started have returned, only pipelines started after it still run.  (The *)
(* API serves until then, and StartCluster does not ask whether the        *)
(* orchestrator has been stopped.)                                         *)
OnlyLateStartsSurviveStop ==
    proc = "closed" /\ (\A c \in Cluster : stopper[c] = "none")
        => \A c \in Cluster : loop[c] = "running" => c \in late
=============================================================================
