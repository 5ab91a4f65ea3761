-------------------------- MODULE ClusterLifecycle --------------------------
(***************************************************************************)
(* How clusters come and go: the API's cluster handlers                    *)
(* (api/handlers/clusters.go), the clusters table they write               *)
(* (pkg/database/queries/clusters.go), the orchestrator that keeps one     *)
(* pipeline per monitored cluster (internal/orchestrator/orchestrator.go), *)
(* and the process around them that boots, shuts down and crashes          *)
(* (cmd/autoscaler/main.go).                                               *)
(*                                                                         *)
(* The table survives the process; the orchestrator's map, its mutex, the  *)
(* pipelines and the requests do not.  Handlers run concurrently, and      *)
(* between their steps are calls to the database and the simulator.  Only  *)
(* a row's status matters here: every other column is written together     *)
(* with it.  A cluster's id is a fresh UUID, so no id is created twice.    *)
(***************************************************************************)
EXTENDS FiniteSets

CONSTANTS
    Cluster,    \* the ids NewUUID can draw (the bound on creations)
    Request     \* the requests that can be under way at once (a bound)

VARIABLES
    row,         \* the clusters table: no row, or the status
    created,     \* history: the ids that ever had a row
    proc,        \* how far main has come
    pipelines,   \* Orchestrator.pipelines: the ids in the map
    loop,        \* the pipeline of each id: its running flag and goroutine
    mu,          \* Orchestrator.mu: free, or the request that holds it
    req,         \* the handlers under way
    stopper      \* the goroutines of Orchestrator.Stop, one per pipeline

memory == <<pipelines, loop, mu, req, stopper>>
vars == <<row, created, proc, memory>>

-----------------------------------------------------------------------------

NoRow == "none"
Status == {"active", "paused"}

Free == "free"

ASSUME FreeIsNoRequest == Free \notin Request

Idle == [step |-> "idle", cluster |-> "none", early |-> FALSE]

At(r, step) == req[r].step = step

(* A handler has found its cluster and takes it up, goes on to its next    *)
(* step, or returns its response.  The history field early tells that a    *)
(* deletion took the cluster up before its creation was answered.          *)
BeingCreated(c) == \E q \in Request : At(q, "start") /\ req[q].cluster = c
TakeUp(r, c, step) ==
    req' = [req EXCEPT ![r] = [step |-> step, cluster |-> c,
                              early |-> step = "stop" /\ BeingCreated(c)]]
GoTo(r, step) == req' = [req EXCEPT ![r].step = step]
Respond(r) == req' = [req EXCEPT ![r] = Idle]

Serves == proc # "down"

NoMemory ==
    /\ pipelines' = {}
    /\ loop' = [c \in Cluster |-> "none"]
    /\ mu' = Free
    /\ req' = [r \in Request |-> Idle]
    /\ stopper' = [c \in Cluster |-> "none"]

Init ==
    /\ row = [c \in Cluster |-> NoRow]
    /\ created = {}
    /\ proc = "down"
    /\ pipelines = {}
    /\ loop = [c \in Cluster |-> "none"]
    /\ mu = Free
    /\ req = [r \in Request |-> Idle]
    /\ stopper = [c \in Cluster |-> "none"]

-----------------------------------------------------------------------------
(* The pipelines and the orchestrator's operations on them.                *)

(* StartCluster, under the mutex from its first line to its last.  It does *)
(* not ask whether the orchestrator has been stopped meanwhile.            *)
StartCluster(c) ==
    /\ mu = Free
    /\ c \notin pipelines
    /\ pipelines' = pipelines \cup {c}
    /\ loop' = [loop EXCEPT ![c] = "running"]

(* Pipeline.Stop clears the running flag and cancels the goroutine, ...    *)
CancelLoop(c) ==
    /\ loop[c] = "running"
    /\ loop' = [loop EXCEPT ![c] = "cancelled"]

(* Mutant: Stop takes a pipeline that runs for one that has been stopped. *)
AlreadyStoppedWhileRunning(c) == loop[c] \in {"running", "cancelled", "ended"}

(* ... and returns at once when another caller has done so before.         *)
AlreadyStopped(c) == loop[c] \in {"cancelled", "ended"}

(* The goroutine sees its context and ends (see Autoscaler). *)
LoopEnds(c) ==
    /\ loop[c] = "cancelled"
    /\ loop' = [loop EXCEPT ![c] = "ended"]
    /\ UNCHANGED <<row, created, proc, pipelines, mu, req, stopper>>

-----------------------------------------------------------------------------
(* The operations of ClusterRepository on the table. *)

GetAll == {c \in Cluster : row[c] # NoRow}

GetByID(c) == row[c] # NoRow

InsertRow(c) ==
    /\ row' = [row EXCEPT ![c] = "active"]
    /\ created' = created \cup {c}

(* Mutant: the row is written whether it is there or not. *)
UpdateRowUpserting(c, status) == row' = [row EXCEPT ![c] = status]

(* UPDATE ... WHERE id: no row, no effect. *)
UpdateRow(c, status) ==
    row' = [row EXCEPT ![c] = IF @ = NoRow THEN NoRow ELSE status]

RemoveRow(c) == row' = [row EXCEPT ![c] = NoRow]

-----------------------------------------------------------------------------
(* The handlers.  A request that fails before its first write leaves no    *)
(* trace and is not modelled.                                              *)

(* Create inserts the row, then creates the cluster in the simulator, ...  *)
CreateInsert(r, c) ==
    /\ Serves /\ At(r, "idle")
    /\ c \notin created
    /\ InsertRow(c)
    /\ TakeUp(r, c, "start")
    /\ UNCHANGED <<proc, pipelines, loop, mu, stopper>>

(* ... and then starts its pipeline. *)
CreateStart(r) ==
    /\ At(r, "start")
    /\ StartCluster(req[r].cluster)
    /\ Respond(r)
    /\ UNCHANGED <<row, created, proc, mu, stopper>>

(* Update reads the whole row, ... *)
UpdateRead(r, c) ==
    /\ Serves /\ At(r, "idle")
    /\ GetByID(c)
    /\ TakeUp(r, c, "write")
    /\ UNCHANGED <<row, created, proc, pipelines, loop, mu, stopper>>

(* ... and writes it back with the fields of the request replaced, so with *)
(* the status it read or the one it was sent, unless the database fails.   *)
(* Nobody tells the pipeline.                                              *)
UpdateWrite(r) ==
    /\ At(r, "write")
    /\ \/ \E status \in Status : UpdateRow(req[r].cluster, status)
       \/ UNCHANGED row
    /\ Respond(r)
    /\ UNCHANGED <<created, proc, pipelines, loop, mu, stopper>>

(* Delete checks that the row exists, ... *)
DeleteRead(r, c) ==
    /\ Serves /\ At(r, "idle")
    /\ GetByID(c)
    /\ TakeUp(r, c, "stop")
    /\ UNCHANGED <<row, created, proc, pipelines, loop, mu, stopper>>

(* ... calls StopCluster, whose error it ignores when there is no pipeline, *)
StopMissing(r) ==
    /\ At(r, "stop") /\ mu = Free
    /\ req[r].cluster \notin pipelines
    /\ GoTo(r, "row")
    /\ UNCHANGED <<row, created, proc, pipelines, loop, mu, stopper>>

(* which keeps the orchestrator's mutex while the pipeline's goroutine     *)
(* winds down, ...                                                         *)
StopRunning(r) ==
    /\ At(r, "stop") /\ mu = Free
    /\ req[r].cluster \in pipelines
    /\ CancelLoop(req[r].cluster)
    /\ mu' = r
    /\ GoTo(r, "wait")
    /\ UNCHANGED <<row, created, proc, pipelines, stopper>>

(* Mutant: the mutex is not released. *)
StopReturnsLocked(r) ==
    /\ At(r, "wait")
    /\ loop[req[r].cluster] = "ended"
    /\ pipelines' = pipelines \ {req[r].cluster}
    /\ GoTo(r, "row")
    /\ UNCHANGED <<row, created, proc, loop, mu, stopper>>

(* Mutant: Stop cancels the goroutine and does not wait for it. *)
StopReturnsAtOnce(r) ==
    /\ At(r, "wait")
    /\ pipelines' = pipelines \ {req[r].cluster}
    /\ mu' = Free
    /\ GoTo(r, "row")
    /\ UNCHANGED <<row, created, proc, loop, stopper>>

StopReturns(r) ==
    /\ At(r, "wait")
    /\ loop[req[r].cluster] = "ended"
    /\ pipelines' = pipelines \ {req[r].cluster}
    /\ mu' = Free
    /\ GoTo(r, "row")
    /\ UNCHANGED <<row, created, proc, loop, stopper>>

(* (or does not wait, when Orchestrator.Stop came first) ...               *)
StopStopped(r) ==
    /\ At(r, "stop") /\ mu = Free
    /\ req[r].cluster \in pipelines /\ AlreadyStopped(req[r].cluster)
    /\ pipelines' = pipelines \ {req[r].cluster}
    /\ GoTo(r, "row")
    /\ UNCHANGED <<row, created, proc, loop, mu, stopper>>

(* ... and deletes the cluster in the simulator and its row, unless the    *)
(* database fails: the pipeline is not started again then.                 *)
DeleteRow(r) ==
    /\ At(r, "row")
    /\ RemoveRow(req[r].cluster) \/ UNCHANGED row
    /\ Respond(r)
    /\ UNCHANGED <<created, proc, pipelines, loop, mu, stopper>>

-----------------------------------------------------------------------------
(* The process.                                                            *)

(* Mutant: clusters that are paused are started like the others. *)
BootAll ==
    /\ proc = "down"
    /\ proc' = "serving"
    /\ \E monitored \in {{}, GetAll} :
          /\ pipelines' = monitored
          /\ loop' = [c \in Cluster |-> IF c \in monitored THEN "running" ELSE "none"]
    /\ UNCHANGED <<row, created, mu, req, stopper>>

(* main starts a pipeline for every active row, or for none when it cannot *)
(* read the table, and then serves.                                        *)
Boot ==
    /\ proc = "down"
    /\ proc' = "serving"
    /\ \E found \in {{}, GetAll} :
          LET monitored == {c \in found : row[c] = "active"}
          IN  /\ pipelines' = monitored
              /\ loop' = [c \in Cluster |-> IF c \in monitored THEN "running" ELSE "none"]
    /\ UNCHANGED <<row, created, mu, req, stopper>>

Signal ==
    /\ proc = "serving"
    /\ proc' = "signalled"
    /\ UNCHANGED <<row, created, memory>>

(* Orchestrator.Stop takes the mutex and starts a goroutine for every      *)
(* pipeline in the map.                                                    *)
OrchestratorStop ==
    /\ proc = "signalled" /\ mu = Free
    /\ proc' = "stopping"
    /\ stopper' = [c \in Cluster |-> IF c \in pipelines THEN "called" ELSE "none"]
    /\ UNCHANGED <<row, created, pipelines, loop, mu, req>>

StopperCancels(c) ==
    /\ stopper[c] = "called"
    /\ CancelLoop(c)
    /\ stopper' = [stopper EXCEPT ![c] = "waiting"]
    /\ UNCHANGED <<row, created, proc, pipelines, mu, req>>

(* Its Pipeline.Stop returns: after waiting for the goroutine, or at once  *)
(* when StopCluster came first.                                            *)
StopperReturns(c) ==
    /\ \/ stopper[c] = "waiting" /\ loop[c] = "ended"
       \/ stopper[c] = "called" /\ AlreadyStopped(c)
    /\ stopper' = [stopper EXCEPT ![c] = "none"]
    /\ UNCHANGED <<row, created, proc, pipelines, loop, mu, req>>

(* Orchestrator.Stop goes on when all have returned or at its timeout,     *)
(* whichever is first, and closes the event bus.                           *)
OrchestratorStopped ==
    /\ proc = "stopping"
    /\ proc' = "closed"
    /\ UNCHANGED <<row, created, pipelines, loop, mu, req, stopper>>

(* Only now does the server stop to accept requests.  The process ends     *)
(* when those under way have been answered, or at the same timeout.        *)
ServerShutdown ==
    /\ proc = "closed"
    /\ proc' = "down"
    /\ NoMemory
    /\ UNCHANGED <<row, created>>

(* The process dies, or leaves because its server failed. *)
Crash ==
    /\ proc # "down"
    /\ proc' = "down"
    /\ NoMemory
    /\ UNCHANGED <<row, created>>

RequestStep(r) ==
    \/ CreateStart(r)
    \/ UpdateWrite(r)
    \/ StopMissing(r)
    \/ StopRunning(r)
    \/ StopReturns(r)
    \/ StopStopped(r)
    \/ DeleteRow(r)

StopperStep(c) == StopperCancels(c) \/ StopperReturns(c)

ShutdownStep == OrchestratorStop \/ OrchestratorStopped \/ ServerShutdown

Next ==
    \/ \E r \in Request, c \in Cluster : CreateInsert(r, c) \/ UpdateRead(r, c) \/ DeleteRead(r, c)
    \/ \E r \in Request : RequestStep(r)
    \/ \E c \in Cluster : LoopEnds(c) \/ StopperStep(c)
    \/ Boot \/ Signal \/ Crash
    \/ ShutdownStep

(* Handlers, goroutines and the shutdown go on.  The mutex needs no more   *)
(* than that: in the life of one process each pipeline is stopped once.    *)
Fairness ==
    /\ \A r \in Request : WF_vars(RequestStep(r))
    /\ \A c \in Cluster : WF_vars(LoopEnds(c)) /\ WF_vars(StopperStep(c))
    /\ WF_vars(ShutdownStep)

Spec == Init /\ [][Next]_vars

FairSpec == Spec /\ Fairness

-----------------------------------------------------------------------------
(* Properties. *)

TypeOK ==
    /\ row \in [Cluster -> Status \cup {NoRow}]
    /\ created \subseteq Cluster
    /\ proc \in {"down", "serving", "signalled", "stopping", "closed"}
    /\ pipelines \subseteq Cluster
    /\ loop \in [Cluster -> {"none", "running", "cancelled", "ended"}]
    /\ mu \in Request \cup {Free}
    /\ req \in [Request -> [step : {"idle", "start", "write", "stop", "wait", "row"},
                            cluster : Cluster \cup {"none"}, early : BOOLEAN]]
    /\ stopper \in [Cluster -> {"none", "called", "waiting"}]

(* No pipeline is lost: as long as a loop runs it is in the orchestrator's *)
(* map, where StopCluster and Stop can find it, however creations,         *)
(* deletions and the shutdown overlap.                                     *)
NoLostLoop == \A c \in Cluster : loop[c] = "running" => c \in pipelines

(* Deleting a cluster ends its monitoring: when Delete comes to remove the *)
(* row of a cluster whose creation had been answered, its goroutine has    *)
(* ended and is not even in a last cycle, whoever else stops or starts     *)
(* pipelines meanwhile; only where a shutdown has cancelled it first does  *)
(* the deletion go on without having waited, and then the shutdown's own   *)
(* goroutine still does.                                                   *)
HasEnded(c) == loop[c] \in {"none", "ended"}

ShutdownWaitsFor(c) ==
    proc \in {"stopping", "closed"} /\ stopper[c] = "waiting" /\ loop[c] = "cancelled"

DeletionStopsLoop ==
    \A r \in Request : At(r, "row") /\ ~req[r].early =>
        HasEnded(req[r].cluster) \/ ShutdownWaitsFor(req[r].cluster)

(* A cluster that has been deleted stays deleted: an update that read the  *)
(* row before the deletion and writes it afterwards does not bring it      *)
(* back.                                                                   *)
DeletedStaysDeleted ==
    [][\A c \in created : row[c] = NoRow => row'[c] = NoRow]_vars

(* A request can take its next step. *)
CanGoOn(r) ==
    \/ At(r, "write") \/ At(r, "row")
    \/ At(r, "start") /\ mu = Free /\ req[r].cluster \notin pipelines
    \/ At(r, "stop") /\ mu = Free /\ (req[r].cluster \in pipelines => loop[req[r].cluster] # "none")
    \/ At(r, "wait") /\ loop[req[r].cluster] = "ended"

(* Nobody waits for ever on the orchestrator's mutex: what holds it is a   *)
(* deletion whose pipeline has been told to end and needs no mutex for     *)
(* that, and when it is free every request can go on.  So StartCluster     *)
(* never finds a pipeline of its cluster, and StopCluster none that has    *)
(* not been started.                                                       *)
NobodyStuck ==
    /\ mu # Free => At(mu, "wait") /\ loop[req[mu].cluster] \in {"cancelled", "ended"}
    /\ mu = Free => \A r \in Request : ~At(r, "idle") => CanGoOn(r)

(* In the life of one process a pipeline is started once and stopped once: *)
(* what has been told to end is never started again.  (The mutex is thus   *)
(* taken at most once for each pipeline, and a request that waits for it   *)
(* needs no strong fairness.)                                              *)
StoppedOnce ==
    [][\A c \in Cluster : proc' # "down" /\ AlreadyStopped(c) => AlreadyStopped(c)']_vars

(* Every request is answered or dies with its process, although a deletion *)
(* keeps the orchestrator's mutex while it waits for a pipeline.           *)
RequestsComplete == \A r \in Request : ~At(r, "idle") ~> At(r, "idle")

(* A signalled process ends. *)
ShutdownCompletes == proc = "signalled" ~> proc = "down"
=============================================================================
