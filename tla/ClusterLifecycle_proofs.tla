---------------------- MODULE ClusterLifecycle_proofs ----------------------
(***************************************************************************)
(* Proofs about the cluster lifecycle, for any number of clusters and of   *)
(* concurrent requests, with crashes and restarts.                         *)
(***************************************************************************)
EXTENDS ClusterConsistency, TLAPS

(* A process that is not there has no memory. *)
DownMeansEmpty ==
    proc = "down" =>
        /\ pipelines = {}
        /\ loop = [c \in Cluster |-> "none"]
        /\ req = [r \in Request |-> Idle]

(* Rows and requests concern clusters that were created. *)
OnlyCreated ==
    /\ \A c \in Cluster : row[c] # NoRow => c \in created
    /\ \A r \in Request : ~At(r, "idle") => req[r].cluster \in created

(* A deletion that came after the answer to the creation finds no creation *)
(* of its cluster under way any more.                                      *)
NotOvertaken ==
    \A r, q \in Request :
        req[r].step \in {"stop", "wait", "row"} /\ ~req[r].early /\ At(q, "start")
            => req[q].cluster # req[r].cluster

(* The weaker half of DeletionStopsLoop. *)
DeletionCancelsLoop ==
    \A r \in Request : At(r, "row") /\ ~req[r].early => loop[req[r].cluster] # "running"

IInv ==
    /\ TypeOK
    /\ DownMeansEmpty
    /\ OnlyCreated
    /\ NotOvertaken
    /\ NoLostLoop
    /\ DeletionCancelsLoop

-----------------------------------------------------------------------------

LEMMA InitIInv == Init => IInv
  BY DEF Init, IInv, TypeOK, DownMeansEmpty, OnlyCreated, NotOvertaken, NoLostLoop,
         DeletionCancelsLoop, At, Idle, NoRow, Free

(* A request that begins or that goes from one step to another. *)
LEMMA CreateInsertKeepsInv ==
  ASSUME IInv, NEW r \in Request, NEW c \in Cluster, CreateInsert(r, c)
  PROVE  IInv'
  <1> USE DEF IInv, CreateInsert, InsertRow, TakeUp, At, Serves
  <1>1. TypeOK'
    BY DEF TypeOK, BeingCreated, NoRow, Status
  <1>2. DownMeansEmpty'
    BY DEF DownMeansEmpty
  <1>3. OnlyCreated'
    BY DEF TypeOK, OnlyCreated
  <1>4. NotOvertaken'
    BY DEF TypeOK, NotOvertaken, OnlyCreated
  <1>5. NoLostLoop'
    BY DEF NoLostLoop
  <1>6. DeletionCancelsLoop'
    BY DEF TypeOK, DeletionCancelsLoop
  <1> QED BY <1>1, <1>2, <1>3, <1>4, <1>5, <1>6

LEMMA UpdateReadKeepsInv ==
  ASSUME IInv, NEW r \in Request, NEW c \in Cluster, UpdateRead(r, c)
  PROVE  IInv'
  <1> USE DEF IInv, UpdateRead, GetByID, TakeUp, At, Serves
  <1>1. TypeOK'
    BY DEF TypeOK, BeingCreated
  <1>2. DownMeansEmpty'
    BY DEF DownMeansEmpty
  <1>3. OnlyCreated'
    BY DEF TypeOK, OnlyCreated
  <1>4. NotOvertaken'
    BY DEF TypeOK, NotOvertaken
  <1>5. NoLostLoop'
    BY DEF NoLostLoop
  <1>6. DeletionCancelsLoop'
    BY DEF TypeOK, DeletionCancelsLoop
  <1> QED BY <1>1, <1>2, <1>3, <1>4, <1>5, <1>6

LEMMA DeleteReadKeepsInv ==
  ASSUME IInv, NEW r \in Request, NEW c \in Cluster, DeleteRead(r, c)
  PROVE  IInv'
  <1> USE DEF IInv, DeleteRead, GetByID, TakeUp, At, Serves
  <1>1. TypeOK'
    BY DEF TypeOK, BeingCreated
  <1>2. DownMeansEmpty'
    BY DEF DownMeansEmpty
  <1>3. OnlyCreated'
    BY DEF TypeOK, OnlyCreated
  <1>4. NotOvertaken'
    BY DEF TypeOK, NotOvertaken, BeingCreated
  <1>5. NoLostLoop'
    BY DEF NoLostLoop
  <1>6. DeletionCancelsLoop'
    BY DEF TypeOK, DeletionCancelsLoop
  <1> QED BY <1>1, <1>2, <1>3, <1>4, <1>5, <1>6

(* A creation starts its pipeline. *)
LEMMA CreateStartKeepsInv ==
  ASSUME IInv, NEW r \in Request, CreateStart(r)
  PROVE  IInv'
  <1> USE DEF IInv, CreateStart, StartCluster, Respond, At, Idle
  <1>0. proc # "down"
    BY DEF DownMeansEmpty
  <1>1. TypeOK'
    <2>1. req[r].cluster \in Cluster
      BY DEF OnlyCreated, TypeOK
    <2> QED BY <2>1 DEF TypeOK, NoRow
  <1>2. DownMeansEmpty'
    BY <1>0 DEF DownMeansEmpty
  <1>3. OnlyCreated'
    BY DEF TypeOK, OnlyCreated
  <1>4. NotOvertaken'
    BY DEF TypeOK, NotOvertaken
  <1>5. NoLostLoop'
    BY DEF TypeOK, NoLostLoop
  <1>6. DeletionCancelsLoop'
    BY DEF TypeOK, DeletionCancelsLoop, NotOvertaken
  <1> QED BY <1>1, <1>2, <1>3, <1>4, <1>5, <1>6

(* A row is written or removed. *)
LEMMA UpdateWriteKeepsInv ==
  ASSUME IInv, NEW r \in Request, UpdateWrite(r)
  PROVE  IInv'
  <1> USE DEF IInv, UpdateWrite, UpdateRow, Respond, At, Idle
  <1>0. proc # "down"
    BY DEF DownMeansEmpty
  <1>1. TypeOK'
    BY DEF TypeOK, NoRow, Status
  <1>2. DownMeansEmpty'
    BY <1>0 DEF DownMeansEmpty
  <1>3. OnlyCreated'
    BY DEF TypeOK, OnlyCreated, NoRow
  <1>4. NotOvertaken'
    BY DEF TypeOK, NotOvertaken
  <1>5. NoLostLoop'
    BY DEF NoLostLoop
  <1>6. DeletionCancelsLoop'
    BY DEF TypeOK, DeletionCancelsLoop
  <1> QED BY <1>1, <1>2, <1>3, <1>4, <1>5, <1>6

LEMMA DeleteRowKeepsInv ==
  ASSUME IInv, NEW r \in Request, DeleteRow(r)
  PROVE  IInv'
  <1> USE DEF IInv, DeleteRow, RemoveRow, Respond, At, Idle
  <1>0. proc # "down"
    BY DEF DownMeansEmpty
  <1>1. TypeOK'
    BY DEF TypeOK, NoRow
  <1>2. DownMeansEmpty'
    BY <1>0 DEF DownMeansEmpty
  <1>3. OnlyCreated'
    BY DEF TypeOK, OnlyCreated, NoRow
  <1>4. NotOvertaken'
    BY DEF TypeOK, NotOvertaken
  <1>5. NoLostLoop'
    BY DEF NoLostLoop
  <1>6. DeletionCancelsLoop'
    BY DEF TypeOK, DeletionCancelsLoop
  <1> QED BY <1>1, <1>2, <1>3, <1>4, <1>5, <1>6

(* StopCluster, on each of its ways. *)
LEMMA StopClusterKeepsInv ==
  ASSUME IInv, NEW r \in Request,
         StopMissing(r) \/ StopRunning(r) \/ StopReturns(r) \/ StopStopped(r)
  PROVE  IInv'
  <1> USE DEF IInv, At, GoTo
  <1>0. proc # "down"
    BY DEF DownMeansEmpty, Idle, StopMissing, StopRunning, StopReturns, StopStopped
  <1>a. req[r].cluster \in Cluster
    BY DEF OnlyCreated, TypeOK, StopMissing, StopRunning, StopReturns, StopStopped
  <1>b. DownMeansEmpty'
    BY <1>0 DEF DownMeansEmpty, StopMissing, StopRunning, StopReturns, StopStopped
  <1>1. CASE StopMissing(r)
    <2> USE <1>1, <1>a DEF StopMissing
    <2>1. TypeOK'
      BY DEF TypeOK
    <2>2. OnlyCreated' /\ NotOvertaken'
      BY DEF TypeOK, OnlyCreated, NotOvertaken
    <2>3. NoLostLoop' /\ DeletionCancelsLoop'
      BY DEF TypeOK, NoLostLoop, DeletionCancelsLoop
    <2> QED BY <1>b, <2>1, <2>2, <2>3
  <1>2. CASE StopRunning(r)
    <2> USE <1>2, <1>a DEF StopRunning, CancelLoop
    <2>1. TypeOK'
      BY DEF TypeOK
    <2>2. OnlyCreated' /\ NotOvertaken'
      BY DEF TypeOK, OnlyCreated, NotOvertaken
    <2>3. NoLostLoop' /\ DeletionCancelsLoop'
      BY DEF TypeOK, NoLostLoop, DeletionCancelsLoop
    <2> QED BY <1>b, <2>1, <2>2, <2>3
  <1>3. CASE StopReturns(r)
    <2> USE <1>3, <1>a DEF StopReturns
    <2>1. TypeOK'
      BY DEF TypeOK
    <2>2. OnlyCreated' /\ NotOvertaken'
      BY DEF TypeOK, OnlyCreated, NotOvertaken
    <2>3. NoLostLoop' /\ DeletionCancelsLoop'
      BY DEF TypeOK, NoLostLoop, DeletionCancelsLoop
    <2> QED BY <1>b, <2>1, <2>2, <2>3
  <1>4. CASE StopStopped(r)
    <2> USE <1>4, <1>a DEF StopStopped, AlreadyStopped
    <2>1. TypeOK'
      BY DEF TypeOK
    <2>2. OnlyCreated' /\ NotOvertaken'
      BY DEF TypeOK, OnlyCreated, NotOvertaken
    <2>3. NoLostLoop' /\ DeletionCancelsLoop'
      BY DEF TypeOK, NoLostLoop, DeletionCancelsLoop
    <2> QED BY <1>b, <2>1, <2>2, <2>3
  <1> QED BY <1>1, <1>2, <1>3, <1>4

(* A loop ends, or is stopped by the orchestrator. *)
LEMMA LoopStepKeepsInv ==
  ASSUME IInv, NEW c \in Cluster, LoopEnds(c) \/ StopperStep(c)
  PROVE  IInv'
  <1> USE DEF IInv, LoopEnds, StopperStep, StopperCancels, StopperReturns, CancelLoop,
              AlreadyStopped, At
  <1>1. TypeOK'
    BY DEF TypeOK
  <1>2. DownMeansEmpty'
    BY DEF DownMeansEmpty
  <1>3. OnlyCreated' /\ NotOvertaken'
    BY DEF OnlyCreated, NotOvertaken
  <1>4. NoLostLoop'
    BY DEF TypeOK, NoLostLoop
  <1>5. DeletionCancelsLoop'
    <2>1. req' = req
      OBVIOUS
    <2>2. ASSUME NEW d \in Cluster, loop[d] # "running"
          PROVE  loop'[d] # "running"
      BY <2>2 DEF TypeOK
    <2>3. ASSUME NEW r \in Request, At(r, "row")
          PROVE  req[r].cluster \in Cluster
      BY <2>3 DEF TypeOK, OnlyCreated
    <2> QED BY <2>1, <2>2, <2>3 DEF DeletionCancelsLoop
  <1> QED BY <1>1, <1>2, <1>3, <1>4, <1>5

(* The process boots, is told to stop, stops or dies. *)
LEMMA BootKeepsInv ==
  ASSUME IInv, Boot
  PROVE  IInv'
  <1> PICK monitored \in {{}, {c \in GetAll : row[c] = "active"}} :
        /\ pipelines' = monitored
        /\ loop' = [c \in Cluster |-> IF c \in monitored THEN "running" ELSE "none"]
    BY DEF Boot
  <1>0. monitored \subseteq Cluster
    BY DEF GetAll
  <1>1. req = [r \in Request |-> Idle]
    BY DEF Boot, IInv, DownMeansEmpty
  <1>2. TypeOK'
    BY <1>0 DEF Boot, IInv, TypeOK
  <1>3. DownMeansEmpty'
    BY DEF Boot, DownMeansEmpty
  <1>4. OnlyCreated' /\ NotOvertaken'
    BY DEF Boot, IInv, OnlyCreated, NotOvertaken, At
  <1>5. NoLostLoop'
    BY <1>0 DEF NoLostLoop
  <1>6. DeletionCancelsLoop'
    BY <1>1 DEF Boot, DeletionCancelsLoop, At, Idle
  <1> QED BY <1>2, <1>3, <1>4, <1>5, <1>6 DEF IInv

LEMMA ShutdownKeepsInv ==
  ASSUME IInv, Signal \/ OrchestratorStop \/ OrchestratorStopped
  PROVE  IInv'
  <1> USE DEF IInv, Signal, OrchestratorStop, OrchestratorStopped, memory, At
  <1>1. TypeOK'
    BY DEF TypeOK
  <1>2. DownMeansEmpty' /\ OnlyCreated' /\ NotOvertaken'
    BY DEF DownMeansEmpty, OnlyCreated, NotOvertaken
  <1>3. NoLostLoop' /\ DeletionCancelsLoop'
    BY DEF NoLostLoop, DeletionCancelsLoop
  <1> QED BY <1>1, <1>2, <1>3

LEMMA ProcessEndKeepsInv ==
  ASSUME IInv, ServerShutdown \/ Crash
  PROVE  IInv'
  <1> USE DEF ServerShutdown, Crash, NoMemory, Idle, At
  <1>1. TypeOK'
    <2>1. row' = row /\ created' = created /\ proc' = "down" /\ NoMemory
      OBVIOUS
    <2>2. req' \in [Request -> [step : {"idle", "start", "write", "stop", "wait", "row"},
                               cluster : Cluster \cup {"none"}, early : BOOLEAN]]
      BY <2>1
    <2>3. TypeOK
      BY DEF IInv
    <2> QED BY <2>1, <2>2, <2>3 DEF TypeOK
  <1>2. DownMeansEmpty'
    BY DEF DownMeansEmpty
  <1>3. OnlyCreated' /\ NotOvertaken'
    BY DEF IInv, OnlyCreated, NotOvertaken
  <1>4. NoLostLoop' /\ DeletionCancelsLoop'
    BY DEF NoLostLoop, DeletionCancelsLoop
  <1> QED BY <1>1, <1>2, <1>3, <1>4 DEF IInv

LEMMA NextIInv == IInv /\ [Next]_vars => IInv'
  <1> SUFFICES ASSUME IInv, [Next]_vars PROVE IInv'
    OBVIOUS
  <1>1. ASSUME NEW r \in Request, NEW c \in Cluster,
               CreateInsert(r, c) \/ UpdateRead(r, c) \/ DeleteRead(r, c)
        PROVE  IInv'
    BY <1>1, CreateInsertKeepsInv, UpdateReadKeepsInv, DeleteReadKeepsInv
  <1>2. ASSUME NEW r \in Request, RequestStep(r)
        PROVE  IInv'
    BY <1>2, CreateStartKeepsInv, UpdateWriteKeepsInv, StopClusterKeepsInv, DeleteRowKeepsInv
       DEF RequestStep
  <1>3. ASSUME NEW c \in Cluster, LoopEnds(c) \/ StopperStep(c)
        PROVE  IInv'
    BY <1>3, LoopStepKeepsInv
  <1>4. CASE Boot \/ Signal \/ Crash \/ ShutdownStep
    BY <1>4, BootKeepsInv, ShutdownKeepsInv, ProcessEndKeepsInv DEF ShutdownStep
  <1>5. CASE UNCHANGED vars
    BY <1>5 DEF vars, memory, IInv, TypeOK, DownMeansEmpty, OnlyCreated, NotOvertaken,
                NoLostLoop, DeletionCancelsLoop, At
  <1> QED BY <1>1, <1>2, <1>3, <1>4, <1>5 DEF Next

-----------------------------------------------------------------------------

(* The inductive invariant holds. *)
THEOREM LifecycleInvariant == Spec => []IInv
  BY InitIInv, NextIInv, PTL DEF Spec

(* Types: the table, the orchestrator, the handlers and the process. *)
THEOREM LifecycleTypeCorrect == Spec => []TypeOK
  <1>1. IInv => TypeOK
    BY DEF IInv
  <1> QED BY <1>1, LifecycleInvariant, PTL

(* Every loop that runs is in the orchestrator's map. *)
THEOREM NoLostLoopHolds == Spec => []NoLostLoop
  <1>1. IInv => NoLostLoop
    BY DEF IInv
  <1> QED BY <1>1, LifecycleInvariant, PTL

-----------------------------------------------------------------------------
(* Who waits for a pipeline that has been told to end: the deletion that   *)
(* did so, with the mutex, or the shutdown, which comes when no deletion   *)
(* has the mutex.                                                          *)

WaiterHoldsMutex == \A r \in Request : At(r, "wait") => mu = r

StoppersComeLast == proc \notin {"stopping", "closed"} => stopper = [c \in Cluster |-> "none"]

CancelledIsAwaited ==
    \A c \in Cluster : loop[c] = "cancelled" =>
        \/ ShutdownWaitsFor(c)
        \/ \E r \in Request : At(r, "wait") /\ req[r].cluster = c

StopInv == WaiterHoldsMutex /\ StoppersComeLast /\ CancelledIsAwaited /\ DeletionStopsLoop

LEMMA InitStop == Init => StopInv
  BY DEF Init, StopInv, WaiterHoldsMutex, StoppersComeLast, CancelledIsAwaited,
         DeletionStopsLoop, At, Idle

LEMMA WaiterKeepsMutex ==
  ASSUME IInv, WaiterHoldsMutex, [Next]_vars
  PROVE  WaiterHoldsMutex'
  <1> USE DEF WaiterHoldsMutex, At, IInv, TypeOK
  <1>1. ASSUME NEW r \in Request, NEW c \in Cluster,
               CreateInsert(r, c) \/ UpdateRead(r, c) \/ DeleteRead(r, c)
        PROVE  WaiterHoldsMutex'
    BY <1>1 DEF CreateInsert, UpdateRead, DeleteRead, TakeUp
  <1>2. ASSUME NEW r \in Request, RequestStep(r)
        PROVE  WaiterHoldsMutex'
    <2>1. CASE CreateStart(r) \/ UpdateWrite(r) \/ DeleteRow(r)
      BY <2>1 DEF CreateStart, UpdateWrite, DeleteRow, Respond, Idle
    <2>2. CASE StopMissing(r) \/ StopStopped(r)
      BY <2>2 DEF StopMissing, StopStopped, GoTo
    <2>3. CASE StopRunning(r)
      BY <2>3, FreeIsNoRequest DEF StopRunning, GoTo
    <2>4. CASE StopReturns(r)
      BY <2>4 DEF StopReturns, GoTo
    <2> QED BY <1>2, <2>1, <2>2, <2>3, <2>4 DEF RequestStep
  <1>3. CASE UNCHANGED <<mu, req>>
    BY <1>3
  <1>4. CASE ServerShutdown \/ Crash
    BY <1>4 DEF ServerShutdown, Crash, NoMemory, Idle
  <1>5. \/ UNCHANGED <<mu, req>> \/ ServerShutdown \/ Crash
        \/ \E r \in Request : RequestStep(r)
        \/ \E r \in Request, c \in Cluster : CreateInsert(r, c) \/ UpdateRead(r, c) \/ DeleteRead(r, c)
    BY DEF Next, vars, memory, StopperStep, ShutdownStep, LoopEnds, StopperCancels,
           StopperReturns, Boot, Signal, OrchestratorStop, OrchestratorStopped
  <1> QED BY <1>1, <1>2, <1>3, <1>4, <1>5

LEMMA StoppersWait ==
  ASSUME IInv, StoppersComeLast, [Next]_vars
  PROVE  StoppersComeLast'
  <1>1. CASE UNCHANGED <<proc, stopper>>
    BY <1>1 DEF StoppersComeLast
  <1>2. CASE Boot \/ Signal
    BY <1>2 DEF StoppersComeLast, Boot, Signal, memory
  <1>3. CASE ServerShutdown \/ Crash
    BY <1>3 DEF StoppersComeLast, ServerShutdown, Crash, NoMemory
  <1>4. CASE OrchestratorStop \/ OrchestratorStopped
    BY <1>4 DEF StoppersComeLast, OrchestratorStop, OrchestratorStopped
  <1>5. ASSUME NEW c \in Cluster, StopperStep(c)
        PROVE  StoppersComeLast'
    BY <1>5 DEF StoppersComeLast, StopperStep, StopperCancels, StopperReturns
  <1>6. \/ UNCHANGED <<proc, stopper>> \/ Boot \/ Signal \/ ServerShutdown \/ Crash
        \/ OrchestratorStop \/ OrchestratorStopped
        \/ \E c \in Cluster : StopperStep(c)
    BY DEF Next, vars, memory, RequestStep, ShutdownStep, LoopEnds, CreateInsert, UpdateRead,
           DeleteRead, CreateStart, UpdateWrite, StopMissing, StopRunning, StopReturns,
           StopStopped, DeleteRow
  <1> QED BY <1>1, <1>2, <1>3, <1>4, <1>5, <1>6

LEMMA BeginKeepsStop ==
  ASSUME IInv, StopInv, NEW r \in Request, NEW c \in Cluster,
         CreateInsert(r, c) \/ UpdateRead(r, c) \/ DeleteRead(r, c)
  PROVE  CancelledIsAwaited' /\ DeletionStopsLoop'
  <1>1. /\ UNCHANGED <<proc, loop, stopper>> /\ req[r].step = "idle"
        /\ req'[r].step \in {"start", "write", "stop"}
        /\ \A q \in Request \ {r} : req'[q] = req[q]
    BY DEF CreateInsert, UpdateRead, DeleteRead, TakeUp, At, IInv, TypeOK
  <1>2. CancelledIsAwaited'
    BY <1>1 DEF StopInv, CancelledIsAwaited, ShutdownWaitsFor, At
  <1>3. DeletionStopsLoop'
    BY <1>1 DEF StopInv, DeletionStopsLoop, HasEnded, ShutdownWaitsFor, At
  <1> QED BY <1>2, <1>3

(* The handlers: only StopRunning cancels, and only StopReturns leaves the *)
(* wait; the others come to the row when nobody waits.                     *)
LEMMA HandlerKeepsStop ==
  ASSUME IInv, StopInv, NEW r \in Request, RequestStep(r)
  PROVE  CancelledIsAwaited' /\ DeletionStopsLoop'
  <1> DEFINE d == req[r].cluster
  <1> USE DEF At
  <1>0. d \in Cluster
    BY DEF RequestStep, CreateStart, UpdateWrite, StopMissing, StopRunning, StopReturns,
           StopStopped, DeleteRow, IInv, TypeOK, OnlyCreated
  <1>1. CASE CreateStart(r)
    <2>1. /\ UNCHANGED <<proc, stopper>> /\ req[r].step = "start"
          /\ loop' = [loop EXCEPT ![d] = "running"]
          /\ req'[r].step = "idle" /\ \A q \in Request \ {r} : req'[q] = req[q]
      BY <1>1 DEF CreateStart, StartCluster, Respond, Idle, IInv, TypeOK
    <2>2. CancelledIsAwaited'
      BY <1>0, <2>1 DEF StopInv, CancelledIsAwaited, ShutdownWaitsFor, IInv, TypeOK
    <2>3. \A q \in Request : req'[q].step = "row" /\ ~req'[q].early => req[q].cluster # d
      BY <2>1 DEF IInv, NotOvertaken
    <2>4. DeletionStopsLoop'
      BY <1>0, <2>1, <2>3 DEF StopInv, DeletionStopsLoop, HasEnded, ShutdownWaitsFor, IInv, TypeOK
    <2> QED BY <2>2, <2>4
  <1>2. CASE UpdateWrite(r) \/ DeleteRow(r)
    <2>1. /\ UNCHANGED <<proc, loop, stopper>> /\ req[r].step # "wait"
          /\ req'[r].step = "idle" /\ \A q \in Request \ {r} : req'[q] = req[q]
      BY <1>2 DEF UpdateWrite, DeleteRow, Respond, Idle, IInv, TypeOK
    <2>2. CancelledIsAwaited'
      BY <2>1 DEF StopInv, CancelledIsAwaited, ShutdownWaitsFor
    <2>3. DeletionStopsLoop'
      BY <2>1 DEF StopInv, DeletionStopsLoop, HasEnded, ShutdownWaitsFor
    <2> QED BY <2>2, <2>3
  <1>3. CASE StopMissing(r) \/ StopStopped(r)
    <2>1. /\ UNCHANGED <<proc, loop, stopper>> /\ mu = Free /\ req[r].step = "stop"
          /\ req'[r].step = "row" /\ req'[r].cluster = d
          /\ \A q \in Request \ {r} : req'[q] = req[q]
      BY <1>3 DEF StopMissing, StopStopped, GoTo, IInv, TypeOK
    <2>2. loop[d] # "running"
      BY <1>3, <1>0 DEF StopMissing, StopStopped, AlreadyStopped, IInv, NoLostLoop
    <2>3. \A q \in Request : req[q].step # "wait"
      BY <2>1, FreeIsNoRequest DEF StopInv, WaiterHoldsMutex
    <2>4. loop[d] = "cancelled" => ShutdownWaitsFor(d)
      BY <1>0, <2>3 DEF StopInv, CancelledIsAwaited
    <2>5. HasEnded(d) \/ ShutdownWaitsFor(d)
      BY <1>0, <2>2, <2>4 DEF HasEnded, IInv, TypeOK
    <2>6. CancelledIsAwaited'
      BY <2>1 DEF StopInv, CancelledIsAwaited, ShutdownWaitsFor
    <2>7. DeletionStopsLoop'
      BY <2>1, <2>5 DEF StopInv, DeletionStopsLoop, HasEnded, ShutdownWaitsFor
    <2> QED BY <2>6, <2>7
  <1>4. CASE StopRunning(r)
    <2>1. /\ UNCHANGED <<proc, stopper>> /\ req[r].step = "stop" /\ loop[d] = "running"
          /\ loop' = [loop EXCEPT ![d] = "cancelled"]
          /\ req'[r].step = "wait" /\ req'[r].cluster = d
          /\ \A q \in Request \ {r} : req'[q] = req[q]
      BY <1>4 DEF StopRunning, CancelLoop, GoTo, IInv, TypeOK
    <2>2. CancelledIsAwaited'
      BY <1>0, <2>1 DEF StopInv, CancelledIsAwaited, ShutdownWaitsFor, IInv, TypeOK
    <2>3. \A q \in Request : req'[q].step = "row" /\ ~req'[q].early => req[q].cluster # d
      BY <2>1 DEF IInv, DeletionCancelsLoop
    <2>4. DeletionStopsLoop'
      BY <1>0, <2>1, <2>3 DEF StopInv, DeletionStopsLoop, HasEnded, ShutdownWaitsFor, IInv, TypeOK
    <2> QED BY <2>2, <2>4
  <1>5. CASE StopReturns(r)
    <2>1. /\ UNCHANGED <<proc, loop, stopper>> /\ loop[d] = "ended"
          /\ req'[r].step = "row" /\ req'[r].cluster = d
          /\ \A q \in Request \ {r} : req'[q] = req[q]
      BY <1>5 DEF StopReturns, GoTo, IInv, TypeOK
    <2>2. CancelledIsAwaited'
      BY <2>1 DEF StopInv, CancelledIsAwaited, ShutdownWaitsFor
    <2>3. DeletionStopsLoop'
      BY <2>1 DEF StopInv, DeletionStopsLoop, HasEnded, ShutdownWaitsFor
    <2> QED BY <2>2, <2>3
  <1> QED BY <1>1, <1>2, <1>3, <1>4, <1>5 DEF RequestStep

(* A loop that ends frees whoever waits for it; a shutdown that cancels    *)
(* one waits for it.                                                       *)
LEMMA LoopKeepsStop ==
  ASSUME IInv, StopInv, NEW c \in Cluster, LoopEnds(c) \/ StopperStep(c)
  PROVE  CancelledIsAwaited' /\ DeletionStopsLoop'
  <1>0. \A r \in Request : At(r, "row") => req[r].cluster \in Cluster
    BY DEF IInv, TypeOK, OnlyCreated, At
  <1>1. CASE LoopEnds(c)
    <2>1. UNCHANGED <<proc, stopper, req>> /\ loop' = [loop EXCEPT ![c] = "ended"]
      BY <1>1 DEF LoopEnds
    <2>2. CancelledIsAwaited'
      BY <2>1 DEF StopInv, CancelledIsAwaited, ShutdownWaitsFor, At, IInv, TypeOK
    <2>3. DeletionStopsLoop'
      BY <1>0, <2>1 DEF StopInv, DeletionStopsLoop, HasEnded, ShutdownWaitsFor, At, IInv, TypeOK
    <2> QED BY <2>2, <2>3
  <1>2. CASE StopperCancels(c)
    <2>1. /\ UNCHANGED <<proc, req>> /\ loop[c] = "running"
          /\ stopper[c] = "called" /\ stopper' = [stopper EXCEPT ![c] = "waiting"]
          /\ loop' = [loop EXCEPT ![c] = "cancelled"]
      BY <1>2 DEF StopperCancels, CancelLoop
    <2>2. proc \in {"stopping", "closed"}
      BY <2>1 DEF StopInv, StoppersComeLast
    <2>3. CancelledIsAwaited'
      BY <2>1, <2>2 DEF StopInv, CancelledIsAwaited, ShutdownWaitsFor, At, IInv, TypeOK
    <2>4. \A r \in Request : At(r, "row") /\ ~req[r].early => req[r].cluster # c
      BY <2>1 DEF IInv, DeletionCancelsLoop
    <2>5. DeletionStopsLoop'
      BY <1>0, <2>1, <2>4 DEF StopInv, DeletionStopsLoop, HasEnded, ShutdownWaitsFor, At, IInv, TypeOK
    <2> QED BY <2>3, <2>5
  <1>3. CASE StopperReturns(c)
    <2>1. /\ UNCHANGED <<proc, loop, req>> /\ stopper' = [stopper EXCEPT ![c] = "none"]
          /\ ~ShutdownWaitsFor(c)
      BY <1>3 DEF StopperReturns, ShutdownWaitsFor
    <2>2. \A d \in Cluster : ShutdownWaitsFor(d) => ShutdownWaitsFor(d)'
      BY <2>1 DEF ShutdownWaitsFor, IInv, TypeOK
    <2>3. CancelledIsAwaited'
      BY <2>1, <2>2 DEF StopInv, CancelledIsAwaited, At
    <2>4. DeletionStopsLoop'
      BY <1>0, <2>1, <2>2 DEF StopInv, DeletionStopsLoop, HasEnded, At
    <2> QED BY <2>3, <2>4
  <1> QED BY <1>1, <1>2, <1>3 DEF StopperStep

LEMMA ProcessKeepsStop ==
  ASSUME IInv, StopInv, Boot \/ Signal \/ Crash \/ ShutdownStep
  PROVE  CancelledIsAwaited' /\ DeletionStopsLoop'
  <1>1. CASE Boot
    <2>1. req' = [r \in Request |-> Idle]
      BY <1>1 DEF Boot, IInv, DownMeansEmpty
    <2>2. \A c \in Cluster : loop'[c] # "cancelled"
      BY <1>1 DEF Boot
    <2> QED BY <2>1, <2>2 DEF CancelledIsAwaited, DeletionStopsLoop, At, Idle
  <1>2. CASE Crash \/ ServerShutdown
    BY <1>2 DEF Crash, ServerShutdown, NoMemory, Idle, CancelledIsAwaited, DeletionStopsLoop, At
  <1>3. CASE Signal \/ OrchestratorStop \/ OrchestratorStopped
    <2>1. UNCHANGED <<loop, req>>
      BY <1>3 DEF Signal, memory, OrchestratorStop, OrchestratorStopped
    <2>2. \A c \in Cluster : ShutdownWaitsFor(c) => ShutdownWaitsFor(c)'
      BY <1>3 DEF ShutdownWaitsFor, Signal, memory, OrchestratorStop, OrchestratorStopped
    <2>3. CancelledIsAwaited'
      BY <2>1, <2>2 DEF StopInv, CancelledIsAwaited, At
    <2>4. \A r \in Request : At(r, "row") => req[r].cluster \in Cluster
      BY DEF IInv, TypeOK, OnlyCreated, At
    <2>5. DeletionStopsLoop'
      BY <2>1, <2>2, <2>4 DEF StopInv, DeletionStopsLoop, HasEnded, At
    <2> QED BY <2>3, <2>5
  <1> QED BY <1>1, <1>2, <1>3 DEF ShutdownStep

LEMMA StopInvariant == Spec => [](IInv /\ StopInv)
  <1>1. IInv /\ StopInv /\ [Next]_vars => (IInv /\ StopInv)'
    <2> SUFFICES ASSUME IInv, StopInv, [Next]_vars PROVE (IInv /\ StopInv)'
      OBVIOUS
    <2>1. IInv'
      BY NextIInv
    <2>2. WaiterHoldsMutex' /\ StoppersComeLast'
      BY WaiterKeepsMutex, StoppersWait DEF StopInv
    <2>3. ASSUME UNCHANGED vars
          PROVE  CancelledIsAwaited' /\ DeletionStopsLoop'
      BY <2>3 DEF vars, memory, StopInv, CancelledIsAwaited, DeletionStopsLoop, HasEnded,
                  ShutdownWaitsFor, At
    <2>4. ASSUME Next
          PROVE  CancelledIsAwaited' /\ DeletionStopsLoop'
      BY <2>4, BeginKeepsStop, HandlerKeepsStop, LoopKeepsStop, ProcessKeepsStop DEF Next
    <2>5. CancelledIsAwaited' /\ DeletionStopsLoop'
      BY <2>3, <2>4
    <2> QED BY <2>1, <2>2, <2>5 DEF StopInv
  <1> QED BY <1>1, InitIInv, InitStop, PTL DEF Spec

(* A deletion that follows the answer to the creation comes to the row     *)
(* when the loop has ended, or when a shutdown waits for it to end.        *)
THEOREM DeletionStopsLoopHolds == Spec => []DeletionStopsLoop
  <1>1. StopInv => DeletionStopsLoop
    BY DEF StopInv
  <1> QED BY <1>1, StopInvariant, PTL

-----------------------------------------------------------------------------
(* Deleted clusters stay deleted, through concurrent updates and restarts. *)
THEOREM DeletedStaysDeletedHolds == Spec => DeletedStaysDeleted
  <1>1. ASSUME TypeOK, [Next]_vars, NEW c \in created, row[c] = NoRow
        PROVE  row'[c] = NoRow
    <2>0. c \in Cluster
      BY <1>1 DEF TypeOK
    <2>1. ASSUME NEW r \in Request, NEW d \in Cluster, CreateInsert(r, d)
          PROVE  row'[c] = NoRow
      BY <1>1, <2>0, <2>1 DEF CreateInsert, InsertRow, TypeOK
    <2>2. ASSUME NEW r \in Request, UpdateWrite(r)
          PROVE  row'[c] = NoRow
      BY <1>1, <2>0, <2>2 DEF UpdateWrite, UpdateRow, TypeOK
    <2>3. ASSUME NEW r \in Request, DeleteRow(r)
          PROVE  row'[c] = NoRow
      BY <1>1, <2>0, <2>3 DEF DeleteRow, RemoveRow, TypeOK
    <2>4. CASE UNCHANGED row
      BY <1>1, <2>4
    <2>5. \/ UNCHANGED row
          \/ \E r \in Request, d \in Cluster : CreateInsert(r, d)
          \/ \E r \in Request : UpdateWrite(r) \/ DeleteRow(r)
      BY <1>1 DEF Next, vars, RequestStep, StopperStep, ShutdownStep, UpdateRead, DeleteRead,
                  CreateStart, StopMissing, StopRunning, StopReturns, StopStopped, LoopEnds,
                  StopperCancels, StopperReturns, Boot, Signal, Crash, OrchestratorStop,
                  OrchestratorStopped, ServerShutdown
    <2> QED BY <2>1, <2>2, <2>3, <2>4, <2>5
  <1>2. TypeOK /\ [Next]_vars
          => [\A c \in created : row[c] = NoRow => row'[c] = NoRow]_vars
    BY <1>1
  <1> QED BY <1>2, LifecycleTypeCorrect, PTL DEF Spec, DeletedStaysDeleted

-----------------------------------------------------------------------------
(* The table and the orchestrator.  For a cluster nothing has driven apart *)
(* the invariant says what each place of a handler means for its row and   *)
(* its pipeline.                                                           *)

On(r, c, steps) == req[r].step \in steps /\ req[r].cluster = c

AgreesOn(c) ==
    /\ row[c] = "active" /\ c \notin pipelines => \E r \in Request : On(r, c, {"start", "row"})
    /\ c \in pipelines => row[c] = "active"
    /\ c \in pipelines /\ loop[c] # "running" => \E r \in Request : On(r, c, {"wait"})
    /\ \A r \in Request : On(r, c, {"start", "row"}) => c \notin pipelines
    /\ \A r \in Request : On(r, c, {"start"}) => row[c] = "active"
    /\ \A r \in Request : On(r, c, {"wait"}) => c \in pipelines
    /\ \A r, q \in Request : On(r, c, {"start"}) /\ On(q, c, {"start", "row"}) => r = q

Working == proc \in {"serving", "signalled"}

AgreeUnlessApart == Working => \A c \in Cluster \ apart : AgreesOn(c)

(* Whatever runs when Orchestrator.Stop has looked is late or will be      *)
(* stopped.                                                                *)
StopCovers ==
    proc \in {"stopping", "closed"} =>
        \A c \in Cluster : loop[c] = "running" /\ c \notin late => stopper[c] = "called"

ConsistencyInv == WaiterHoldsMutex /\ StoppersComeLast /\ AgreeUnlessApart /\ StopCovers

LEMMA InitConsistency == ConsistencyInit => ConsistencyInv
  BY DEF ConsistencyInit, Init, ConsistencyInv, WaiterHoldsMutex, StoppersComeLast,
         AgreeUnlessApart, StopCovers, Working, At, Idle

LEMMA StopKeepsCovering ==
  ASSUME IInv, StopCovers, [Next]_vars, Record
  PROVE  StopCovers'
  <1> SUFFICES ASSUME proc' \in {"stopping", "closed"}, NEW c \in Cluster,
                      loop'[c] = "running", c \notin late'
               PROVE  stopper'[c] = "called"
    BY DEF StopCovers
  <1> USE DEF IInv, TypeOK
  <1>1. CASE OrchestratorStop
    BY <1>1 DEF OrchestratorStop, NoLostLoop
  <1>2. CASE ~OrchestratorStop
    <2>1. proc \in {"stopping", "closed"}
      BY <1>2 DEF Next, vars, memory, RequestStep, StopperStep, ShutdownStep, LoopEnds,
             CreateInsert, UpdateRead, DeleteRead, CreateStart, UpdateWrite, StopMissing,
             StopRunning, StopReturns, StopStopped, DeleteRow, StopperCancels, StopperReturns,
             Boot, Signal, Crash, OrchestratorStopped, ServerShutdown
    <2>2. c \notin late /\ c \notin pipelines' \ pipelines
      BY <2>1 DEF Record
    <2>3. loop[c] = "running"
      <3>1. ASSUME NEW r \in Request, CreateStart(r)
            PROVE  loop[c] = "running"
        BY <3>1, <2>2 DEF CreateStart, StartCluster
      <3>2. ASSUME NEW r \in Request, StopRunning(r)
            PROVE  loop[c] = "running"
        BY <3>2 DEF StopRunning, CancelLoop
      <3>3. ASSUME NEW d \in Cluster, LoopEnds(d) \/ StopperCancels(d)
            PROVE  loop[c] = "running"
        BY <3>3 DEF LoopEnds, StopperCancels, CancelLoop
      <3>4. \/ UNCHANGED loop
            \/ \E r \in Request : CreateStart(r) \/ StopRunning(r)
            \/ \E d \in Cluster : LoopEnds(d) \/ StopperCancels(d)
        BY <2>1 DEF Next, vars, memory, RequestStep, StopperStep, ShutdownStep, CreateInsert,
               UpdateRead, DeleteRead, UpdateWrite, StopMissing, StopReturns, StopStopped,
               DeleteRow, StopperReturns, Boot, Signal, Crash, OrchestratorStop,
               OrchestratorStopped, ServerShutdown
      <3> QED BY <3>1, <3>2, <3>3, <3>4
    <2>4. stopper[c] = "called"
      BY <2>1, <2>2, <2>3 DEF StopCovers
    <2>5. ASSUME NEW d \in Cluster, StopperStep(d)
          PROVE  stopper'[c] = "called"
      BY <2>3, <2>4, <2>5 DEF StopperStep, StopperCancels, StopperReturns, CancelLoop, AlreadyStopped
    <2>6. UNCHANGED stopper \/ \E d \in Cluster : StopperStep(d)
      BY <1>2, <2>1 DEF Next, vars, memory, RequestStep, ShutdownStep, LoopEnds, CreateInsert,
             UpdateRead, DeleteRead, CreateStart, UpdateWrite, StopMissing, StopRunning,
             StopReturns, StopStopped, DeleteRow, Boot, Signal, Crash, OrchestratorStopped,
             ServerShutdown
    <2> QED BY <2>4, <2>5, <2>6
  <1> QED BY <1>1, <1>2

(* The steps of the handlers, for a cluster nothing drives apart. *)
LEMMA BeginKeepsAgreement ==
  ASSUME IInv, NEW c \in Cluster, AgreesOn(c), NEW r \in Request, NEW d \in Cluster,
         CreateInsert(r, d) \/ UpdateRead(r, d) \/ DeleteRead(r, d)
  PROVE  AgreesOn(c)'
  <1> USE DEF IInv, TypeOK, AgreesOn, On, At, TakeUp
  <1>1. CASE CreateInsert(r, d)
    <2>1. UNCHANGED <<pipelines, loop>> /\ d \notin created /\ req[r].step = "idle"
          /\ row' = [row EXCEPT ![d] = "active"]
          /\ req'[r].step = "start" /\ req'[r].cluster = d
          /\ \A q \in Request \ {r} : req'[q] = req[q]
      BY <1>1 DEF CreateInsert, InsertRow
    <2>2. CASE c # d
      BY <2>1, <2>2
    <2>3. CASE c = d
      <3>1. row[c] = NoRow /\ \A q \in Request : req[q].step # "idle" => req[q].cluster # c
        BY <2>1, <2>3 DEF OnlyCreated
      <3>2. c \notin pipelines /\ row'[c] = "active"
        BY <2>1, <2>3, <3>1 DEF NoRow
      <3> QED BY <2>1, <2>3, <3>1, <3>2
    <2> QED BY <2>2, <2>3
  <1>2. CASE UpdateRead(r, d) \/ DeleteRead(r, d)
    <2>1. UNCHANGED <<pipelines, loop, row>> /\ req[r].step = "idle"
          /\ req'[r].step \in {"write", "stop"}
          /\ \A q \in Request \ {r} : req'[q] = req[q]
      BY <1>2 DEF UpdateRead, DeleteRead
    <2> QED BY <2>1
  <1> QED BY <1>1, <1>2

LEMMA HandlerKeepsAgreement ==
  ASSUME IInv, WaiterHoldsMutex, NEW c \in Cluster, AgreesOn(c), ~DrivenApart(c),
         NEW r \in Request, RequestStep(r)
  PROVE  AgreesOn(c)'
  <1> DEFINE d == req[r].cluster
  <1> USE DEF IInv, TypeOK, AgreesOn, On, At
  <1>1. CASE CreateStart(r)
    <2>1. /\ UNCHANGED row /\ d \in Cluster
          /\ pipelines' = pipelines \cup {d} /\ loop' = [loop EXCEPT ![d] = "running"]
          /\ req[r].step = "start" /\ req'[r].step = "idle"
          /\ \A q \in Request \ {r} : req'[q] = req[q]
      BY <1>1 DEF CreateStart, StartCluster, Respond, Idle, OnlyCreated
    <2>2. CASE c # d
      BY <2>1, <2>2
    <2>3. CASE c = d
      <3>1. row[c] = "active" /\ \A q \in Request : On(q, c, {"start", "row"}) => q = r
        BY <2>1, <2>3
      <3> QED BY <2>1, <2>3, <3>1
    <2> QED BY <2>2, <2>3
  <1>2. CASE UpdateWrite(r)
    <2>1. /\ UNCHANGED <<pipelines, loop>>
          /\ req[r].step = "write" /\ req'[r].step = "idle"
          /\ \A q \in Request \ {r} : req'[q] = req[q]
      BY <1>2 DEF UpdateWrite, Respond, Idle
    <2>2. row'[c] = row[c]
      BY <1>2 DEF UpdateWrite, UpdateRow, DrivenApart, StatusChanged, NoRow, Status
    <2> QED BY <2>1, <2>2
  <1>3. CASE StopMissing(r)
    <2>1. /\ UNCHANGED <<row, pipelines, loop>>
          /\ req[r].step = "stop" /\ req'[r].step = "row" /\ req'[r].cluster = d
          /\ d \notin pipelines
          /\ \A q \in Request \ {r} : req'[q] = req[q]
      BY <1>3 DEF StopMissing, GoTo
    <2>2. c = d => \A q \in Request : ~On(q, c, {"start"})
      BY <2>1 DEF DrivenApart, Overtaken, Leaves, BeingCreated
    <2> QED BY <2>1, <2>2
  <1>4. CASE StopRunning(r)
    <2>1. /\ UNCHANGED <<row, pipelines>> /\ d \in Cluster /\ d \in pipelines
          /\ loop' = [loop EXCEPT ![d] = "cancelled"]
          /\ req[r].step = "stop" /\ req'[r].step = "wait" /\ req'[r].cluster = d
          /\ \A q \in Request \ {r} : req'[q] = req[q]
      BY <1>4 DEF StopRunning, CancelLoop, GoTo
    <2>2. CASE c # d
      BY <2>1, <2>2
    <2>3. CASE c = d
      BY <2>1, <2>3
    <2> QED BY <2>2, <2>3
  <1>5. CASE StopReturns(r)
    <2>1. /\ UNCHANGED <<row, loop>>
          /\ pipelines' = pipelines \ {d}
          /\ req[r].step = "wait" /\ req'[r].step = "row" /\ req'[r].cluster = d
          /\ \A q \in Request \ {r} : req'[q] = req[q]
      BY <1>5 DEF StopReturns, GoTo
    <2>2. \A q \in Request \ {r} : req[q].step # "wait"
      BY <2>1 DEF WaiterHoldsMutex
    <2>3. CASE c # d
      BY <2>1, <2>3
    <2>4. CASE c = d
      <3>1. \A q \in Request : ~On(q, c, {"start"})
        BY <2>1, <2>4
      <3> QED BY <2>1, <2>2, <2>4, <3>1
    <2> QED BY <2>3, <2>4
  <1>6. CASE StopStopped(r)
    <2>1. /\ UNCHANGED <<row, loop>>
          /\ pipelines' = pipelines \ {d}
          /\ req[r].step = "stop" /\ req'[r].step = "row" /\ req'[r].cluster = d
          /\ \A q \in Request \ {r} : req'[q] = req[q]
      BY <1>6 DEF StopStopped, GoTo
    <2>2. \A q \in Request : req[q].step # "wait"
      BY <1>6, FreeIsNoRequest DEF StopStopped, WaiterHoldsMutex
    <2>3. CASE c # d
      BY <2>1, <2>3
    <2>4. CASE c = d
      BY <1>6, <2>2, <2>4 DEF StopStopped, AlreadyStopped
    <2> QED BY <2>3, <2>4
  <1>7. CASE DeleteRow(r)
    <2>1. /\ UNCHANGED <<pipelines, loop>> /\ d \in Cluster
          /\ row' = row \/ row' = [row EXCEPT ![d] = NoRow]
          /\ req[r].step = "row" /\ req'[r].step = "idle"
          /\ \A q \in Request \ {r} : req'[q] = req[q]
      BY <1>7 DEF DeleteRow, RemoveRow, Respond, Idle, OnlyCreated
    <2>2. CASE c # d
      <3>1. row'[c] = row[c]
        BY <2>1, <2>2
      <3>2. /\ UNCHANGED <<pipelines, loop>> /\ req[r].cluster # c
            /\ req'[r].step = "idle" /\ \A q \in Request \ {r} : req'[q] = req[q]
        BY <2>1, <2>2
      <3> QED BY <3>1, <3>2
    <2>3. CASE c = d
      <3>1. row'[c] = NoRow
        BY <2>1, <2>3 DEF DrivenApart, Undeleted, Leaves
      <3>2. c \notin pipelines /\ \A q \in Request : ~On(q, c, {"start"})
        BY <2>1, <2>3
      <3> QED BY <2>1, <3>1, <3>2 DEF NoRow
    <2> QED BY <2>2, <2>3
  <1> QED BY <1>1, <1>2, <1>3, <1>4, <1>5, <1>6, <1>7 DEF RequestStep

(* The other steps of a process that works. *)
LEMMA LoopsKeepAgreement ==
  ASSUME IInv, NEW c \in Cluster, AgreesOn(c), StoppersComeLast, Working,
         NEW d \in Cluster, LoopEnds(d) \/ StopperStep(d)
  PROVE  AgreesOn(c)'
  <1>1. LoopEnds(d)
    BY DEF Working, StoppersComeLast, StopperStep, StopperCancels, StopperReturns
  <1>2. /\ UNCHANGED <<row, pipelines, req>> /\ loop[d] = "cancelled"
        /\ loop' = [loop EXCEPT ![d] = "ended"]
    BY <1>1 DEF LoopEnds
  <1> QED BY <1>2 DEF AgreesOn, On, IInv, TypeOK

LEMMA BootAgrees ==
  ASSUME IInv, Boot, Record
  PROVE  \A c \in Cluster \ apart' : AgreesOn(c)'
  <1> SUFFICES ASSUME NEW c \in Cluster, c \notin apart'
               PROVE  AgreesOn(c)'
    OBVIOUS
  <1>1. /\ UNCHANGED <<row, req>>
        /\ c \in pipelines' => row[c] = "active" /\ loop'[c] = "running"
    BY DEF Boot, GetAll
  <1>2. \A r \in Request : req[r].step = "idle"
    BY DEF Boot, IInv, DownMeansEmpty, Idle
  <1>3. ~BootMissed(c)
    BY DEF Boot, Record
  <1> QED BY <1>1, <1>2, <1>3 DEF AgreesOn, On, BootMissed

LEMMA AgreementIsKept ==
  ASSUME IInv, ConsistencyInv, [Next]_vars, Record
  PROVE  AgreeUnlessApart'
  <1> SUFFICES ASSUME Working'
               PROVE  \A c \in Cluster \ apart' : AgreesOn(c)'
    BY DEF AgreeUnlessApart
  <1>1. CASE Boot
    BY <1>1, BootAgrees
  <1>2. CASE ~Boot
    <2> SUFFICES ASSUME NEW c \in Cluster, c \notin apart'
                 PROVE  AgreesOn(c)'
      OBVIOUS
    <2>1. Working
      BY <1>2 DEF Working, Next, vars, memory, RequestStep, StopperStep, ShutdownStep, LoopEnds,
             CreateInsert, UpdateRead, DeleteRead, CreateStart, UpdateWrite, StopMissing,
             StopRunning, StopReturns, StopStopped, DeleteRow, StopperCancels, StopperReturns,
             Signal, Crash, OrchestratorStop, OrchestratorStopped, ServerShutdown
    <2>2. c \notin apart /\ ~DrivenApart(c)
      BY <2>1 DEF Working, Record
    <2>3. AgreesOn(c) /\ WaiterHoldsMutex /\ StoppersComeLast
      BY <2>1, <2>2 DEF ConsistencyInv, AgreeUnlessApart
    <2>4. CASE UNCHANGED <<row, pipelines, loop, req>>
      BY <2>3, <2>4 DEF AgreesOn, On
    <2>5. \/ UNCHANGED <<row, pipelines, loop, req>>
          \/ \E r \in Request, d \in Cluster :
                CreateInsert(r, d) \/ UpdateRead(r, d) \/ DeleteRead(r, d)
          \/ \E r \in Request : RequestStep(r)
          \/ \E d \in Cluster : LoopEnds(d) \/ StopperStep(d)
      BY <1>2 DEF Working, Next, vars, memory, ShutdownStep, Signal, Crash, OrchestratorStop,
             OrchestratorStopped, ServerShutdown
    <2> QED BY <2>1, <2>2, <2>3, <2>4, <2>5, BeginKeepsAgreement, HandlerKeepsAgreement,
               LoopsKeepAgreement
  <1> QED BY <1>1, <1>2

LEMMA ConsistencyInvariant == ConsistencySpec => [](IInv /\ ConsistencyInv)
  <1>1. ConsistencyInit => IInv /\ ConsistencyInv
    BY InitIInv, InitConsistency DEF ConsistencyInit
  <1>2. IInv /\ ConsistencyInv /\ [ConsistencyNext]_consistencyVars => (IInv /\ ConsistencyInv)'
    <2> SUFFICES ASSUME IInv, ConsistencyInv, [ConsistencyNext]_consistencyVars
                 PROVE  (IInv /\ ConsistencyInv)'
      OBVIOUS
    <2>1. CASE ConsistencyNext
      <3>1. Next /\ Record
        BY <2>1 DEF ConsistencyNext
      <3>2. IInv'
        BY <3>1, NextIInv
      <3>3. WaiterHoldsMutex' /\ StoppersComeLast' /\ StopCovers' /\ AgreeUnlessApart'
        BY <3>1, WaiterKeepsMutex, StoppersWait, StopKeepsCovering, AgreementIsKept
           DEF ConsistencyInv
      <3> QED BY <3>2, <3>3 DEF ConsistencyInv
    <2>2. CASE UNCHANGED consistencyVars
      <3>1. UNCHANGED vars /\ apart' = apart /\ late' = late
        BY <2>2 DEF consistencyVars
      <3>2. IInv'
        BY <3>1, NextIInv
      <3>3. ConsistencyInv'
        BY <3>1 DEF vars, memory, ConsistencyInv, WaiterHoldsMutex, StoppersComeLast,
                    AgreeUnlessApart, StopCovers, Working, AgreesOn, On, At
      <3> QED BY <3>2, <3>3
    <2> QED BY <2>1, <2>2
  <1> QED BY <1>1, <1>2, PTL DEF ConsistencySpec

(* While the process serves, a cluster no request has in hand is monitored *)
(* exactly if its row is active, but for the four accepted causes.         *)
THEOREM MonitoredIffActiveHolds == ConsistencySpec => []MonitoredIffActive
  <1>1. IInv /\ ConsistencyInv => MonitoredIffActive
    BY DEF IInv, NoLostLoop, ConsistencyInv, AgreeUnlessApart, Working, AgreesOn, On,
           MonitoredIffActive, InHand, At
  <1> QED BY <1>1, ConsistencyInvariant, PTL

(* What still runs after Orchestrator.Stop has been started since.         *)
THEOREM OnlyLateStartsSurviveStopHolds == ConsistencySpec => []OnlyLateStartsSurviveStop
  <1>1. ConsistencyInv => OnlyLateStartsSurviveStop
    BY DEF ConsistencyInv, StopCovers, OnlyLateStartsSurviveStop
  <1> QED BY <1>1, ConsistencyInvariant, PTL

-----------------------------------------------------------------------------
(* The orchestrator's mutex.  It is held exactly while a deletion waits    *)
(* for a pipeline that has been told to end; a creation under way is the   *)
(* only one of its cluster, whose pipeline has never been started.         *)

MutexInv ==
    /\ mu # Free => At(mu, "wait")
    /\ \A r \in Request :
          At(r, "wait") => mu = r /\ loop[req[r].cluster] \in {"cancelled", "ended"}

StartedOnce ==
    /\ \A c \in pipelines : loop[c] # "none"
    /\ \A c \in Cluster : loop[c] # "none" => c \in created
    /\ \A r \in Request : At(r, "start") => loop[req[r].cluster] = "none"
    /\ \A r, q \in Request :
          At(r, "start") /\ At(q, "start") /\ req[r].cluster = req[q].cluster => r = q

LEMMA InitMutex == Init => MutexInv /\ StartedOnce
  BY DEF Init, MutexInv, StartedOnce, At, Idle

LEMMA BeginKeepsMutex ==
  ASSUME IInv, MutexInv, StartedOnce, NEW r \in Request, NEW c \in Cluster,
         CreateInsert(r, c) \/ UpdateRead(r, c) \/ DeleteRead(r, c)
  PROVE  (MutexInv /\ StartedOnce)'
  <1> USE DEF At
  <1>1. /\ UNCHANGED <<pipelines, loop, mu>> /\ req[r].step = "idle" /\ created \subseteq created'
        /\ req'[r].step \in {"start", "write", "stop"} /\ req'[r].cluster = c
        /\ \A q \in Request \ {r} : req'[q] = req[q]
    BY DEF CreateInsert, InsertRow, UpdateRead, DeleteRead, TakeUp, IInv, TypeOK
  <1>2. req'[r].step = "start" => c \notin created
    BY DEF CreateInsert, UpdateRead, DeleteRead, TakeUp, IInv, TypeOK
  <1>3. MutexInv'
    BY <1>1 DEF MutexInv, IInv, TypeOK
  <1>4. \A q \in Request \ {r} : req[q].step = "start" => req[q].cluster \in created
    BY DEF IInv, OnlyCreated
  <1>5. StartedOnce'
    BY <1>1, <1>2, <1>4 DEF StartedOnce, IInv, TypeOK
  <1> QED BY <1>3, <1>5

LEMMA HandlerKeepsMutex ==
  ASSUME IInv, MutexInv, StartedOnce, NEW r \in Request, RequestStep(r)
  PROVE  (MutexInv /\ StartedOnce)'
  <1> DEFINE d == req[r].cluster
  <1> USE FreeIsNoRequest DEF At
  <1>0. req[r].step # "idle" /\ d \in Cluster /\ d \in created
    BY DEF RequestStep, CreateStart, UpdateWrite, StopMissing, StopRunning, StopReturns,
           StopStopped, DeleteRow, IInv, TypeOK, OnlyCreated
  <1>1. CASE CreateStart(r)
    <2>1. /\ UNCHANGED <<created, mu>> /\ mu = Free /\ req[r].step = "start"
          /\ pipelines' = pipelines \cup {d} /\ loop' = [loop EXCEPT ![d] = "running"]
          /\ req'[r].step = "idle" /\ \A q \in Request \ {r} : req'[q] = req[q]
      BY <1>1 DEF CreateStart, StartCluster, Respond, Idle, IInv, TypeOK
    <2>2. MutexInv'
      BY <2>1 DEF MutexInv
    <2>3. StartedOnce'
      BY <1>0, <2>1 DEF StartedOnce, IInv, TypeOK
    <2> QED BY <2>2, <2>3
  <1>2. CASE UpdateWrite(r) \/ StopMissing(r) \/ DeleteRow(r) \/ StopStopped(r)
    <2>1. /\ UNCHANGED <<created, mu, loop>> /\ pipelines' \subseteq pipelines
          /\ req[r].step \in {"write", "stop", "row"} /\ req'[r].step \in {"idle", "row"}
          /\ \A q \in Request \ {r} : req'[q] = req[q]
      BY <1>2 DEF UpdateWrite, StopMissing, DeleteRow, StopStopped, Respond, GoTo, Idle, IInv, TypeOK
    <2>2. MutexInv'
      BY <2>1 DEF MutexInv, IInv, TypeOK
    <2>3. StartedOnce'
      BY <2>1 DEF StartedOnce
    <2> QED BY <2>2, <2>3
  <1>3. CASE StopRunning(r)
    <2>1. /\ UNCHANGED <<created, pipelines>> /\ mu = Free /\ mu' = r
          /\ loop[d] = "running" /\ loop' = [loop EXCEPT ![d] = "cancelled"]
          /\ req[r].step = "stop" /\ req'[r].step = "wait" /\ req'[r].cluster = d
          /\ \A q \in Request \ {r} : req'[q] = req[q]
      BY <1>3 DEF StopRunning, CancelLoop, GoTo, IInv, TypeOK
    <2>2. MutexInv'
      BY <1>0, <2>1 DEF MutexInv, IInv, TypeOK
    <2>3. StartedOnce'
      BY <1>0, <2>1 DEF StartedOnce, IInv, TypeOK
    <2> QED BY <2>2, <2>3
  <1>4. CASE StopReturns(r)
    <2>1. /\ UNCHANGED <<created, loop>> /\ mu' = Free /\ pipelines' \subseteq pipelines
          /\ req[r].step = "wait" /\ req'[r].step = "row"
          /\ \A q \in Request \ {r} : req'[q] = req[q]
      BY <1>4 DEF StopReturns, GoTo, IInv, TypeOK
    <2>2. MutexInv'
      BY <2>1 DEF MutexInv
    <2>3. StartedOnce'
      BY <2>1 DEF StartedOnce
    <2> QED BY <2>2, <2>3
  <1> QED BY <1>1, <1>2, <1>3, <1>4 DEF RequestStep

LEMMA LoopKeepsMutex ==
  ASSUME IInv, MutexInv, StartedOnce, NEW c \in Cluster, LoopEnds(c) \/ StopperStep(c)
  PROVE  (MutexInv /\ StartedOnce)'
  <1>1. /\ UNCHANGED <<created, pipelines, mu, req>>
        /\ \/ UNCHANGED loop
           \/ loop[c] = "cancelled" /\ loop' = [loop EXCEPT ![c] = "ended"]
           \/ loop[c] = "running" /\ loop' = [loop EXCEPT ![c] = "cancelled"]
    BY DEF LoopEnds, StopperStep, StopperCancels, StopperReturns, CancelLoop
  <1>2. \A d \in Cluster : /\ loop'[d] = "none" <=> loop[d] = "none"
                           /\ loop[d] \in {"cancelled", "ended"} => loop'[d] \in {"cancelled", "ended"}
    BY <1>1 DEF IInv, TypeOK
  <1>3. \A r \in Request : ~At(r, "idle") => req[r].cluster \in Cluster
    BY DEF IInv, TypeOK, OnlyCreated
  <1>4. MutexInv'
    BY <1>1, <1>2, <1>3 DEF MutexInv, At
  <1>5. StartedOnce'
    BY <1>1, <1>2, <1>3 DEF StartedOnce, At, IInv, TypeOK
  <1> QED BY <1>4, <1>5

LEMMA ProcessKeepsMutex ==
  ASSUME IInv, MutexInv, StartedOnce, Boot \/ Signal \/ Crash \/ ShutdownStep
  PROVE  (MutexInv /\ StartedOnce)'
  <1> USE DEF MutexInv, StartedOnce, At
  <1>1. CASE Boot
    <2>1. /\ UNCHANGED <<created, mu, req>> /\ pipelines' \subseteq GetAll
          /\ loop' = [c \in Cluster |-> IF c \in pipelines' THEN "running" ELSE "none"]
      BY <1>1 DEF Boot
    <2>2. req = [r \in Request |-> Idle]
      BY <1>1 DEF Boot, IInv, DownMeansEmpty
    <2>3. GetAll \subseteq created /\ GetAll \subseteq Cluster
      BY DEF GetAll, IInv, OnlyCreated
    <2> QED BY <2>1, <2>2, <2>3 DEF Idle, IInv, TypeOK
  <1>2. CASE Crash \/ ServerShutdown
    BY <1>2 DEF Crash, ServerShutdown, NoMemory, Idle
  <1>3. CASE Signal \/ OrchestratorStop \/ OrchestratorStopped
    BY <1>3 DEF Signal, memory, OrchestratorStop, OrchestratorStopped
  <1> QED BY <1>1, <1>2, <1>3 DEF ShutdownStep

LEMMA MutexInvariant == Spec => [](IInv /\ MutexInv /\ StartedOnce)
  <1>1. IInv /\ MutexInv /\ StartedOnce /\ [Next]_vars => (IInv /\ MutexInv /\ StartedOnce)'
    <2> SUFFICES ASSUME IInv, MutexInv, StartedOnce, [Next]_vars
                 PROVE  (IInv /\ MutexInv /\ StartedOnce)'
      OBVIOUS
    <2>1. IInv'
      BY NextIInv
    <2>2. CASE UNCHANGED vars
      BY <2>1, <2>2 DEF vars, memory, MutexInv, StartedOnce, At
    <2>3. CASE Next
      BY <2>1, <2>3, BeginKeepsMutex, HandlerKeepsMutex, LoopKeepsMutex, ProcessKeepsMutex DEF Next
    <2> QED BY <2>1, <2>2, <2>3
  <1> QED BY <1>1, InitIInv, InitMutex, PTL DEF Spec

(* Nobody waits for ever on the mutex of the orchestrator: the safety half *)
(* of RequestsComplete and of ShutdownCompletes.                           *)
THEOREM NobodyStuckHolds == Spec => []NobodyStuck
  <1>1. ASSUME IInv, MutexInv, StartedOnce
        PROVE  NobodyStuck
    <2>1. mu # Free => mu \in Request
      BY <1>1 DEF IInv, TypeOK
    <2>2. ASSUME mu = Free, NEW r \in Request, ~At(r, "idle")
          PROVE  CanGoOn(r)
      <3>1. ~At(r, "wait")
        BY <1>1, <2>2, FreeIsNoRequest DEF MutexInv
      <3>2. req[r].step \in {"start", "write", "stop", "row"}
        BY <1>1, <2>2, <3>1 DEF IInv, TypeOK, At
      <3>3. At(r, "start") => req[r].cluster \notin pipelines
        BY <1>1 DEF StartedOnce
      <3>4. req[r].cluster \in pipelines => loop[req[r].cluster] # "none"
        BY <1>1 DEF StartedOnce
      <3> QED BY <2>2, <3>2, <3>3, <3>4 DEF CanGoOn, At
    <2> QED BY <1>1, <2>1, <2>2 DEF NobodyStuck, MutexInv
  <1> QED BY <1>1, MutexInvariant, PTL

(* A pipeline that has been told to end is not started again while the     *)
(* process lives.                                                          *)
THEOREM StoppedOnceHolds == Spec => StoppedOnce
  <1>1. ASSUME IInv, StartedOnce, [Next]_vars, NEW c \in Cluster, proc' # "down",
               loop[c] \in {"cancelled", "ended"}
        PROVE  loop'[c] \in {"cancelled", "ended"}
    <2> USE DEF IInv, TypeOK
    <2>1. ASSUME NEW r \in Request, CreateStart(r)
          PROVE  loop'[c] \in {"cancelled", "ended"}
      <3>1. loop[req[r].cluster] = "none" /\ loop' = [loop EXCEPT ![req[r].cluster] = "running"]
        BY <1>1, <2>1 DEF CreateStart, StartCluster, StartedOnce
      <3>2. c # req[r].cluster
        BY <1>1, <3>1
      <3> QED BY <1>1, <3>1, <3>2
    <2>2. ASSUME NEW r \in Request, StopRunning(r)
          PROVE  loop'[c] \in {"cancelled", "ended"}
      <3>1. loop[req[r].cluster] = "running" /\ loop' = [loop EXCEPT ![req[r].cluster] = "cancelled"]
        BY <2>2 DEF StopRunning, CancelLoop
      <3> QED BY <1>1, <3>1
    <2>3. ASSUME NEW d \in Cluster, LoopEnds(d) \/ StopperStep(d)
          PROVE  loop'[c] \in {"cancelled", "ended"}
      BY <1>1, <2>3 DEF LoopEnds, StopperStep, StopperCancels, StopperReturns, CancelLoop
    <2>4. ~Boot
      BY <1>1 DEF Boot, DownMeansEmpty
    <2>5. \/ UNCHANGED loop
          \/ \E r \in Request : CreateStart(r) \/ StopRunning(r)
          \/ \E d \in Cluster : LoopEnds(d) \/ StopperStep(d)
      BY <1>1, <2>4 DEF Next, vars, memory, RequestStep, ShutdownStep, CreateInsert, UpdateRead,
             DeleteRead, UpdateWrite, StopMissing, StopReturns, StopStopped, DeleteRow, Signal,
             Crash, OrchestratorStop, OrchestratorStopped, ServerShutdown
    <2> QED BY <1>1, <2>1, <2>2, <2>3, <2>5
  <1>2. IInv /\ StartedOnce /\ [Next]_vars
          => [\A c \in Cluster : proc' # "down" /\ AlreadyStopped(c) => AlreadyStopped(c)']_vars
    BY <1>1 DEF AlreadyStopped
  <1> QED BY <1>2, MutexInvariant, PTL DEF Spec, StoppedOnce

=============================================================================
