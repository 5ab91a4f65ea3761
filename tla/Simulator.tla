------------------------------ MODULE Simulator ------------------------------
(***************************************************************************)
(* The metrics simulator that stands in for the cloud                      *)
(* (internal/simulator/simulator.go, cluster.go): an HTTP server whose     *)
(* handlers, one goroutine a request, share a table of simulated clusters  *)
(* behind a sync.RWMutex, and in each cluster its servers, its settings    *)
(* and its spike behind another.                                           *)
(*                                                                         *)
(* A writer that waits for a Go RWMutex keeps new readers out, also those  *)
(* that hold the lock already: Status read-locks a cluster and then calls  *)
(* ServerCount, which read-locks it again.  And CollectMetrics, a reader,  *)
(* clears an expired spike that other readers may be looking at.           *)
(*                                                                         *)
(* A read section that waits for nothing and reads once is one step, and   *)
(* so is a write section, from the moment its lock is granted.  Requests   *)
(* turned down before they reach the clusters, and /health, change         *)
(* nothing and are left out.                                               *)
(***************************************************************************)
EXTENDS Naturals, Sequences

CONSTANTS
    Request,     \* the goroutines that serve requests, each used again
    ClusterId,   \* the names clusters are known under
    Sim,         \* identities of ClusterSim objects, used again once unreachable
    Table,       \* the lock Simulator.mu; ClusterSim.mu is named by its object
    None,
    Bodies,      \* what the bodies of PUT requests ask for, in the handler's order
    DefaultServers,  \* of a cluster created without a number: 3
    ServerLimit  \* bound: stands for this number of servers or more

Change == {"settings", "add", "remove", "spike", "pattern"}

ASSUME NamesAssumption ==
    /\ Table \notin Sim /\ None \notin Sim /\ None \notin Request /\ None \notin ClusterId
    /\ Bodies \subseteq Seq(Change)
    /\ ServerLimit \in Nat /\ DefaultServers \in 1..ServerLimit

VARIABLES
    table,     \* Simulator.clusters
    servers,   \* the number of a cluster's servers, all of them active
    spike,     \* none, running, or over and not yet cleared
    readers,   \* the requests that hold a lock for reading
    writer,    \* the request that waits for, or holds, a lock for writing
    at,        \* where each request is
    job        \* its kind, its cluster, what it has still to change or to list

clusterVars == <<servers, spike>>
vars == <<table, clusterVars, readers, writer, at, job>>

Lock == {Table} \cup Sim

Kind == {"metrics", "list", "get", "create", "update", "delete", "spike", "pattern"}

Stage == {"idle", "lookup", "getOrCreate", "create", "delete", "change", "changed",
          "list", "visit", "collect", "cpu", "elapsed", "level", "report",
          "status", "spikeInfo", "remaining", "count"}

Job == [kind : Kind \cup {"none"}, id : ClusterId \cup {None}, sim : Sim \cup {None},
        changes : Seq(Change), left : SUBSET ClusterId, over : BOOLEAN]

NoJob == [kind |-> "none", id |-> None, sim |-> None, changes |-> <<>>, left |-> {},
          over |-> FALSE]

Init ==
    /\ table = [c \in ClusterId |-> None]
    /\ servers = [s \in Sim |-> 0]
    /\ spike = [s \in Sim |-> "none"]
    /\ readers = [l \in Lock |-> {}]
    /\ writer = [l \in Lock |-> None]
    /\ at = [r \in Request |-> "idle"]
    /\ job = [r \in Request |-> NoJob]

-----------------------------------------------------------------------------
(* A request comes in; the mux and the method choose its handler. *)

First(k) == CASE k = "metrics" -> "getOrCreate"
              [] k = "list"    -> "list"
              [] k = "create"  -> "create"
              [] k = "delete"  -> "delete"
              [] OTHER         -> "lookup"

Asked(k) == CASE k = "update" -> Bodies
              [] k \in {"spike", "pattern"} -> {<<k>>}
              [] OTHER -> {<<>>}

Receive(r, k, c) ==
    /\ at[r] = "idle"
    /\ at' = [at EXCEPT ![r] = First(k)]
    /\ \E changes \in Asked(k) :
          job' = [job EXCEPT ![r] = [NoJob EXCEPT !.kind = k, !.id = c, !.changes = changes]]
    /\ UNCHANGED <<table, clusterVars, readers, writer>>

(* The objects the table or a request refers to; the others are forgotten. *)
Reachable(t, Q) == {t[c] : c \in ClusterId} \cup {job[q].sim : q \in Q}

Kept(f, live, nothing) == [s \in Sim |-> IF s \in live THEN f[s] ELSE nothing]

(* The handler returns, its deferred unlocks done, and leaves table t. *)
Return(r, t) ==
    LET live == Reachable(t, Request \ {r}) IN
    /\ table' = t
    /\ servers' = Kept(servers, live, 0)
    /\ spike' = Kept(spike, live, "none")
    /\ at' = [at EXCEPT ![r] = "idle"]
    /\ job' = [job EXCEPT ![r] = NoJob]

MayRead(l) == writer[l] = None

(* Lock: shut the door on new readers, then wait for those inside. *)
LockBegin(r, l) ==
    /\ writer[l] = None
    /\ writer' = [writer EXCEPT ![l] = r]
    /\ UNCHANGED <<table, clusterVars, readers, at, job>>

MayWrite(r, l) == writer[l] = r /\ readers[l] = {}

Unlock(l) == writer' = [writer EXCEPT ![l] = None]

LockTable(r) == at[r] \in {"getOrCreate", "create", "delete"} /\ LockBegin(r, Table)

LockCluster(r) == at[r] = "change" /\ LockBegin(r, job[r].sim)

-----------------------------------------------------------------------------
(* Finding the cluster. *)

(* GetCluster, for the handlers that read or change a cluster. *)
LookupFound(r) ==
    /\ at[r] = "lookup" /\ MayRead(Table)
    /\ table[job[r].id] # None
    /\ job' = [job EXCEPT ![r].sim = table[job[r].id]]
    /\ at' = [at EXCEPT ![r] = IF job[r].changes = <<>> THEN "status" ELSE "change"]
    /\ UNCHANGED <<table, clusterVars, readers, writer>>

(* A spike or a pattern creates the cluster; the others answer 404. *)
LookupMissing(r) ==
    /\ at[r] = "lookup" /\ MayRead(Table)
    /\ table[job[r].id] = None
    /\ \/ /\ job[r].kind \in {"spike", "pattern"}
          /\ at' = [at EXCEPT ![r] = "getOrCreate"]
          /\ UNCHANGED <<table, clusterVars, job>>
       \/ /\ job[r].kind \notin {"spike", "pattern"}
          /\ Return(r, table)
    /\ UNCHANGED <<readers, writer>>

(* NewClusterSim, stored under the request's name. *)
NewClusterSim(r, n) ==
    LET free == Sim \ Reachable(table, Request)
        s == CHOOSE s \in free : TRUE
        t == [table EXCEPT ![job[r].id] = s]
        live == Reachable(t, Request)
    IN  /\ free # {}
        /\ table' = t
        /\ job' = [job EXCEPT ![r].sim = s]
        /\ servers' = [Kept(servers, live, 0) EXCEPT ![s] = n]
        /\ spike' = Kept(spike, live \ {s}, "none")

GetOrCreateCluster(r) ==
    /\ at[r] = "getOrCreate" /\ MayWrite(r, Table)
    /\ \/ /\ table[job[r].id] # None
          /\ job' = [job EXCEPT ![r].sim = table[job[r].id]]
          /\ UNCHANGED <<table, clusterVars>>
       \/ /\ table[job[r].id] = None
          /\ NewClusterSim(r, DefaultServers)
    /\ Unlock(Table)
    /\ at' = [at EXCEPT ![r] = IF job[r].kind = "metrics" THEN "collect" ELSE "change"]
    /\ UNCHANGED readers

(* An existing cluster of the name is replaced. *)
CreateCluster(r) ==
    /\ at[r] = "create" /\ MayWrite(r, Table)
    /\ \E n \in 1..ServerLimit : NewClusterSim(r, n)
    /\ Unlock(Table)
    /\ at' = [at EXCEPT ![r] = "status"]
    /\ UNCHANGED readers

DeleteCluster(r) ==
    /\ at[r] = "delete" /\ MayWrite(r, Table)
    /\ Return(r, [table EXCEPT ![job[r].id] = None])
    /\ Unlock(Table)
    /\ UNCHANGED readers

-----------------------------------------------------------------------------
(* Changing a cluster: each setter takes the lock for itself.  The base load  *)
(* ("settings") and the pattern are set in a write section like the rest, but *)
(* their values are not modelled.                                             *)

Saturated(n) == IF n > ServerLimit THEN ServerLimit ELSE n

ApplyChange(s, change) ==
    /\ servers' = [servers EXCEPT ![s] =
          CASE change = "add"    -> Saturated(@ + 1)
            [] change = "remove" -> IF @ = 0 THEN 0 ELSE @ - 1
            [] OTHER             -> @]
    /\ spike' = [spike EXCEPT ![s] = IF change = "spike" THEN "running" ELSE @]

(* Mutant: a setter that does not take the lock for writing. *)
ChangeClusterUnlocked(r) ==
    LET rest == Tail(job[r].changes) IN
    /\ at[r] = "change"
    /\ ApplyChange(job[r].sim, Head(job[r].changes))
    /\ job' = [job EXCEPT ![r].changes = rest]
    /\ at' = [at EXCEPT ![r] = IF rest # <<>> THEN "change"
                              ELSE IF job[r].kind = "update" THEN "status" ELSE "changed"]
    /\ UNCHANGED <<table, readers, writer>>

(* The next setter; after the last, PUT answers with the status. *)
ChangeCluster(r) ==
    LET rest == Tail(job[r].changes) IN
    /\ at[r] = "change" /\ MayWrite(r, job[r].sim)
    /\ ApplyChange(job[r].sim, Head(job[r].changes))
    /\ Unlock(job[r].sim)
    /\ job' = [job EXCEPT ![r].changes = rest]
    /\ at' = [at EXCEPT ![r] = IF rest # <<>> THEN "change"
                              ELSE IF job[r].kind = "update" THEN "status" ELSE "changed"]
    /\ UNCHANGED <<table, readers>>

(* /spike and /pattern confirm what was asked. *)
ConfirmChange(r) ==
    /\ at[r] = "changed"
    /\ Return(r, table)
    /\ UNCHANGED <<readers, writer>>

(* Time passes the spike's duration. *)
SpikeElapses(s) ==
    /\ spike[s] = "running"
    /\ spike' = [spike EXCEPT ![s] = "over"]
    /\ UNCHANGED <<table, servers, readers, writer, at, job>>

-----------------------------------------------------------------------------
(* CollectMetrics: one read section in which c.spike is read again and again. *)

(* Mutant: metrics are collected without the lock. *)
CollectBeginUnlocked(r) ==
    /\ at[r] = "collect"
    /\ at' = [at EXCEPT ![r] = "cpu"]
    /\ UNCHANGED <<table, clusterVars, readers, writer, job>>

CollectBegin(r) ==
    /\ at[r] = "collect" /\ MayRead(job[r].sim)
    /\ readers' = [readers EXCEPT ![job[r].sim] = @ \cup {r}]
    /\ at' = [at EXCEPT ![r] = "cpu"]
    /\ UNCHANGED <<table, clusterVars, writer, job>>

(* calculateCurrentCPU: is there a spike? *)
CheckSpike(r) ==
    /\ at[r] = "cpu"
    /\ at' = [at EXCEPT ![r] = IF spike[job[r].sim] = "none" THEN "report" ELSE "elapsed"]
    /\ UNCHANGED <<table, clusterVars, readers, writer, job>>

(* c.spike.StartTime: has its time passed? *)
ReadElapsed(r) ==
    /\ at[r] = "elapsed" /\ spike[job[r].sim] # "none"
    /\ job' = [job EXCEPT ![r].over = (spike[job[r].sim] = "over")]
    /\ at' = [at EXCEPT ![r] = "level"]
    /\ UNCHANGED <<table, clusterVars, readers, writer>>

(* c.spike.Duration, RampUp, TargetCPU: clear the spike or apply it. *)
ApplySpike(r) ==
    /\ at[r] = "level" /\ spike[job[r].sim] # "none"
    /\ spike' = [spike EXCEPT ![job[r].sim] = IF job[r].over THEN "none" ELSE @]
    /\ job' = [job EXCEPT ![r].over = FALSE]
    /\ at' = [at EXCEPT ![r] = "report"]
    /\ UNCHANGED <<table, servers, readers, writer>>

(* The servers' samples are drawn, the lock released, the answer sent. *)
Report(r) ==
    /\ at[r] = "report"
    /\ readers' = [readers EXCEPT ![job[r].sim] = @ \ {r}]
    /\ Return(r, table)
    /\ UNCHANGED writer

-----------------------------------------------------------------------------
(* Status, the answer of GET, POST and PUT on a cluster. *)

StatusBegin(r) ==
    /\ at[r] = "status" /\ MayRead(job[r].sim)
    /\ readers' = [readers EXCEPT ![job[r].sim] = @ \cup {r}]
    /\ at' = [at EXCEPT ![r] = "spikeInfo"]
    /\ UNCHANGED <<table, clusterVars, writer, job>>

StatusCheckSpike(r) ==
    /\ at[r] = "spikeInfo"
    /\ at' = [at EXCEPT ![r] = IF spike[job[r].sim] = "none" THEN "count" ELSE "remaining"]
    /\ UNCHANGED <<table, clusterVars, readers, writer, job>>

StatusReadSpike(r) ==
    /\ at[r] = "remaining" /\ spike[job[r].sim] # "none"
    /\ at' = [at EXCEPT ![r] = "count"]
    /\ UNCHANGED <<table, clusterVars, readers, writer, job>>

(* ServerCount takes and releases the lock a second time; the deferred RUnlock follows. *)
StatusEnd(r) ==
    /\ at[r] = "count" /\ MayRead(job[r].sim)
    /\ readers' = [readers EXCEPT ![job[r].sim] = @ \ {r}]
    /\ Return(r, table)
    /\ UNCHANGED writer

(* The spike is gone since it was looked at: a nil pointer, and a panic that   *)
(* net/http recovers from when the deferred RUnlock has run.                   *)
Panic(r) ==
    /\ at[r] \in {"elapsed", "level", "remaining"} /\ spike[job[r].sim] = "none"
    /\ readers' = [readers EXCEPT ![job[r].sim] = @ \ {r}]
    /\ Return(r, table)
    /\ UNCHANGED writer

-----------------------------------------------------------------------------
(* listClustersHandler reads every cluster while it holds the table. *)

ListBegin(r) ==
    /\ at[r] = "list" /\ MayRead(Table)
    /\ readers' = [readers EXCEPT ![Table] = @ \cup {r}]
    /\ job' = [job EXCEPT ![r].left = {c \in ClusterId : table[c] # None}]
    /\ at' = [at EXCEPT ![r] = "visit"]
    /\ UNCHANGED <<table, clusterVars, writer>>

(* ServerCount and GetPattern. *)
ListVisit(r) ==
    /\ at[r] = "visit"
    /\ \E c \in job[r].left :
          /\ MayRead(table[c])
          /\ job' = [job EXCEPT ![r].left = @ \ {c}]
    /\ UNCHANGED <<table, clusterVars, readers, writer, at>>

(* Mutant: the listing forgets to let go of the table. *)
ListEndWithoutUnlock(r) ==
    /\ at[r] = "visit" /\ job[r].left = {}
    /\ Return(r, table)
    /\ UNCHANGED <<readers, writer>>

ListEnd(r) ==
    /\ at[r] = "visit" /\ job[r].left = {}
    /\ readers' = [readers EXCEPT ![Table] = @ \ {r}]
    /\ Return(r, table)
    /\ UNCHANGED writer

-----------------------------------------------------------------------------
Handle(r) ==
    \/ LockTable(r) \/ LockCluster(r)
    \/ LookupFound(r) \/ LookupMissing(r)
    \/ GetOrCreateCluster(r) \/ CreateCluster(r) \/ DeleteCluster(r)
    \/ ChangeCluster(r) \/ ConfirmChange(r)
    \/ CollectBegin(r) \/ CheckSpike(r) \/ ReadElapsed(r) \/ ApplySpike(r) \/ Report(r)
    \/ StatusBegin(r) \/ StatusCheckSpike(r) \/ StatusReadSpike(r) \/ StatusEnd(r)
    \/ Panic(r)
    \/ ListBegin(r) \/ ListVisit(r) \/ ListEnd(r)

Next ==
    \/ \E r \in Request, k \in Kind, c \in ClusterId : Receive(r, k, c)
    \/ \E r \in Request : Handle(r)
    \/ \E s \in Sim : SpikeElapses(s)

Spec == Init /\ [][Next]_vars

(***************************************************************************)
(* The scheduler runs every handler, and a lock is granted in turn: Unlock *)
(* lets the readers that wait in before the next writer, and the writers   *)
(* queue on a sync.Mutex, whose starvation mode is first come first        *)
(* served.  Hence strong fairness.  Clients owe nothing.                   *)
(***************************************************************************)
FairSpec == Spec /\ \A r \in Request : SF_vars(Handle(r))

-----------------------------------------------------------------------------
(* Properties. *)

TypeOK ==
    /\ table \in [ClusterId -> Sim \cup {None}]
    /\ servers \in [Sim -> 0..ServerLimit]
    /\ spike \in [Sim -> {"none", "running", "over"}]
    /\ readers \in [Lock -> SUBSET Request]
    /\ writer \in [Lock -> Request \cup {None}]
    /\ at \in [Request -> Stage]
    /\ job \in [Request -> Job]

(***************************************************************************)
(* What a read section covers stays as it was: between two steps of one    *)
(* reader of a cluster its servers do not change and no spike begins, and  *)
(* while the clusters are listed none comes or goes.  Metrics and status   *)
(* are drawn from one state of the cluster, however its updates, spikes    *)
(* and patterns interleave.                                                *)
(***************************************************************************)
ReadersSeeOneState ==
    [][/\ \A s \in Sim : readers[s] \cap readers'[s] # {} =>
             /\ servers'[s] = servers[s]
             /\ spike'[s] = "running" => spike[s] = "running"
       /\ readers[Table] \cap readers'[Table] # {} => table' = table]_vars

(***************************************************************************)
(* A spike that was injected is not lost: CollectMetrics decides outside   *)
(* the write lock that a spike is over and clears whatever spike it then   *)
(* finds, which is never one injected since.  It goes only with its        *)
(* cluster, once neither the table nor a request refers to it.             *)
(***************************************************************************)
RunningSpikeKept ==
    [][\A s \in Sim : spike[s] = "running" /\ spike'[s] = "none" =>
          s \notin Reachable(table, Request)']_vars

(* A request is inside Status, before ServerCount, and a writer waits.     *)
CaughtInStatus(r) == at[r] = "count" /\ ~MayRead(job[r].sim)

StatusCaught == \E r \in Request : CaughtInStatus(r)

(***************************************************************************)
(* Whatever requests arrive, a panic among them, each one is answered or   *)
(* ends, unless a Status is caught between its two read locks: no lock is  *)
(* left held, and the table's and the clusters' locks make no circle.      *)
(***************************************************************************)
OnlyStatusHangs ==
    \A r \in Request : at[r] # "idle" ~> (at[r] = "idle" \/ StatusCaught)

(***************************************************************************)
(* "Get status of a simulated cluster"                                     *)
(* (postman/Cloud_Autoscaler_Simulator.postman_collection.json:126) is     *)
(* answered.                                                               *)
(***************************************************************************)
StatusAnswered ==
    \A r \in Request : job[r].kind = "get" ~> at[r] = "idle"

(***************************************************************************)
(* Which locks keep a request from its next step: the listing goes on with *)
(* any of the clusters it has still to visit.  CanGoOn says that a step of *)
(* the request's handler is enabled, as long as there is an object for a   *)
(* new cluster.                                                            *)
(***************************************************************************)
Wants(r) ==
    CASE at[r] \in {"lookup", "list", "getOrCreate", "create", "delete"} -> {Table}
      [] at[r] \in {"change", "collect", "status", "count"} -> {job[r].sim}
      [] at[r] = "visit" -> {table[c] : c \in job[r].left}
      [] OTHER -> {}

MayTake(r, l) == MayRead(l) \/ MayWrite(r, l)

CanGoOn(r) == at[r] # "idle" /\ (Wants(r) = {} \/ \E l \in Wants(r) : MayTake(r, l))

(* The requests that hold, or wait to write, a lock that r wants. *)
InTheWayOf(r) == {q \in Request : \E l \in Wants(r) : q \in readers[l] \/ q = writer[l]}

(***************************************************************************)
(* The table's lock and the clusters' locks make no circle: a request that *)
(* has to wait waits for one that can go on, or for one that such a        *)
(* request waits for, unless a Status caught between its two read locks is *)
(* among them.  The one nesting of two locks is the listing, which waits   *)
(* for clusters with the table held for reading, and nobody who holds a    *)
(* cluster waits for the table.                                            *)
(***************************************************************************)
LocksMakeNoCircle ==
    \A r \in Request : at[r] # "idle" /\ ~CanGoOn(r) =>
        \E q \in InTheWayOf(r) \cup UNION {InTheWayOf(p) : p \in InTheWayOf(r)} :
            CanGoOn(q) \/ CaughtInStatus(q)
=============================================================================
