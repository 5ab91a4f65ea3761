-------------------------- MODULE Simulator_proofs --------------------------
(***************************************************************************)
(* Proofs about the simulator, for any number of requests at a time, any   *)
(* names and objects.                                                      *)
(***************************************************************************)
EXTENDS Simulator, TLAPS

Reading == {"cpu", "elapsed", "level", "report", "spikeInfo", "remaining", "count"}
InCluster == Reading \cup {"change", "changed", "collect", "status"}

(* A request knows its cluster, and what to change, where it needs them.   *)
JobsFit ==
    \A r \in Request :
        /\ at[r] # "idle" => job[r].id \in ClusterId
        /\ IF at[r] \in InCluster THEN job[r].sim \in Sim ELSE job[r].sim = None
        /\ at[r] = "change" => job[r].changes # <<>>
        /\ at[r] = "getOrCreate" => job[r].kind = "metrics" \/ job[r].changes # <<>>
        /\ at[r] = "lookup" /\ job[r].kind \in {"spike", "pattern"} => job[r].changes # <<>>

(* A cluster's readers are inside a read section of it, so the cluster is  *)
(* reachable as long as it has readers.                                    *)
ReadersInside ==
    \A r \in Request, s \in Sim : r \in readers[s] => at[r] \in Reading /\ job[r].sim = s

(* And a request inside holds its lock.                                    *)
ReadersHeld == \A r \in Request : at[r] \in Reading => r \in readers[job[r].sim]

(* The spike a collection has found to be over does not run again.         *)
OverStaysOver ==
    \A r \in Request : at[r] = "level" /\ job[r].over => spike[job[r].sim] # "running"

(* An object nothing refers to has no spike.                               *)
SpikesReachable ==
    \A s \in Sim : spike[s] # "none" => s \in Reachable(table, Request)

IInv ==
    /\ TypeOK /\ JobsFit
    /\ ReadersInside /\ ReadersHeld
    /\ OverStaysOver /\ SpikesReachable

-----------------------------------------------------------------------------

LEMMA InitIInv == Init => IInv
  <1> SUFFICES ASSUME Init PROVE IInv
    OBVIOUS
  <1> USE NamesAssumption DEF Init, NoJob
  <1>1. TypeOK
    BY DEF TypeOK, Stage, Job
  <1>2. JobsFit /\ ReadersInside /\ ReadersHeld /\ OverStaysOver /\ SpikesReachable
    BY DEF SpikesReachable, JobsFit, ReadersInside, ReadersHeld, OverStaysOver, InCluster, Reading, Lock
  <1> QED BY <1>1, <1>2 DEF IInv

(* As long as no cluster is dropped, and no request drops its cluster,     *)
(* spikes stay reachable.                                                  *)
LEMMA StillReachable ==
  ASSUME IInv, UNCHANGED table,
         \A q \in Request : job'[q].sim = job[q].sim \/ job[q].sim = None,
         \A s \in Sim : spike'[s] # "none" =>
            spike[s] # "none" \/ s \in Reachable(table, Request)
  PROVE  SpikesReachable'
  <1> SUFFICES ASSUME NEW s \in Sim, spike'[s] # "none"
               PROVE  s \in Reachable(table, Request)'
    BY DEF SpikesReachable
  <1>1. s \in Reachable(table, Request) /\ s # None
    BY NamesAssumption DEF IInv, SpikesReachable
  <1> QED BY <1>1 DEF Reachable

(* What a request asks for is a sequence of changes, of one at least for   *)
(* /spike and /pattern.                                                    *)
LEMMA AskedChanges ==
  ASSUME NEW k \in Kind, NEW changes \in Asked(k)
  PROVE  changes \in Seq(Change) /\ (k \in {"spike", "pattern"} => changes # <<>>)
  <1>1. CASE k = "update"
    BY <1>1, NamesAssumption DEF Asked
  <1>2. CASE k \in {"spike", "pattern"}
    <2>1. changes = <<k>>
      BY <1>2 DEF Asked
    <2>2. k \in Change
      BY <1>2 DEF Change
    <2> QED BY <2>1, <2>2
  <1>3. CASE k \notin {"update", "spike", "pattern"}
    <2>1. changes = <<>>
      BY <1>3 DEF Asked
    <2> QED BY <2>1, <1>3
  <1> QED BY <1>1, <1>2, <1>3

(* A request comes in. *)
LEMMA ReceiveKeepsInv ==
  ASSUME IInv, NEW r \in Request, NEW k \in Kind, NEW c \in ClusterId, Receive(r, k, c)
  PROVE  IInv'
  <1>1. PICK changes \in Asked(k) :
           job' = [job EXCEPT ![r] = [NoJob EXCEPT !.kind = k, !.id = c, !.changes = changes]]
    BY DEF Receive
  <1>2. changes \in Seq(Change) /\ (k \in {"spike", "pattern"} => changes # <<>>)
    BY AskedChanges
  <1> DEFINE new == [NoJob EXCEPT !.kind = k, !.id = c, !.changes = changes]
  <1>3. /\ new \in Job
        /\ new.kind = k /\ new.id = c /\ new.sim = None /\ new.changes = changes /\ ~new.over
    BY <1>2 DEF NoJob, Job
  <1>4. job' = [job EXCEPT ![r] = new]
    BY <1>1
  <1> HIDE DEF new
  <1>5. job'[r] = new /\ \A q \in Request \ {r} : job'[q] = job[q]
    BY <1>4 DEF IInv, TypeOK
  <1>6. First(k) \in {"getOrCreate", "list", "create", "delete", "lookup"}
        /\ (First(k) = "getOrCreate" => k = "metrics")
    BY DEF First, Kind
  <1>7. at'[r] = First(k) /\ \A q \in Request \ {r} : at'[q] = at[q]
    BY DEF IInv, TypeOK, Receive
  <1>8. TypeOK'
    BY <1>3, <1>4, <1>6 DEF IInv, TypeOK, Receive, clusterVars, Stage
  <1>9. JobsFit'
    BY <1>2, <1>3, <1>5, <1>6, <1>7 DEF IInv, JobsFit, InCluster, Reading
  <1>10. ReadersInside' /\ ReadersHeld' /\ OverStaysOver'
    <2>1. at[r] = "idle" /\ UNCHANGED <<readers, spike>>
      BY DEF Receive, clusterVars
    <2> QED BY <2>1, <1>5, <1>6, <1>7 DEF IInv, ReadersInside, ReadersHeld, OverStaysOver, Reading
  <1>11. SpikesReachable'
    <2>1. at[r] \notin InCluster /\ UNCHANGED <<table, spike>>
      BY DEF Receive, clusterVars, InCluster, Reading
    <2>2. job[r].sim = None
      BY <2>1 DEF IInv, JobsFit
    <2> QED BY <1>5, <2>1, <2>2, StillReachable
  <1> QED BY <1>8, <1>9, <1>10, <1>11 DEF IInv

(* Waiting for a lock, and the lookup that succeeds. *)
LEMMA WaitKeepsInv ==
  ASSUME IInv, NEW r \in Request, LockTable(r) \/ LockCluster(r)
  PROVE  IInv'
  <1> USE DEF IInv, LockTable, LockCluster, LockBegin, clusterVars
  <1>1. at[r] = "change" => job[r].sim \in Lock
    BY DEF JobsFit, InCluster, Lock
  <1>2. TypeOK'
    BY <1>1 DEF TypeOK
  <1>3. JobsFit' /\ ReadersInside' /\ ReadersHeld' /\ OverStaysOver' /\ SpikesReachable'
    BY DEF JobsFit, ReadersInside, ReadersHeld, OverStaysOver, SpikesReachable, Reachable
  <1> QED BY <1>2, <1>3

LEMMA LookupFoundKeepsInv ==
  ASSUME IInv, NEW r \in Request, LookupFound(r)
  PROVE  IInv'
  <1> USE DEF IInv, LookupFound, clusterVars
  <1>1. table[job[r].id] \in Sim
    BY DEF TypeOK, JobsFit
  <1>2. TypeOK'
    BY <1>1 DEF TypeOK, Stage, Job
  <1>3. JobsFit'
    BY <1>1 DEF TypeOK, Job, JobsFit, InCluster, Reading
  <1>4. ReadersInside' /\ ReadersHeld' /\ OverStaysOver'
    BY DEF TypeOK, Job, ReadersInside, ReadersHeld, OverStaysOver, Reading
  <1>5. SpikesReachable'
    <2>1. job[r].sim = None
      BY DEF JobsFit, InCluster, Reading
    <2>2. \A q \in Request \ {r} : job'[q] = job[q]
      BY DEF TypeOK
    <2> QED BY <2>1, <2>2, StillReachable
  <1> QED BY <1>2, <1>3, <1>4, <1>5

(* A request that knows its cluster enters it for reading, or goes on      *)
(* inside.                                                                 *)
LEMMA InsideKeepsInv ==
  ASSUME IInv, NEW r \in Request, at[r] \in InCluster,
         NEW x \in Reading, at' = [at EXCEPT ![r] = x],
         NEW o \in BOOLEAN, job' = [job EXCEPT ![r].over = o],
         \/ UNCHANGED readers /\ r \in readers[job[r].sim]
         \/ readers' = [readers EXCEPT ![job[r].sim] = @ \cup {r}],
         x = "level" /\ o => spike[job[r].sim] # "running",
         UNCHANGED <<table, clusterVars, writer>>
  PROVE  IInv'
  <1>1. job[r].sim \in Sim
    BY DEF IInv, JobsFit
  <1>2. /\ at'[r] = x /\ \A q \in Request \ {r} : at'[q] = at[q]
        /\ job'[r].sim = job[r].sim /\ job'[r].id = job[r].id /\ job'[r].over = o
        /\ \A q \in Request \ {r} : job'[q] = job[q]
        /\ job'[r] \in Job
    BY DEF IInv, TypeOK, Job
  <1>3. /\ readers' \in [Lock -> SUBSET Request]
        /\ r \in readers'[job[r].sim]
        /\ \A q \in Request, s \in Sim : q \in readers'[s] =>
              q \in readers[s] \/ (q = r /\ s = job[r].sim)
        /\ \A q \in Request, s \in Sim : q \in readers[s] => q \in readers'[s]
    BY <1>1 DEF IInv, TypeOK, Lock
  <1>4. TypeOK'
    <2>1. x \in Stage
      BY DEF Reading, Stage
    <2>2. job' \in [Request -> Job]
      BY <1>2 DEF IInv, TypeOK
    <2> QED BY <1>3, <2>1, <2>2 DEF IInv, TypeOK, clusterVars
  <1>5. JobsFit'
    BY <1>1, <1>2 DEF IInv, JobsFit, InCluster, Reading
  <1>6. ReadersInside' /\ ReadersHeld'
    BY <1>1, <1>2, <1>3 DEF IInv, ReadersInside, ReadersHeld, JobsFit, InCluster, Reading
  <1>7. OverStaysOver'
    BY <1>2 DEF IInv, OverStaysOver, clusterVars
  <1>8. SpikesReachable'
    BY <1>2, StillReachable DEF clusterVars
  <1> QED BY <1>4, <1>5, <1>6, <1>7, <1>8 DEF IInv

LEMMA ReadKeepsInv ==
  ASSUME IInv, NEW r \in Request,
         CollectBegin(r) \/ CheckSpike(r) \/ ReadElapsed(r)
            \/ StatusBegin(r) \/ StatusCheckSpike(r) \/ StatusReadSpike(r)
  PROVE  IInv'
  <1> DEFINE s == job[r].sim
             Moves(x, o) == at' = [at EXCEPT ![r] = x] /\ job' = [job EXCEPT ![r].over = o]
             Enters == readers' = [readers EXCEPT ![s] = @ \cup {r}]
             Stays == UNCHANGED readers /\ r \in readers[s]
  <1>1. at[r] \in InCluster /\ UNCHANGED <<table, clusterVars, writer>>
    BY DEF InCluster, Reading, CollectBegin, CheckSpike, ReadElapsed,
           StatusBegin, StatusCheckSpike, StatusReadSpike, clusterVars
  <1>2. job[r].over \in BOOLEAN /\ (UNCHANGED job => job' = [job EXCEPT ![r].over = job[r].over])
    BY DEF IInv, TypeOK, Job
  <1>3. at[r] \in Reading /\ UNCHANGED readers => Stays
    BY DEF IInv, ReadersHeld
  <1>4. PICK x \in Reading, o \in BOOLEAN :
           Moves(x, o) /\ (Enters \/ Stays) /\ (x = "level" /\ o => spike[s] # "running")
    <2>1. CASE CollectBegin(r)
      BY <2>1, <1>2 DEF CollectBegin, Reading
    <2>2. CASE StatusBegin(r)
      BY <2>2, <1>2 DEF StatusBegin, Reading
    <2>3. CASE CheckSpike(r) \/ StatusCheckSpike(r) \/ StatusReadSpike(r)
      BY <2>3, <1>2, <1>3 DEF CheckSpike, StatusCheckSpike, StatusReadSpike, Reading
    <2>4. CASE ReadElapsed(r)
      BY <2>4, <1>3 DEF ReadElapsed, Reading
    <2> QED BY <2>1, <2>2, <2>3, <2>4
  <1> QED BY <1>1, <1>4, InsideKeepsInv

LEMMA ListKeepsInv ==
  ASSUME IInv, NEW r \in Request, ListBegin(r) \/ ListVisit(r)
  PROVE  IInv'
  <1>1. /\ readers' \in [Lock -> SUBSET Request]
        /\ \A s \in Sim : readers'[s] = readers[s]
    BY NamesAssumption DEF IInv, TypeOK, Lock, ListBegin, ListVisit
  <1>2. PICK left \in SUBSET ClusterId : job' = [job EXCEPT ![r].left = left]
    <2>1. CASE ListBegin(r)
      BY <2>1 DEF ListBegin
    <2>2. CASE ListVisit(r)
      BY <2>2 DEF IInv, TypeOK, Job, ListVisit
    <2> QED BY <2>1, <2>2
  <1>3. /\ job'[r] \in Job /\ \A q \in Request \ {r} : job'[q] = job[q]
        /\ job'[r].id = job[r].id /\ job'[r].sim = job[r].sim
    BY <1>2 DEF IInv, TypeOK, Job
  <1>4. /\ at[r] \in {"list", "visit"} /\ at' = [at EXCEPT ![r] = "visit"]
        /\ UNCHANGED <<table, clusterVars, writer>>
    BY DEF IInv, TypeOK, ListBegin, ListVisit, clusterVars
  <1>5. at'[r] = "visit" /\ \A q \in Request \ {r} : at'[q] = at[q]
    BY <1>4 DEF IInv, TypeOK
  <1>6. TypeOK'
    BY <1>1, <1>2, <1>3, <1>4 DEF IInv, TypeOK, Stage, clusterVars
  <1>7. JobsFit'
    BY <1>3, <1>4, <1>5 DEF IInv, JobsFit, InCluster, Reading
  <1>8. ReadersInside' /\ ReadersHeld' /\ OverStaysOver'
    BY <1>1, <1>3, <1>4, <1>5
       DEF IInv, ReadersInside, ReadersHeld, OverStaysOver, JobsFit, InCluster, Reading,
           clusterVars
  <1>9. SpikesReachable'
    BY <1>3, <1>4, StillReachable DEF clusterVars
  <1> QED BY <1>6, <1>7, <1>8, <1>9 DEF IInv

(* A handler returns: it has let go of its lock, and the state of the      *)
(* clusters other requests are in is kept.                                 *)
LEMMA ReturnKeepsInv ==
  ASSUME IInv, NEW r \in Request, NEW t \in [ClusterId -> Sim \cup {None}], Return(r, t),
         readers' \in [Lock -> SUBSET Request], writer' \in [Lock -> Request \cup {None}],
         \A s \in Sim : readers'[s] = readers[s] \ {r}
  PROVE  /\ IInv'
         /\ \A s \in Sim : readers[s] \cap readers'[s] # {} =>
               servers'[s] = servers[s] /\ spike'[s] = spike[s]
         /\ \A s \in Sim : spike'[s] # spike[s] => s \notin Reachable(table, Request)'
  <1> DEFINE live == Reachable(t, Request \ {r})
  <1>1. /\ table' = t
        /\ servers' = Kept(servers, live, 0) /\ spike' = Kept(spike, live, "none")
        /\ at' = [at EXCEPT ![r] = "idle"] /\ job' = [job EXCEPT ![r] = NoJob]
    BY DEF Return
  <1>2. /\ at'[r] = "idle" /\ \A q \in Request \ {r} : at'[q] = at[q]
        /\ job'[r] = NoJob /\ job'[r].sim = None
        /\ \A q \in Request \ {r} : job'[q] = job[q]
    BY <1>1 DEF IInv, TypeOK, NoJob
  <1>3. \A s \in live : s \in Sim => servers'[s] = servers[s] /\ spike'[s] = spike[s]
    BY <1>1 DEF Kept
  <1>4. \A q \in Request \ {r} : job[q].sim \in live
    BY DEF Reachable
  <1>5. TypeOK'
    <2>1. servers' \in [Sim -> 0..ServerLimit] /\ spike' \in [Sim -> {"none", "running", "over"}]
      BY <1>1, NamesAssumption DEF IInv, TypeOK, Kept
    <2>2. NoJob \in Job
      BY DEF NoJob, Job
    <2> QED BY <1>1, <2>1, <2>2 DEF IInv, TypeOK, Stage
  <1>6. JobsFit'
    BY <1>2 DEF IInv, JobsFit, InCluster, Reading
  <1>7. ReadersInside' /\ ReadersHeld'
    BY <1>2 DEF IInv, ReadersInside, ReadersHeld, JobsFit, InCluster, Reading
  <1>8. OverStaysOver'
    <2> SUFFICES ASSUME NEW q \in Request, at'[q] = "level", job'[q].over
                 PROVE  spike'[job'[q].sim] # "running"
      BY DEF OverStaysOver
    <2>1. q # r /\ at[q] = "level" /\ job'[q] = job[q]
      BY <1>2
    <2>2. job[q].sim \in Sim /\ spike[job[q].sim] # "running"
      BY <2>1 DEF IInv, OverStaysOver, JobsFit, InCluster, Reading
    <2> QED BY <1>3, <1>4, <2>1, <2>2
  <1>9. ASSUME NEW s \in Sim, readers[s] \cap readers'[s] # {}
        PROVE  servers'[s] = servers[s] /\ spike'[s] = spike[s]
    <2>1. PICK q \in Request \ {r} : q \in readers[s]
      BY <1>9 DEF IInv, TypeOK, Lock
    <2>2. job[q].sim = s
      BY <2>1 DEF IInv, ReadersInside
    <2> QED BY <1>3, <1>4, <2>1, <2>2
  <1>10. ASSUME NEW s \in Sim, spike'[s] # spike[s]
         PROVE  s \notin Reachable(table, Request)'
    <2>1. s \notin live
      BY <1>3, <1>10
    <2>2. job'[r].sim \notin Sim
      BY <1>2, NamesAssumption DEF NoJob
    <2> QED BY <1>1, <1>2, <2>1, <2>2 DEF Reachable
  <1>11. SpikesReachable'
    <2> SUFFICES ASSUME NEW s \in Sim, spike'[s] # "none"
                 PROVE  s \in Reachable(table, Request)'
      BY DEF SpikesReachable
    <2>1. s \in live
      BY <1>1 DEF Kept
    <2> QED BY <1>1, <1>2, <2>1 DEF Reachable
  <1> QED BY <1>5, <1>6, <1>7, <1>8, <1>9, <1>10, <1>11 DEF IInv

(* The actions that end with Return. *)
LEMMA ReturnsKeepInv ==
  ASSUME IInv, NEW r \in Request,
         \/ LookupMissing(r) /\ at'[r] = "idle"
         \/ DeleteCluster(r) \/ ConfirmChange(r) \/ Report(r) \/ StatusEnd(r) \/ Panic(r)
         \/ ListEnd(r)
  PROVE  /\ IInv'
         /\ \A s \in Sim : readers[s] \cap readers'[s] # {} =>
               servers'[s] = servers[s] /\ spike'[s] = spike[s]
         /\ \A s \in Sim : spike'[s] # spike[s] => s \notin Reachable(table, Request)'
         /\ readers[Table] \cap readers'[Table] # {} => table' = table
  <1>1. table \in [ClusterId -> Sim \cup {None}]
    BY DEF IInv, TypeOK
  <1>2. \A s \in Sim : r \in readers[s] => at[r] \in Reading /\ job[r].sim = s
    BY DEF IInv, ReadersInside
  <1>3. CASE \/ LookupMissing(r) /\ at'[r] = "idle"
             \/ ConfirmChange(r)
    <2>1. at[r] \notin Reading /\ Return(r, table) /\ UNCHANGED <<readers, writer>>
      BY <1>3 DEF LookupMissing, ConfirmChange, Reading, IInv, TypeOK
    <2>2. \A s \in Sim : readers'[s] = readers[s] \ {r}
      BY <1>2, <2>1 DEF IInv, TypeOK, Lock
    <2> QED BY <1>1, <2>1, <2>2, ReturnKeepsInv DEF IInv, TypeOK, Return
  <1>4. CASE DeleteCluster(r)
    <2> DEFINE t == [table EXCEPT ![job[r].id] = None]
    <2>1. at[r] \notin Reading /\ Return(r, t) /\ UNCHANGED readers /\ readers[Table] = {}
      BY <1>4 DEF DeleteCluster, Reading, MayWrite
    <2>2. t \in [ClusterId -> Sim \cup {None}]
      BY <1>1
    <2>3. writer' \in [Lock -> Request \cup {None}]
      BY <1>4 DEF DeleteCluster, Unlock, IInv, TypeOK
    <2>4. \A s \in Sim : readers'[s] = readers[s] \ {r}
      BY <1>2, <2>1 DEF IInv, TypeOK, Lock
    <2>5. readers' \in [Lock -> SUBSET Request]
      BY <2>1 DEF IInv, TypeOK
    <2> QED BY <2>1, <2>2, <2>3, <2>4, <2>5, ReturnKeepsInv
  <1>5. CASE Report(r) \/ StatusEnd(r) \/ Panic(r)
    <2>1. /\ Return(r, table) /\ UNCHANGED writer
          /\ readers' = [readers EXCEPT ![job[r].sim] = @ \ {r}]
      BY <1>5 DEF Report, StatusEnd, Panic
    <2>2. job[r].sim \in Sim
      BY <1>5 DEF IInv, JobsFit, InCluster, Reading, Report, StatusEnd, Panic
    <2>3. /\ readers' \in [Lock -> SUBSET Request]
          /\ \A s \in Sim : readers'[s] = readers[s] \ {r}
      BY <1>2, <2>1, <2>2 DEF IInv, TypeOK, Lock
    <2> QED BY <1>1, <2>1, <2>3, ReturnKeepsInv DEF IInv, TypeOK, Return
  <1>6. CASE ListEnd(r)
    <2>1. /\ Return(r, table) /\ UNCHANGED writer /\ at[r] \notin Reading
          /\ readers' = [readers EXCEPT ![Table] = @ \ {r}]
      BY <1>6 DEF ListEnd, Reading
    <2>2. /\ readers' \in [Lock -> SUBSET Request]
          /\ \A s \in Sim : readers'[s] = readers[s] \ {r}
      BY <1>2, <2>1, NamesAssumption DEF IInv, TypeOK, Lock
    <2> QED BY <1>1, <2>1, <2>2, ReturnKeepsInv DEF IInv, TypeOK, Return
  <1> QED BY <1>3, <1>4, <1>5, <1>6

(* A handler stores a new cluster under its name. *)
LEMMA NewClusterKeepsInv ==
  ASSUME IInv, NEW r \in Request, NEW n \in 1..ServerLimit, NewClusterSim(r, n),
         at[r] \in {"getOrCreate", "create"}, NEW x \in {"collect", "change", "status"},
         at' = [at EXCEPT ![r] = x], x = "change" => job[r].changes # <<>>,
         UNCHANGED readers, writer' \in [Lock -> Request \cup {None}]
  PROVE  /\ IInv'
         /\ \A s \in Sim : readers[s] \cap readers'[s] # {} =>
               servers'[s] = servers[s] /\ spike'[s] = spike[s]
         /\ \A s \in Sim : spike'[s] # spike[s] => s \notin Reachable(table, Request)'
  <1> DEFINE free == Sim \ Reachable(table, Request)
             new == CHOOSE s \in free : TRUE
             t == [table EXCEPT ![job[r].id] = new]
             live == Reachable(t, Request)
  <1>1. new \in free
    BY DEF NewClusterSim
  <1>2. /\ table' = t /\ job' = [job EXCEPT ![r].sim = new]
        /\ servers' = [Kept(servers, live, 0) EXCEPT ![new] = n]
        /\ spike' = Kept(spike, live \ {new}, "none")
    BY DEF NewClusterSim
  <1> HIDE DEF new
  <1>3. job[r].id \in ClusterId /\ job[r].sim = None
    BY DEF IInv, JobsFit, InCluster, Reading
  <1>4. /\ at'[r] = x /\ \A q \in Request \ {r} : at'[q] = at[q]
        /\ job'[r].sim = new /\ job'[r].id = job[r].id /\ job'[r].changes = job[r].changes
        /\ job'[r] \in Job /\ \A q \in Request \ {r} : job'[q] = job[q]
    BY <1>1, <1>2 DEF IInv, TypeOK, Job
  <1>5. /\ t \in [ClusterId -> Sim \cup {None}] /\ t[job[r].id] = new
        /\ \A c \in ClusterId : c # job[r].id => t[c] = table[c]
    BY <1>1, <1>3 DEF IInv, TypeOK
  <1>6. /\ servers' \in [Sim -> 0..ServerLimit]
        /\ spike' \in [Sim -> {"none", "running", "over"}]
        /\ \A s \in live \ {new} : s \in Sim => servers'[s] = servers[s] /\ spike'[s] = spike[s]
        /\ \A s \in Sim : spike'[s] # "none" => s \in live
    <2> HIDE DEF live
    <2>1. n \in 0..ServerLimit /\ 0 \in 0..ServerLimit
      BY NamesAssumption
    <2>2. Kept(servers, live, 0) \in [Sim -> 0..ServerLimit]
      BY <2>1 DEF IInv, TypeOK, Kept
    <2>3. /\ servers' \in [Sim -> 0..ServerLimit]
          /\ \A s \in live \ {new} : s \in Sim => servers'[s] = servers[s]
      BY <1>1, <1>2, <2>1, <2>2 DEF Kept
    <2>4. /\ spike' \in [Sim -> {"none", "running", "over"}]
          /\ \A s \in live \ {new} : s \in Sim => spike'[s] = spike[s]
          /\ \A s \in Sim : spike'[s] # "none" => s \in live
      BY <1>2 DEF IInv, TypeOK, Kept
    <2> QED BY <2>3, <2>4
  <1>7. \A q \in Request : job[q].sim \in live /\ job[q].sim # new
    BY <1>1 DEF Reachable
  <1>8. TypeOK'
    BY <1>2, <1>4, <1>5, <1>6 DEF IInv, TypeOK, Stage
  <1>9. JobsFit'
    BY <1>1, <1>4 DEF IInv, JobsFit, InCluster, Reading
  <1>10. ReadersInside' /\ ReadersHeld'
    BY <1>4 DEF IInv, ReadersInside, ReadersHeld, Reading
  <1>11. OverStaysOver'
    <2> SUFFICES ASSUME NEW q \in Request, at'[q] = "level", job'[q].over
                 PROVE  spike'[job'[q].sim] # "running"
      BY DEF OverStaysOver
    <2>1. q # r /\ at[q] = "level" /\ job'[q] = job[q]
      BY <1>4
    <2>2. job[q].sim \in Sim /\ spike[job[q].sim] # "running"
      BY <2>1 DEF IInv, OverStaysOver, JobsFit, InCluster, Reading
    <2> QED BY <1>6, <1>7, <2>1, <2>2
  <1>12. SpikesReachable'
    <2> SUFFICES ASSUME NEW s \in live PROVE s \in Reachable(table, Request)' \/ s = None
      BY <1>6, NamesAssumption DEF SpikesReachable
    <2> QED BY <1>2, <1>3, <1>4 DEF Reachable
  <1>13. ASSUME NEW s \in Sim, readers[s] \cap readers'[s] # {}
         PROVE  servers'[s] = servers[s] /\ spike'[s] = spike[s]
    <2>1. PICK q \in Request : q \in readers[s]
      BY <1>13 DEF IInv, TypeOK, Lock
    <2>2. job[q].sim = s
      BY <2>1 DEF IInv, ReadersInside
    <2> QED BY <1>6, <1>7, <2>2
  <1>14. ASSUME NEW s \in Sim, spike'[s] # spike[s]
         PROVE  s \notin Reachable(table, Request)'
    <2>1. s # new
      BY <1>1, <1>2, <1>14 DEF IInv, SpikesReachable, Kept
    <2>2. s \notin live
      BY <1>6, <1>14, <2>1
    <2> QED BY <1>2, <1>4, <2>1, <2>2 DEF Reachable
  <1> QED BY <1>8, <1>9, <1>10, <1>11, <1>12, <1>13, <1>14 DEF IInv

LEMMA StoreKeepsInv ==
  ASSUME IInv, NEW r \in Request, GetOrCreateCluster(r) \/ CreateCluster(r)
  PROVE  /\ IInv'
         /\ \A s \in Sim : readers[s] \cap readers'[s] # {} =>
               servers'[s] = servers[s] /\ spike'[s] = spike[s]
         /\ \A s \in Sim : spike'[s] # spike[s] => s \notin Reachable(table, Request)'
         /\ readers[Table] \cap readers'[Table] # {} => table' = table
  <1>1. /\ at[r] \in {"getOrCreate", "create"} /\ UNCHANGED readers /\ readers[Table] = {}
        /\ writer' \in [Lock -> Request \cup {None}]
    BY DEF GetOrCreateCluster, CreateCluster, MayWrite, Unlock, IInv, TypeOK
  <1>2. CASE CreateCluster(r)
    <2>1. PICK n \in 1..ServerLimit : NewClusterSim(r, n)
      BY <1>2 DEF CreateCluster
    <2>2. at' = [at EXCEPT ![r] = "status"]
      BY <1>2 DEF CreateCluster
    <2> QED BY <1>1, <2>1, <2>2, NewClusterKeepsInv
  <1> DEFINE x == IF job[r].kind = "metrics" THEN "collect" ELSE "change"
  <1>3. ASSUME GetOrCreateCluster(r)
        PROVE  at' = [at EXCEPT ![r] = x] /\ (x = "change" => job[r].changes # <<>>)
    BY <1>3 DEF GetOrCreateCluster, IInv, JobsFit
  <1>4. CASE GetOrCreateCluster(r) /\ table[job[r].id] = None
    <2>1. NewClusterSim(r, DefaultServers)
      BY <1>4 DEF GetOrCreateCluster
    <2> QED BY <1>1, <1>3, <1>4, <2>1, NewClusterKeepsInv, NamesAssumption
  <1>5. CASE GetOrCreateCluster(r) /\ table[job[r].id] # None
    <2>1. job' = [job EXCEPT ![r].sim = table[job[r].id]] /\ UNCHANGED <<table, clusterVars>>
      BY <1>5 DEF GetOrCreateCluster
    <2>2. job[r].sim = None /\ table[job[r].id] \in Sim
      BY <1>1, <1>5 DEF IInv, TypeOK, JobsFit, InCluster, Reading
    <2>3. /\ at'[r] = x /\ \A q \in Request \ {r} : at'[q] = at[q]
          /\ job'[r].sim \in Sim /\ job'[r].id = job[r].id /\ job'[r].changes = job[r].changes
          /\ job'[r] \in Job /\ \A q \in Request \ {r} : job'[q] = job[q]
      <3>1. at'[r] = x /\ \A q \in Request \ {r} : at'[q] = at[q]
        BY <1>3, <1>5 DEF IInv, TypeOK
      <3>2. job[r] \in Job /\ job'[r] = [job[r] EXCEPT !.sim = table[job[r].id]]
        BY <2>1 DEF IInv, TypeOK
      <3>3. /\ job'[r].sim \in Sim /\ job'[r].id = job[r].id
            /\ job'[r].changes = job[r].changes /\ job'[r] \in Job
        BY <2>2, <3>2 DEF Job
      <3>4. \A q \in Request \ {r} : job'[q] = job[q]
        BY <2>1 DEF IInv, TypeOK
      <3> QED BY <3>1, <3>3, <3>4
    <2>4. TypeOK'
      <3>1. at' \in [Request -> Stage]
        BY <1>3, <1>5 DEF IInv, TypeOK, Stage
      <3>2. job' \in [Request -> Job]
        BY <2>1, <2>3 DEF IInv, TypeOK
      <3> QED BY <1>1, <2>1, <3>1, <3>2 DEF IInv, TypeOK, clusterVars
    <2>5. JobsFit'
      BY <1>1, <1>3, <1>5, <2>3 DEF IInv, JobsFit, InCluster, Reading
    <2>6. ReadersInside' /\ ReadersHeld' /\ OverStaysOver'
      BY <1>1, <2>1, <2>3
         DEF IInv, ReadersInside, ReadersHeld, OverStaysOver, Reading, clusterVars
    <2>7. SpikesReachable'
      BY <2>1, <2>2, <2>3, StillReachable DEF clusterVars
    <2> QED BY <2>1, <2>4, <2>5, <2>6, <2>7 DEF IInv, clusterVars
  <1> QED BY <1>2, <1>4, <1>5

(* A setter works on a cluster nobody reads. *)
LEMMA ChangeKeepsInv ==
  ASSUME IInv, NEW r \in Request, ChangeCluster(r)
  PROVE  /\ IInv'
         /\ \A s \in Sim : readers[s] \cap readers'[s] # {} =>
               servers'[s] = servers[s] /\ spike'[s] = spike[s]
         /\ \A s \in Sim : spike[s] = "running" => spike'[s] # "none"
         /\ UNCHANGED table
  <1> DEFINE sim == job[r].sim
             rest == Tail(job[r].changes)
  <1>1. PICK x \in {"change", "status", "changed"} :
           at' = [at EXCEPT ![r] = x] /\ (x = "change" => rest # <<>>)
    BY DEF ChangeCluster
  <1>2. /\ at[r] = "change" /\ sim \in Sim /\ readers[sim] = {}
        /\ UNCHANGED <<table, readers>>
    BY DEF ChangeCluster, MayWrite, IInv, JobsFit, InCluster
  <1>3. job' = [job EXCEPT ![r].changes = rest]
    BY DEF ChangeCluster
  <1>4. rest \in Seq(Change)
    <2>1. job[r].changes \in Seq(Change) /\ job[r].changes # <<>>
      BY <1>2 DEF IInv, TypeOK, Job, JobsFit
    <2> QED BY <2>1
  <1> HIDE DEF rest
  <1>5. job[r] \in Job /\ job'[r] = [job[r] EXCEPT !.changes = rest]
        /\ \A q \in Request \ {r} : job'[q] = job[q]
    BY <1>3 DEF IInv, TypeOK
  <1>6. /\ job'[r] \in Job /\ job'[r].changes = rest
        /\ job'[r].id = job[r].id /\ job'[r].sim = job[r].sim /\ job'[r].kind = job[r].kind
    BY <1>4, <1>5 DEF Job
  <1>7. at'[r] = x /\ \A q \in Request \ {r} : at'[q] = at[q]
    BY <1>1 DEF IInv, TypeOK
  <1>8. /\ spike' \in [Sim -> {"none", "running", "over"}]
        /\ \A s \in Sim : s # sim => servers'[s] = servers[s] /\ spike'[s] = spike[s]
        /\ spike'[sim] \in {"running", spike[sim]}
    BY <1>2 DEF ChangeCluster, ApplyChange, IInv, TypeOK
  <1>9. servers' \in [Sim -> 0..ServerLimit]
    <2>1. servers[sim] \in 0..ServerLimit /\ ServerLimit \in Nat
      BY <1>2, NamesAssumption DEF IInv, TypeOK
    <2>2. Saturated(servers[sim] + 1) \in 0..ServerLimit
      BY <2>1 DEF Saturated
    <2>3. (IF servers[sim] = 0 THEN 0 ELSE servers[sim] - 1) \in 0..ServerLimit
      BY <2>1
    <2>4. PICK n \in 0..ServerLimit : servers' = [servers EXCEPT ![sim] = n]
      BY <1>2, <2>1, <2>2, <2>3 DEF ChangeCluster, ApplyChange, IInv, TypeOK
    <2> QED BY <1>2, <2>4 DEF IInv, TypeOK
  <1>10. TypeOK'
    <2>1. writer' \in [Lock -> Request \cup {None}]
      BY DEF ChangeCluster, Unlock, IInv, TypeOK
    <2>2. at' \in [Request -> Stage]
      BY <1>1 DEF IInv, TypeOK, Stage
    <2>3. job' \in [Request -> Job]
      BY <1>3, <1>6 DEF IInv, TypeOK
    <2> QED BY <1>2, <1>8, <1>9, <2>1, <2>2, <2>3 DEF IInv, TypeOK
  <1>11. JobsFit'
    <2>1. job[r].id \in ClusterId /\ (at'[r] = "change" => rest # <<>>)
          /\ at'[r] \in {"change", "status", "changed"}
      BY <1>1, <1>2, <1>7 DEF IInv, JobsFit
    <2> SUFFICES ASSUME NEW q \in Request
                 PROVE  /\ at'[q] # "idle" => job'[q].id \in ClusterId
                        /\ IF at'[q] \in InCluster
                             THEN job'[q].sim \in Sim ELSE job'[q].sim = None
                        /\ at'[q] = "change" => job'[q].changes # <<>>
                        /\ at'[q] = "getOrCreate" =>
                              job'[q].kind = "metrics" \/ job'[q].changes # <<>>
                        /\ at'[q] = "lookup" /\ job'[q].kind \in {"spike", "pattern"} =>
                              job'[q].changes # <<>>
      BY DEF JobsFit
    <2>2. CASE q = r
      BY <1>2, <1>6, <2>1, <2>2 DEF InCluster
    <2>3. CASE q # r
      BY <1>5, <1>7, <2>3 DEF IInv, JobsFit
    <2> QED BY <2>2, <2>3
  <1>12. ReadersInside' /\ ReadersHeld'
    BY <1>2, <1>5, <1>7 DEF IInv, ReadersInside, ReadersHeld, Reading
  <1>13. OverStaysOver'
    <2> SUFFICES ASSUME NEW q \in Request, at'[q] = "level", job'[q].over
                 PROVE  spike'[job'[q].sim] # "running"
      BY DEF OverStaysOver
    <2>1. q # r /\ at[q] = "level" /\ job'[q] = job[q]
      BY <1>5, <1>7
    <2>2. job[q].sim \in Sim /\ q \in readers[job[q].sim] /\ spike[job[q].sim] # "running"
      BY <2>1 DEF IInv, OverStaysOver, JobsFit, InCluster, ReadersHeld, Reading
    <2>3. job[q].sim # sim
      BY <1>2, <2>2
    <2> QED BY <1>8, <2>1, <2>2, <2>3
  <1>14. SpikesReachable'
    <2>1. sim \in Reachable(table, Request)
      BY DEF Reachable
    <2> QED BY <1>2, <1>5, <1>6, <1>8, <2>1, StillReachable
  <1> QED BY <1>2, <1>8, <1>10, <1>11, <1>12, <1>13, <1>14 DEF IInv

(* A spike's time passes. *)
LEMMA SpikeElapsesKeepsInv ==
  ASSUME IInv, NEW s \in Sim, SpikeElapses(s)
  PROVE  IInv'
  <1>1. /\ spike' = [spike EXCEPT ![s] = "over"] /\ spike[s] = "running"
        /\ UNCHANGED <<table, servers, readers, writer, at, job>>
    BY DEF SpikeElapses
  <1>2. spike'[s] = "over" /\ \A x \in Sim \ {s} : spike'[x] = spike[x]
    BY <1>1 DEF IInv, TypeOK
  <1>3. TypeOK'
    BY <1>1 DEF IInv, TypeOK
  <1>4. JobsFit' /\ ReadersInside' /\ ReadersHeld'
    BY <1>1 DEF IInv, JobsFit, ReadersInside, ReadersHeld
  <1>5. OverStaysOver'
    BY <1>1, <1>2 DEF IInv, OverStaysOver, JobsFit, InCluster, Reading
  <1>6. SpikesReachable'
    BY <1>1, <1>2, StillReachable
  <1> QED BY <1>3, <1>4, <1>5, <1>6 DEF IInv

(* The spike that a collection found to be over is cleared: it is not one  *)
(* that runs.                                                              *)
LEMMA ApplySpikeKeepsInv ==
  ASSUME IInv, NEW r \in Request, ApplySpike(r)
  PROVE  /\ IInv'
         /\ UNCHANGED <<table, servers>>
         /\ \A s \in Sim : /\ spike'[s] \in {spike[s], "none"}
                           /\ spike[s] = "running" => spike'[s] = "running"
  <1> DEFINE sim == job[r].sim
  <1>1. /\ at[r] = "level" /\ at' = [at EXCEPT ![r] = "report"]
        /\ job' = [job EXCEPT ![r].over = FALSE]
        /\ UNCHANGED <<table, servers, readers, writer>>
    BY DEF ApplySpike
  <1>2. sim \in Sim /\ (job[r].over => spike[sim] # "running")
    BY <1>1 DEF IInv, JobsFit, InCluster, Reading, OverStaysOver
  <1>3. /\ spike' \in [Sim -> {"none", "running", "over"}]
        /\ \A s \in Sim : /\ spike'[s] \in {spike[s], "none"}
                          /\ spike[s] = "running" => spike'[s] = "running"
    BY <1>2 DEF ApplySpike, IInv, TypeOK
  <1>4. job[r] \in Job /\ job'[r] = [job[r] EXCEPT !.over = FALSE]
        /\ \A q \in Request \ {r} : job'[q] = job[q]
    BY <1>1 DEF IInv, TypeOK
  <1>5. job'[r] \in Job /\ job'[r].id = job[r].id /\ job'[r].sim = sim
    BY <1>4 DEF Job
  <1>6. at'[r] = "report" /\ \A q \in Request \ {r} : at'[q] = at[q]
    BY <1>1 DEF IInv, TypeOK
  <1>7. TypeOK'
    <2>1. at' \in [Request -> Stage] /\ job' \in [Request -> Job]
      BY <1>1, <1>5 DEF IInv, TypeOK, Stage
    <2> QED BY <1>1, <1>3, <2>1 DEF IInv, TypeOK
  <1>8. JobsFit'
    BY <1>1, <1>2, <1>4, <1>5, <1>6 DEF IInv, JobsFit, InCluster, Reading
  <1>9. ReadersInside' /\ ReadersHeld'
    BY <1>1, <1>4, <1>5, <1>6 DEF IInv, ReadersInside, ReadersHeld, Reading
  <1>10. OverStaysOver'
    <2> SUFFICES ASSUME NEW q \in Request, at'[q] = "level", job'[q].over
                 PROVE  spike'[job'[q].sim] # "running"
      BY DEF OverStaysOver
    <2>1. q # r /\ at[q] = "level" /\ job'[q] = job[q]
      BY <1>4, <1>6
    <2>2. job[q].sim \in Sim /\ spike[job[q].sim] # "running"
      BY <2>1 DEF IInv, OverStaysOver, JobsFit, InCluster, Reading
    <2> QED BY <1>3, <2>1, <2>2
  <1>11. SpikesReachable'
    BY <1>1, <1>3, <1>4, <1>5, StillReachable
  <1> QED BY <1>1, <1>3, <1>7, <1>8, <1>9, <1>10, <1>11 DEF IInv

(* A spike or a pattern for a cluster that is not there goes on to create  *)
(* it.                                                                     *)
LEMMA LookupMissingKeepsInv ==
  ASSUME IInv, NEW r \in Request, LookupMissing(r), at'[r] # "idle"
  PROVE  IInv' /\ UNCHANGED <<table, clusterVars>>
  <1>1. /\ at[r] = "lookup" /\ job[r].kind \in {"spike", "pattern"}
        /\ at' = [at EXCEPT ![r] = "getOrCreate"]
        /\ UNCHANGED <<table, clusterVars, readers, writer, job>>
    BY DEF LookupMissing, Return, IInv, TypeOK
  <1>2. at'[r] = "getOrCreate" /\ \A q \in Request \ {r} : at'[q] = at[q]
    BY <1>1 DEF IInv, TypeOK
  <1>3. TypeOK'
    BY <1>1 DEF IInv, TypeOK, Stage, clusterVars
  <1>4. JobsFit'
    BY <1>1, <1>2 DEF IInv, JobsFit, InCluster, Reading
  <1>5. ReadersInside' /\ ReadersHeld' /\ OverStaysOver'
    BY <1>1, <1>2 DEF IInv, ReadersInside, ReadersHeld, OverStaysOver, Reading, clusterVars
  <1>6. SpikesReachable'
    BY <1>1, StillReachable DEF clusterVars
  <1> QED BY <1>1, <1>3, <1>4, <1>5, <1>6 DEF IInv

-----------------------------------------------------------------------------
(* What any step keeps. *)

(* A step of a handler: its invariant, and what it may do to a cluster.    *)
LEMMA HandleKeepsInv ==
  ASSUME IInv, NEW r \in Request, Handle(r)
  PROVE  /\ IInv'
         /\ \A s \in Sim : readers[s] \cap readers'[s] # {} =>
               servers'[s] = servers[s] /\ spike'[s] \in {spike[s], "none"}
         /\ \A s \in Sim : spike[s] = "running" /\ spike'[s] = "none" =>
               s \notin Reachable(table, Request)'
         /\ readers[Table] \cap readers'[Table] # {} => table' = table
  <1>1. CASE LockTable(r) \/ LockCluster(r)
    <2>1. UNCHANGED <<table, clusterVars>>
      BY <1>1 DEF LockTable, LockCluster, LockBegin
    <2> QED BY <1>1, <2>1, WaitKeepsInv DEF clusterVars
  <1>2. CASE LookupFound(r)
    <2>1. UNCHANGED <<table, clusterVars>>
      BY <1>2 DEF LookupFound
    <2> QED BY <1>2, <2>1, LookupFoundKeepsInv DEF clusterVars
  <1>3. CASE LookupMissing(r) /\ at'[r] # "idle"
    BY <1>3, LookupMissingKeepsInv DEF clusterVars
  <1>4. CASE \/ LookupMissing(r) /\ at'[r] = "idle"
             \/ DeleteCluster(r) \/ ConfirmChange(r) \/ Report(r) \/ StatusEnd(r) \/ Panic(r)
             \/ ListEnd(r)
    BY <1>4, ReturnsKeepInv
  <1>5. CASE GetOrCreateCluster(r) \/ CreateCluster(r)
    BY <1>5, StoreKeepsInv
  <1>6. CASE ChangeCluster(r)
    BY <1>6, ChangeKeepsInv
  <1>7. CASE CollectBegin(r) \/ CheckSpike(r) \/ ReadElapsed(r)
                \/ StatusBegin(r) \/ StatusCheckSpike(r) \/ StatusReadSpike(r)
    <2>1. UNCHANGED <<table, clusterVars>>
      BY <1>7 DEF CollectBegin, CheckSpike, ReadElapsed,
                  StatusBegin, StatusCheckSpike, StatusReadSpike
    <2> QED BY <1>7, <2>1, ReadKeepsInv DEF clusterVars
  <1>8. CASE ApplySpike(r)
    BY <1>8, ApplySpikeKeepsInv
  <1>9. CASE ListBegin(r) \/ ListVisit(r)
    <2>1. UNCHANGED <<table, clusterVars>>
      BY <1>9 DEF ListBegin, ListVisit
    <2> QED BY <1>9, <2>1, ListKeepsInv DEF clusterVars
  <1> QED BY <1>1, <1>2, <1>3, <1>4, <1>5, <1>6, <1>7, <1>8, <1>9 DEF Handle

LEMMA NextIInv == IInv /\ [Next]_vars => IInv'
  <1> SUFFICES ASSUME IInv, [Next]_vars PROVE IInv'
    OBVIOUS
  <1>1. CASE UNCHANGED vars
    BY <1>1 DEF IInv, TypeOK, JobsFit, ReadersInside, ReadersHeld, OverStaysOver,
                SpikesReachable, Reachable, vars, clusterVars
  <1>2. CASE \E r \in Request, k \in Kind, c \in ClusterId : Receive(r, k, c)
    BY <1>2, ReceiveKeepsInv
  <1>3. CASE \E r \in Request : Handle(r)
    BY <1>3, HandleKeepsInv
  <1>4. CASE \E s \in Sim : SpikeElapses(s)
    BY <1>4, SpikeElapsesKeepsInv
  <1> QED BY <1>1, <1>2, <1>3, <1>4 DEF Next

(* The inductive invariant holds in every state. *)
THEOREM SimulatorInvariant == Spec => []IInv
  <1> QED BY InitIInv, NextIInv, PTL DEF Spec

(* Every variable of the simulator keeps its type: in particular a lock is *)
(* read and written by requests only, and a request inside a handler       *)
(* carries what that handler needs.                                        *)
THEOREM SimulatorTypeCorrect == Spec => []TypeOK
  <1>1. IInv => TypeOK
    BY DEF IInv
  <1> QED BY <1>1, SimulatorInvariant, PTL

(* What a read section of CollectMetrics, Status or the listing covers     *)
(* does not change under it, whatever the other handlers do: no setter     *)
(* that runs leaves the write lock out, and an object is not used again    *)
(* while a request holds it.                                               *)
THEOREM ReadersSeeOneStateHolds == Spec => ReadersSeeOneState
  <1> DEFINE Stays(s) ==
         readers[s] \cap readers'[s] # {} =>
             /\ servers'[s] = servers[s]
             /\ spike'[s] = "running" => spike[s] = "running"
      A == (\A s \in Sim : Stays(s))
              /\ (readers[Table] \cap readers'[Table] # {} => table' = table)
  <1>1. ASSUME IInv, [Next]_vars PROVE A \/ UNCHANGED vars
    <2>1. CASE \E r \in Request, k \in Kind, c \in ClusterId : Receive(r, k, c)
      BY <2>1 DEF Receive, clusterVars
    <2>2. CASE \E r \in Request : Handle(r)
      BY <1>1, <2>2, HandleKeepsInv
    <2>3. CASE \E s \in Sim : SpikeElapses(s)
      BY <1>1, <2>3 DEF SpikeElapses, IInv, TypeOK
    <2> QED BY <1>1, <2>1, <2>2, <2>3 DEF Next
  <1> QED BY <1>1, SimulatorInvariant, PTL DEF Spec, ReadersSeeOneState

(* CollectMetrics decides that a spike is over while it holds no more than *)
(* the read lock, and clears it later: what it then clears is never a      *)
(* spike that still runs.                                                  *)
THEOREM RunningSpikeKeptHolds == Spec => RunningSpikeKept
  <1> DEFINE A == \A s \in Sim : spike[s] = "running" /\ spike'[s] = "none" =>
                     s \notin Reachable(table, Request)'
  <1>1. ASSUME IInv, [Next]_vars PROVE A \/ UNCHANGED vars
    <2>1. CASE \E r \in Request, k \in Kind, c \in ClusterId : Receive(r, k, c)
      BY <2>1 DEF Receive, clusterVars
    <2>2. CASE \E r \in Request : Handle(r)
      BY <1>1, <2>2, HandleKeepsInv
    <2>3. CASE \E s \in Sim : SpikeElapses(s)
      BY <1>1, <2>3 DEF SpikeElapses, IInv, TypeOK
    <2> QED BY <1>1, <2>1, <2>2, <2>3 DEF Next
  <1> QED BY <1>1, SimulatorInvariant, PTL DEF Spec, RunningSpikeKept

-----------------------------------------------------------------------------
(* The locks. *)

TableWriting == {"getOrCreate", "create", "delete"}

(* Who waits for a lock or holds it for writing is where that is done.     *)
WritersInside ==
    \A r \in Request, l \in Lock : writer[l] = r =>
        IF l = Table THEN at[r] \in TableWriting ELSE at[r] = "change" /\ job[r].sim = l

(* The table is read across steps by the listings only, and the clusters a *)
(* listing has still to visit are in the table.                            *)
ListingsHold ==
    \A r \in Request :
        /\ r \in readers[Table] <=> at[r] = "visit"
        /\ at[r] = "visit" => \A c \in job[r].left : table[c] # None

LockInv == WritersInside /\ ListingsHold

LEMMA InitLockInv == Init => LockInv
  BY NamesAssumption DEF Init, LockInv, WritersInside, ListingsHold, Lock

(* A step of one request that leaves its locks and those of the others in  *)
(* order.                                                                  *)
LEMMA LocksKept ==
  ASSUME IInv, LockInv, NEW r \in Request,
         \A q \in Request \ {r} : at'[q] = at[q] /\ job'[q] = job[q],
         \A l \in Lock : writer'[l] \in {writer[l], None, r},
         \A l \in Lock : writer'[l] = r =>
            IF l = Table THEN at'[r] \in TableWriting ELSE at'[r] = "change" /\ job'[r].sim = l,
         \A q \in Request \ {r} : q \in readers'[Table] <=> q \in readers[Table],
         r \in readers'[Table] <=> at'[r] = "visit",
         at'[r] = "visit" => \A c \in job'[r].left : table'[c] # None,
         readers[Table] \cap readers'[Table] # {} => table' = table
  PROVE  LockInv'
  <1>1. WritersInside'
    <2> SUFFICES ASSUME NEW q \in Request, NEW l \in Lock, writer'[l] = q
                 PROVE  IF l = Table THEN at'[q] \in TableWriting
                                     ELSE at'[q] = "change" /\ job'[q].sim = l
      BY DEF WritersInside, Lock
    <2>1. CASE q = r
      BY <2>1
    <2>2. CASE q # r
      <3>1. writer[l] = q
        BY <2>2, NamesAssumption
      <3> QED BY <2>2, <3>1 DEF LockInv, WritersInside
    <2> QED BY <2>1, <2>2
  <1>2. ListingsHold'
    <2> SUFFICES ASSUME NEW q \in Request
                 PROVE  /\ q \in readers'[Table] <=> at'[q] = "visit"
                        /\ at'[q] = "visit" => \A c \in job'[q].left : table'[c] # None
      BY DEF ListingsHold
    <2>1. CASE q = r
      BY <2>1
    <2>2. CASE q # r
      BY <2>2 DEF LockInv, ListingsHold
    <2> QED BY <2>1, <2>2
  <1> QED BY <1>1, <1>2 DEF LockInv

LEMMA ReceiveKeepsLocks ==
  ASSUME IInv, LockInv, NEW r \in Request, NEW k \in Kind, NEW c \in ClusterId, Receive(r, k, c)
  PROVE  LockInv'
  <1>1. /\ at[r] = "idle" /\ at' = [at EXCEPT ![r] = First(k)]
        /\ UNCHANGED <<table, readers, writer>>
    BY DEF Receive
  <1>2. \A q \in Request \ {r} : at'[q] = at[q] /\ job'[q] = job[q]
    BY DEF Receive, IInv, TypeOK
  <1>3. at'[r] # "visit"
    BY <1>1 DEF First, IInv, TypeOK
  <1>4. r \notin readers[Table] /\ \A l \in Lock : writer[l] # r
    BY <1>1 DEF LockInv, WritersInside, ListingsHold, TableWriting
  <1> QED BY <1>1, <1>2, <1>3, <1>4, LocksKept

(* Who begins to write, or to list.                                        *)
LEMMA LockKeepsLocks ==
  ASSUME IInv, LockInv, NEW r \in Request, LockTable(r) \/ LockCluster(r)
  PROVE  LockInv'
  <1>1. PICK l \in Lock : /\ writer' = [writer EXCEPT ![l] = r]
                          /\ IF l = Table THEN at[r] \in TableWriting
                                          ELSE at[r] = "change" /\ job[r].sim = l
    <2>1. CASE LockTable(r)
      BY <2>1 DEF LockTable, LockBegin, Lock, TableWriting
    <2>2. CASE LockCluster(r)
      <3>1. job[r].sim \in Sim
        BY <2>2 DEF LockCluster, IInv, JobsFit, InCluster
      <3> QED BY <2>2, <3>1, NamesAssumption DEF LockCluster, LockBegin, Lock
    <2> QED BY <2>1, <2>2
  <1>2. UNCHANGED <<table, readers, at, job>>
    BY DEF LockTable, LockCluster, LockBegin
  <1>3. \A m \in Lock : writer'[m] = IF m = l THEN r ELSE writer[m]
    BY <1>1 DEF IInv, TypeOK
  <1>4. \A m \in Lock : writer'[m] = r =>
           IF m = Table THEN at'[r] \in TableWriting ELSE at'[r] = "change" /\ job'[r].sim = m
    BY <1>1, <1>2, <1>3 DEF LockInv, WritersInside
  <1>5. /\ r \in readers'[Table] <=> at'[r] = "visit"
        /\ at'[r] = "visit" => \A c \in job'[r].left : table'[c] # None
    BY <1>2 DEF LockInv, ListingsHold
  <1> QED BY <1>2, <1>3, <1>4, <1>5, LocksKept

LEMMA ListKeepsLocks ==
  ASSUME IInv, LockInv, NEW r \in Request, ListBegin(r) \/ ListVisit(r) \/ ListEnd(r)
  PROVE  LockInv'
  <1>1. UNCHANGED <<table, writer>> /\ at[r] \in {"list", "visit"}
    BY DEF ListBegin, ListVisit, ListEnd, Return
  <1>2. \A l \in Lock : writer[l] # r
    BY <1>1 DEF LockInv, WritersInside, TableWriting
  <1>3. \A q \in Request \ {r} : at'[q] = at[q] /\ job'[q] = job[q]
    BY DEF ListBegin, ListVisit, ListEnd, Return, IInv, TypeOK
  <1>4. Table \in Lock /\ readers[Table] \in SUBSET Request
    BY DEF Lock, IInv, TypeOK
  <1>5. CASE ListBegin(r)
    <2>1. readers'[Table] = readers[Table] \cup {r} /\ at'[r] = "visit"
      BY <1>4, <1>5 DEF ListBegin, IInv, TypeOK
    <2>2. job'[r].left = {c \in ClusterId : table[c] # None}
      BY <1>5 DEF ListBegin, IInv, TypeOK, Job
    <2> QED BY <1>1, <1>2, <1>3, <2>1, <2>2, LocksKept
  <1>6. CASE ListVisit(r)
    <2>1. UNCHANGED <<readers, at>> /\ at[r] = "visit"
      BY <1>6 DEF ListVisit
    <2>2. job'[r].left \subseteq job[r].left
      BY <1>6 DEF ListVisit, IInv, TypeOK, Job
    <2>3. /\ r \in readers[Table]
          /\ \A c \in job[r].left : table[c] # None
      BY <2>1 DEF LockInv, ListingsHold
    <2> QED BY <1>1, <1>2, <1>3, <2>1, <2>2, <2>3, LocksKept
  <1>7. CASE ListEnd(r)
    <2>1. readers'[Table] = readers[Table] \ {r} /\ at'[r] = "idle"
      BY <1>4, <1>7 DEF ListEnd, Return, IInv, TypeOK
    <2> QED BY <1>1, <1>2, <1>3, <2>1, LocksKept
  <1> QED BY <1>5, <1>6, <1>7

(* The write sections: who is inside lets go.                              *)
LEMMA WriteKeepsLocks ==
  ASSUME IInv, LockInv, NEW r \in Request,
         GetOrCreateCluster(r) \/ CreateCluster(r) \/ DeleteCluster(r) \/ ChangeCluster(r)
  PROVE  LockInv'
  <1>1. UNCHANGED readers /\ at[r] \in TableWriting \cup {"change"}
    BY DEF GetOrCreateCluster, CreateCluster, DeleteCluster, ChangeCluster, TableWriting
  <1>2. \A q \in Request \ {r} : at'[q] = at[q] /\ job'[q] = job[q]
    BY DEF GetOrCreateCluster, CreateCluster, DeleteCluster, ChangeCluster, NewClusterSim,
           Return, IInv, TypeOK
  <1>3. at'[r] # "visit"
    BY DEF GetOrCreateCluster, CreateCluster, DeleteCluster, ChangeCluster, Return, IInv, TypeOK
  <1>4. r \notin readers[Table]
    BY <1>1 DEF LockInv, ListingsHold, TableWriting
  <1>5. \A l \in Lock : writer'[l] \in {writer[l], None} /\ writer'[l] # r
    <2>1. CASE at[r] \in TableWriting
      <3>1. writer' = [writer EXCEPT ![Table] = None]
        BY <2>1 DEF GetOrCreateCluster, CreateCluster, DeleteCluster, ChangeCluster, Unlock,
                    TableWriting
      <3> QED BY <2>1, <3>1, NamesAssumption
              DEF IInv, TypeOK, Lock, LockInv, WritersInside, TableWriting
    <2>2. CASE at[r] = "change"
      <3>1. writer' = [writer EXCEPT ![job[r].sim] = None]
        BY <2>2 DEF GetOrCreateCluster, CreateCluster, DeleteCluster, ChangeCluster, Unlock
      <3> QED BY <2>2, <3>1, NamesAssumption
              DEF IInv, TypeOK, Lock, LockInv, WritersInside, TableWriting
    <2> QED BY <1>1, <2>1, <2>2
  <1>6. readers[Table] \cap readers'[Table] # {} => table' = table
    BY HandleKeepsInv DEF Handle
  <1> QED BY <1>1, <1>2, <1>3, <1>4, <1>5, <1>6, LocksKept

(* The other steps take and release no write lock, and none of the table's.*)
LEMMA ReadKeepsLocks ==
  ASSUME IInv, LockInv, NEW r \in Request,
         \/ LookupFound(r) \/ LookupMissing(r) \/ ConfirmChange(r)
         \/ CollectBegin(r) \/ CheckSpike(r) \/ ReadElapsed(r) \/ ApplySpike(r) \/ Report(r)
         \/ StatusBegin(r) \/ StatusCheckSpike(r) \/ StatusReadSpike(r) \/ StatusEnd(r)
         \/ Panic(r)
  PROVE  LockInv'
  <1> USE DEF LookupFound, LookupMissing, ConfirmChange, CollectBegin, CheckSpike, ReadElapsed,
              ApplySpike, Report, StatusBegin, StatusCheckSpike, StatusReadSpike, StatusEnd, Panic
  <1>1. UNCHANGED <<table, writer>> /\ at[r] \notin TableWriting \cup {"change", "visit"}
    BY DEF Return, TableWriting
  <1>2. \A q \in Request \ {r} : at'[q] = at[q] /\ job'[q] = job[q]
    BY DEF Return, IInv, TypeOK
  <1>3. at'[r] # "visit"
    BY DEF Return, IInv, TypeOK
  <1>4. r \notin readers[Table] /\ \A l \in Lock : writer[l] # r
    BY <1>1 DEF LockInv, WritersInside, ListingsHold
  <1>5. readers'[Table] = readers[Table]
    <2>1. at[r] \in InCluster => job[r].sim # Table
      BY NamesAssumption DEF IInv, JobsFit
    <2>2. \/ UNCHANGED readers
          \/ at[r] \in InCluster /\ \E S \in {readers[job[r].sim] \cup {r}, readers[job[r].sim] \ {r}} :
                readers' = [readers EXCEPT ![job[r].sim] = S]
      BY DEF InCluster, Reading
    <2> QED BY <2>1, <2>2 DEF IInv, TypeOK, Lock
  <1> QED BY <1>1, <1>2, <1>3, <1>4, <1>5, LocksKept

LEMMA NextLockInv == IInv /\ LockInv /\ [Next]_vars => LockInv'
  <1> SUFFICES ASSUME IInv, LockInv, [Next]_vars PROVE LockInv'
    OBVIOUS
  <1>1. CASE UNCHANGED vars \/ \E s \in Sim : SpikeElapses(s)
    BY <1>1 DEF vars, SpikeElapses, LockInv, WritersInside, ListingsHold
  <1>2. CASE \E r \in Request, k \in Kind, c \in ClusterId : Receive(r, k, c)
    BY <1>2, ReceiveKeepsLocks
  <1>3. CASE \E r \in Request : Handle(r)
    BY <1>3, LockKeepsLocks, ListKeepsLocks, WriteKeepsLocks, ReadKeepsLocks DEF Handle
  <1> QED BY <1>1, <1>2, <1>3 DEF Next

(* A cluster's lock that is asked for is held by a writer who goes on, or  *)
(* by a reader who goes on or is caught in Status.                         *)
LEMMA ClusterClears ==
  ASSUME IInv, LockInv, NEW s \in Sim, writer[s] # None
  PROVE  \E q \in Request : /\ q \in readers[s] \/ q = writer[s]
                            /\ CanGoOn(q) \/ CaughtInStatus(q)
  <1>1. writer[s] \in Request /\ at[writer[s]] = "change" /\ job[writer[s]].sim = s
    BY NamesAssumption DEF IInv, TypeOK, Lock, LockInv, WritersInside
  <1>2. CASE readers[s] = {}
    BY <1>1, <1>2 DEF CanGoOn, Wants, MayTake, MayWrite
  <1>3. CASE readers[s] # {}
    <2>1. PICK q \in Request : q \in readers[s]
      BY <1>3 DEF IInv, TypeOK, Lock
    <2>2. at[q] \in Reading /\ job[q].sim = s
      BY <2>1 DEF IInv, ReadersInside
    <2>3. CASE at[q] = "count"
      BY <2>1, <2>2, <2>3 DEF CaughtInStatus, MayRead
    <2>4. CASE at[q] # "count"
      BY <2>1, <2>2, <2>4 DEF CanGoOn, Wants, Reading
    <2> QED BY <2>3, <2>4
  <1> QED BY <1>2, <1>3

(* A request that has to wait for a cluster.                               *)
LEMMA WaitsForCluster ==
  ASSUME IInv, LockInv, NEW r \in Request, NEW s \in Sim, s \in Wants(r), ~MayTake(r, s)
  PROVE  \E q \in InTheWayOf(r) : CanGoOn(q) \/ CaughtInStatus(q)
  <1>1. writer[s] # None
    BY DEF MayTake, MayRead
  <1>2. PICK q \in Request : /\ q \in readers[s] \/ q = writer[s]
                             /\ CanGoOn(q) \/ CaughtInStatus(q)
    BY <1>1, ClusterClears
  <1> QED BY <1>2 DEF InTheWayOf

(* The listing has to wait for clusters only.                              *)
LEMMA ListingWaits ==
  ASSUME IInv, LockInv, NEW r \in Request, at[r] = "visit", ~CanGoOn(r)
  PROVE  \E q \in InTheWayOf(r) : CanGoOn(q) \/ CaughtInStatus(q)
  <1>1. PICK c \in job[r].left : ~MayTake(r, table[c])
    BY DEF CanGoOn, Wants
  <1>2. table[c] \in Sim
    BY DEF IInv, TypeOK, Job, LockInv, ListingsHold
  <1>3. table[c] \in Wants(r)
    BY DEF Wants
  <1> QED BY <1>1, <1>2, <1>3, WaitsForCluster

LEMMA NoCircle == IInv /\ LockInv => LocksMakeNoCircle
  <1> SUFFICES ASSUME IInv, LockInv, NEW r \in Request, at[r] # "idle", ~CanGoOn(r)
               PROVE  \E q \in InTheWayOf(r) \cup UNION {InTheWayOf(p) : p \in InTheWayOf(r)} :
                         CanGoOn(q) \/ CaughtInStatus(q)
    BY DEF LocksMakeNoCircle
  <1>1. CASE at[r] = "visit"
    BY <1>1, ListingWaits
  <1>2. CASE at[r] \in {"change", "collect", "status", "count"}
    <2>1. job[r].sim \in Sim /\ job[r].sim \in Wants(r)
      BY <1>2 DEF IInv, JobsFit, InCluster, Reading, Wants
    <2>2. ~MayTake(r, job[r].sim)
      BY <2>1 DEF CanGoOn
    <2> QED BY <2>1, <2>2, WaitsForCluster
  <1>3. CASE at[r] \in {"lookup", "list", "getOrCreate", "create", "delete"}
    <2>1. Table \in Wants(r) /\ writer[Table] # None
      BY <1>3 DEF CanGoOn, Wants, MayTake, MayRead
    <2> DEFINE w == writer[Table]
    <2>2. w \in Request /\ at[w] \in TableWriting /\ w \in InTheWayOf(r)
      BY <2>1, NamesAssumption DEF IInv, TypeOK, Lock, LockInv, WritersInside, InTheWayOf
    <2>3. CASE readers[Table] = {}
      BY <2>2, <2>3 DEF CanGoOn, Wants, MayTake, MayWrite, TableWriting
    <2>4. CASE readers[Table] # {}
      <3>1. PICK p \in Request : p \in readers[Table]
        BY <2>4 DEF IInv, TypeOK, Lock
      <3>2. at[p] = "visit" /\ p \in InTheWayOf(r)
        BY <2>1, <3>1 DEF LockInv, ListingsHold, InTheWayOf
      <3>3. CASE CanGoOn(p)
        BY <3>2, <3>3
      <3>4. CASE ~CanGoOn(p)
        BY <3>2, <3>4, ListingWaits
      <3> QED BY <3>3, <3>4
    <2> QED BY <2>3, <2>4
  <1>4. at[r] \in {"visit", "change", "collect", "status", "count",
                   "lookup", "list", "getOrCreate", "create", "delete"}
    BY DEF CanGoOn, Wants
  <1> QED BY <1>1, <1>2, <1>3, <1>4

(* Whatever the requests, names and objects are, and whoever holds which   *)
(* of the locks Simulator.mu and ClusterSim.mu: nobody waits in a circle,  *)
(* except through a Status that is caught between its two read locks.      *)
THEOREM LocksMakeNoCircleHolds == Spec => []LocksMakeNoCircle
  <1>1. Spec => [](IInv /\ LockInv)
    BY InitIInv, NextIInv, InitLockInv, NextLockInv, PTL DEF Spec
  <1> QED BY <1>1, NoCircle, PTL

=============================================================================
