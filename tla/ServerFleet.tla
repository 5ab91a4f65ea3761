---------------------------- MODULE ServerFleet ----------------------------
(***************************************************************************)
(* The servers of one cluster as the autoscaler tracks them:               *)
(* SimulatorScaler (internal/scaler/simulator_scaler.go) and its           *)
(* StateTracker (internal/scaler/state_tracker.go).                        *)
(*                                                                         *)
(* A scaling call holds the scaler's mutex from its first check to its     *)
(* return; in between it calls the simulator over HTTP, which takes up to  *)
(* NotifyTimeout ticks and whose failure is only logged.  Every server     *)
(* that is added or drained gets a goroutine that sleeps and then writes   *)
(* the server's next state without looking at its present one.             *)
(*                                                                         *)
(* A terminated server's entry stays in the tracker but no code reads it   *)
(* again, so its id stands for an unused one: "gone".                      *)
(***************************************************************************)
EXTENDS Integers, FiniteSets

CONSTANTS
    Server,          \* the ids NewServer can draw (the bound on live servers)
    InitialServers,  \* the servers InitializeCluster creates, already active
    ProvisionTime,   \* ticks a new server sleeps before it is active
    DrainTime,       \* ticks a draining server sleeps (drainTimeout / 3)
    NotifyTimeout,   \* ticks the HTTP client waits for the simulator
    MaxRequest,      \* the largest count a caller asks for
    TimelyWakeups    \* TRUE: goroutines are scheduled within a tick

ASSUME FleetAssumption ==
    /\ IsFiniteSet(Server)
    /\ InitialServers \subseteq Server
    /\ ProvisionTime \in Nat /\ DrainTime \in Nat /\ NotifyTimeout \in Nat
    /\ MaxRequest \in Nat
    /\ TimelyWakeups \in BOOLEAN

VARIABLES
    server,    \* StateTracker.servers: the state of each id
    timers,    \* the sleeping simulateProvisioning / simulateTermination
    call       \* the scaling call that holds SimulatorScaler.mu

fleetVars == <<server, timers, call>>

-----------------------------------------------------------------------------

ServerState == {"gone", "provisioning", "active", "draining"}

Timer == [id : Server, to : {"active", "gone"}, left : Nat]

NoCall == [kind |-> "none", count |-> 0, victims |-> {}, left |-> 0]

Call == [kind : {"none", "up", "down"}, count : Nat, victims : SUBSET Server, left : Nat]

InState(st) == {s \in Server : server[s] = st}

Active == InState("active")
Provisioning == InState("provisioning")
Draining == InState("draining")
Unused == InState("gone")

(* Mutant: provisioning servers count as active. *)
GetClusterStateCountingAll ==
    [active |-> Cardinality(Active \cup Provisioning), total |-> Cardinality(Server \ Unused)]

(* GetClusterState: terminated servers are not counted. *)
GetClusterState ==
    [active |-> Cardinality(Active), total |-> Cardinality(Server \ Unused)]

(* Mutant: no provisioning goroutine is started. *)
AddServersWithoutTimer(S) ==
    /\ server' = [s \in Server |-> IF s \in S THEN "provisioning" ELSE server[s]]
    /\ UNCHANGED timers

(* AddServer for every id of S, each with its provisioning goroutine. *)
AddServers(S) ==
    /\ server' = [s \in Server |-> IF s \in S THEN "provisioning" ELSE server[s]]
    /\ timers' = timers \cup [id : S, to : {"active"}, left : {ProvisionTime}]

(* UpdateState to DRAINING for every id of S, each with its termination    *)
(* goroutine.                                                              *)
DrainServers(S) ==
    /\ server' = [s \in Server |-> IF s \in S THEN "draining" ELSE server[s]]
    /\ timers' = timers \cup [id : S, to : {"gone"}, left : {DrainTime}]

FleetInit ==
    /\ server = [s \in Server |-> IF s \in InitialServers THEN "active" ELSE "gone"]
    /\ timers = {}
    /\ call = NoCall

(* The calls the scaler answers with an error before it does anything:     *)
(* ErrInvalidTarget, and ErrClusterNotFound when nothing is active.        *)
Rejects(kind, count) ==
    \/ count <= 0
    \/ kind = "down" /\ Active = {}

(* ScaleUp takes the mutex and calls the simulator. *)
ScaleUpBegin(count) ==
    /\ call = NoCall
    /\ ~Rejects("up", count)
    /\ count <= Cardinality(Unused)      \* bound: the ids of the model
    /\ call' = [kind |-> "up", count |-> count, victims |-> {}, left |-> NotifyTimeout]
    /\ UNCHANGED <<server, timers>>

(* The simulator answered, failed or timed out: the servers are added.     *)
ScaleUpReturn ==
    /\ call.kind = "up"
    /\ \E S \in SUBSET Unused : Cardinality(S) = call.count /\ AddServers(S)
    /\ call' = NoCall

(* Mutant: the victims are chosen among all servers. *)
ScaleDownBeginAnyServer(count) ==
    /\ call = NoCall
    /\ ~Rejects("down", count)
    /\ \E V \in SUBSET (Server \ Unused) :
          /\ Cardinality(V) = count
          /\ call' = [kind |-> "down", count |-> count, victims |-> V, left |-> NotifyTimeout]
    /\ UNCHANGED <<server, timers>>

(* ScaleDown takes the mutex, reads the active servers and settles which   *)
(* of them go, no more than there are, before it calls the simulator.  The *)
(* code takes the oldest; which ones it takes matters to no property.      *)
ScaleDownBegin(count) ==
    /\ call = NoCall
    /\ ~Rejects("down", count)
    /\ \E V \in SUBSET Active :
          /\ Cardinality(V) = IF count > Cardinality(Active) THEN Cardinality(Active) ELSE count
          /\ call' = [kind |-> "down", count |-> count, victims |-> V, left |-> NotifyTimeout]
    /\ UNCHANGED <<server, timers>>

ScaleDownReturn ==
    /\ call.kind = "down"
    /\ DrainServers(call.victims)
    /\ call' = NoCall

(* A goroutine wakes up and writes the state it was started for.           *)
Wake(t) ==
    /\ t \in timers /\ t.left = 0
    /\ server' = [server EXCEPT ![t.id] = t.to]
    /\ timers' = timers \ {t}
    /\ UNCHANGED call

Countdown(n) == IF n > 0 THEN n - 1 ELSE 0

(* One tick passes.  The HTTP client's timeout is kept; a sleeper may      *)
(* oversleep unless TimelyWakeups.                                         *)
FleetTick ==
    /\ call # NoCall => call.left > 0
    /\ TimelyWakeups => \A t \in timers : t.left > 0
    /\ call' = [call EXCEPT !.left = Countdown(@)]
    /\ timers' = {[t EXCEPT !.left = Countdown(@)] : t \in timers}
    /\ UNCHANGED server

FleetStep ==
    \/ \E count \in 0..MaxRequest : ScaleUpBegin(count) \/ ScaleDownBegin(count)
    \/ ScaleUpReturn
    \/ ScaleDownReturn
    \/ \E t \in timers : Wake(t)

FleetNext == FleetStep \/ FleetTick

FleetSpec == FleetInit /\ [][FleetNext]_fleetVars

-----------------------------------------------------------------------------
(* Properties. *)

FleetTypeOK ==
    /\ server \in [Server -> ServerState]
    /\ timers \subseteq Timer
    /\ call \in Call

(* The sleepers agree with the tracker: a server is provisioning exactly   *)
(* while one goroutine is on its way to activate it, draining exactly      *)
(* while one is on its way to terminate it, and nothing sleeps for any     *)
(* other server.  UpdateState checks none of this.                         *)
SleepersMatchStates ==
    /\ \A t \in timers : server[t.id] = IF t.to = "active" THEN "provisioning" ELSE "draining"
    /\ \A t, u \in timers : t.id = u.id => t = u
    /\ \A s \in Provisioning \cup Draining : \E t \in timers : t.id = s

(* What ScaleDown settled on before its call to the simulator still holds  *)
(* when the call returns: the victims are active all along.                *)
VictimsStayActive == call.victims \subseteq Active

(* A server goes from provisioning to active to draining to gone and never *)
(* skips or repeats a state, although UpdateState would let it.            *)
Lifecycle ==
    [][\A s \in Server :
          server'[s] # server[s] =>
              <<server[s], server'[s]>> \in
                  {<<"gone", "provisioning">>, <<"provisioning", "active">>,
                   <<"active", "draining">>, <<"draining", "gone">>}]_fleetVars
=============================================================================
