------------------------- MODULE Autoscaler_proofs -------------------------
(***************************************************************************)
(* Proofs about the control loop, for any configuration, any set of server *)
(* ids, any durations and any samples.                                     *)
(*                                                                         *)
(* The invariants are not inductive by themselves: a scale-down removes a  *)
(* server that was counted two steps earlier.  The strengthening says what *)
(* of the decision still stands at each place of the loop: between reading *)
(* the state and the end of the call active servers are only added, and    *)
(* nothing but the loop itself starts a cooldown or a call.                *)
(***************************************************************************)
EXTENDS Autoscaler, DecisionEngine_proofs, FiniteSetTheorems

-----------------------------------------------------------------------------
(* The server fleet by itself, for any set of server ids, any number of    *)
(* initial servers and any durations.  The lemmas are stated per action so *)
(* that the steps of the control loop, which contain these actions, can    *)
(* cite them.                                                              *)

(* A call is either none at all or one with victims that are still active. *)
CallIsConsistent ==
    /\ call.kind = "none" => call = NoCall
    /\ call.kind # "down" => call.victims = {}

FleetInv == FleetTypeOK /\ SleepersMatchStates /\ VictimsStayActive /\ CallIsConsistent

(* Countdown keeps a natural number one. *)
LEMMA CountdownType == ASSUME NEW n \in Nat PROVE Countdown(n) \in Nat
BY DEF Countdown

LEMMA InitFleetInv == FleetInit => FleetInv
BY FleetAssumption
   DEF FleetInit, FleetInv, FleetTypeOK, SleepersMatchStates, VictimsStayActive, CallIsConsistent,
       ServerState, Timer, Call, NoCall, Active, Provisioning, Draining, InState

LEMMA ScaleUpBeginKeepsInv ==
    ASSUME FleetInv, NEW count \in Int, ScaleUpBegin(count)
    PROVE  FleetInv'
<1>1. count \in Nat /\ call'.victims = {}
    BY DEF ScaleUpBegin, Rejects
<1>. QED
    BY <1>1, FleetAssumption
       DEF ScaleUpBegin, FleetInv, FleetTypeOK, SleepersMatchStates, VictimsStayActive, CallIsConsistent,
           Call, NoCall, Active, Provisioning, Draining, InState

LEMMA ScaleDownBeginKeepsInv ==
    ASSUME FleetInv, NEW count \in Int, ScaleDownBegin(count)
    PROVE  FleetInv'
<1>1. count \in Nat
    BY DEF ScaleDownBegin, Rejects
<1>2. PICK V \in SUBSET Active :
          call' = [kind |-> "down", count |-> count, victims |-> V, left |-> NotifyTimeout]
    BY DEF ScaleDownBegin
<1>3. V \in SUBSET Server
    BY DEF Active, InState
<1>. QED
    BY <1>1, <1>2, <1>3, FleetAssumption
       DEF ScaleDownBegin, FleetInv, FleetTypeOK, SleepersMatchStates, VictimsStayActive, CallIsConsistent,
           Call, NoCall, Active, Provisioning, Draining, InState

(* Adding servers whose ids were unused. *)
LEMMA ScaleUpReturnKeepsInv ==
    ASSUME FleetInv, ScaleUpReturn
    PROVE  FleetInv'
<1>1. PICK S \in SUBSET Unused : AddServers(S)
    BY DEF ScaleUpReturn
<1>2. call' = NoCall /\ call.victims = {}
    BY DEF ScaleUpReturn, FleetInv, CallIsConsistent
<1>3. S \subseteq Server /\ \A s \in S : server[s] = "gone"
    BY DEF Unused, InState
<1>4. FleetTypeOK'
    BY <1>1, <1>2, <1>3, FleetAssumption
       DEF AddServers, FleetInv, FleetTypeOK, ServerState, Timer, Call, NoCall
<1>5. \A t \in timers' : \/ t \in timers /\ t.id \notin S
                         \/ t.id \in S /\ t = [id |-> t.id, to |-> "active", left |-> ProvisionTime]
    BY <1>1, <1>3 DEF AddServers, FleetInv, FleetTypeOK, SleepersMatchStates, Timer
<1>6. SleepersMatchStates'
  <2>1. \A t \in timers' :
            server'[t.id] = IF t.to = "active" THEN "provisioning" ELSE "draining"
      BY <1>1, <1>3, <1>5 DEF AddServers, FleetInv, FleetTypeOK, SleepersMatchStates, Timer
  <2>2. \A t, u \in timers' : t.id = u.id => t = u
      BY <1>5 DEF FleetInv, SleepersMatchStates
  <2>3. \A s \in S : [id |-> s, to |-> "active", left |-> ProvisionTime] \in timers'
      BY <1>1 DEF AddServers
  <2>4. \A s \in Server : server'[s] \in {"provisioning", "draining"} => \E t \in timers' : t.id = s
    <3>. SUFFICES ASSUME NEW s \in Server, server'[s] \in {"provisioning", "draining"}
                  PROVE  \E t \in timers' : t.id = s
        OBVIOUS
    <3>1. CASE s \in S
        BY <3>1, <2>3
    <3>2. CASE s \notin S
        BY <3>2, <1>1
           DEF AddServers, FleetInv, SleepersMatchStates, Provisioning, Draining, InState
    <3>. QED
        BY <3>1, <3>2
  <2>. QED
      BY <2>1, <2>2, <2>4 DEF SleepersMatchStates, Provisioning, Draining, InState
<1>. QED
    BY <1>2, <1>4, <1>6 DEF FleetInv, VictimsStayActive, CallIsConsistent, NoCall

(* Draining the servers that the call settled on, all of them active.      *)
LEMMA ScaleDownReturnKeepsInv ==
    ASSUME FleetInv, ScaleDownReturn
    PROVE  FleetInv'
<1>. DEFINE V == call.victims
<1>1. DrainServers(V) /\ call' = NoCall
    BY DEF ScaleDownReturn
<1>2. V \subseteq Server /\ \A s \in V : server[s] = "active"
    BY DEF FleetInv, VictimsStayActive, Active, InState
<1>. HIDE DEF V
<1>3. FleetTypeOK'
    BY <1>1, <1>2, FleetAssumption
       DEF DrainServers, FleetInv, FleetTypeOK, ServerState, Timer, Call, NoCall
<1>4. \A t \in timers' : \/ t \in timers /\ t.id \notin V
                         \/ t.id \in V /\ t = [id |-> t.id, to |-> "gone", left |-> DrainTime]
    BY <1>1, <1>2 DEF DrainServers, FleetInv, FleetTypeOK, SleepersMatchStates, Timer
<1>5. SleepersMatchStates'
  <2>1. \A t \in timers' :
            server'[t.id] = IF t.to = "active" THEN "provisioning" ELSE "draining"
      BY <1>1, <1>2, <1>4 DEF DrainServers, FleetInv, FleetTypeOK, SleepersMatchStates, Timer
  <2>2. \A t, u \in timers' : t.id = u.id => t = u
      BY <1>4 DEF FleetInv, SleepersMatchStates
  <2>3. \A s \in V : [id |-> s, to |-> "gone", left |-> DrainTime] \in timers'
      BY <1>1 DEF DrainServers
  <2>4. \A s \in Server : server'[s] \in {"provisioning", "draining"} => \E t \in timers' : t.id = s
    <3>. SUFFICES ASSUME NEW s \in Server, server'[s] \in {"provisioning", "draining"}
                  PROVE  \E t \in timers' : t.id = s
        OBVIOUS
    <3>1. CASE s \in V
        BY <3>1, <2>3
    <3>2. CASE s \notin V
        BY <3>2, <1>1
           DEF DrainServers, FleetInv, SleepersMatchStates, Provisioning, Draining, InState
    <3>. QED
        BY <3>1, <3>2
  <2>. QED
      BY <2>1, <2>2, <2>4 DEF SleepersMatchStates, Provisioning, Draining, InState
<1>. QED
    BY <1>1, <1>3, <1>5 DEF FleetInv, VictimsStayActive, CallIsConsistent, NoCall

(* A goroutine writes its state: never that of an active server.           *)
LEMMA WakeKeepsInv ==
    ASSUME FleetInv, NEW t \in timers, Wake(t)
    PROVE  FleetInv'
<1>1. /\ t.id \in Server /\ t.to \in {"active", "gone"}
      /\ server[t.id] \in {"provisioning", "draining"}
    BY DEF FleetInv, FleetTypeOK, SleepersMatchStates, Timer
<1>2. FleetTypeOK'
    BY <1>1 DEF Wake, FleetInv, FleetTypeOK, ServerState
<1>3. \A u \in timers' : u \in timers /\ u.id # t.id
    BY DEF Wake, FleetInv, SleepersMatchStates
<1>4. SleepersMatchStates'
  <2>1. \A u \in timers' :
            server'[u.id] = IF u.to = "active" THEN "provisioning" ELSE "draining"
      BY <1>3 DEF Wake, FleetInv, FleetTypeOK, SleepersMatchStates, Timer
  <2>2. \A u, v \in timers' : u.id = v.id => u = v
      BY <1>3 DEF FleetInv, SleepersMatchStates
  <2>3. \A s \in Server : server'[s] \in {"provisioning", "draining"} => \E u \in timers' : u.id = s
      BY <1>1
         DEF Wake, FleetInv, FleetTypeOK, SleepersMatchStates, Provisioning, Draining, InState
  <2>. QED
      BY <2>1, <2>2, <2>3 DEF SleepersMatchStates, Provisioning, Draining, InState
<1>5. VictimsStayActive'
    BY <1>1 DEF Wake, FleetInv, FleetTypeOK, VictimsStayActive, Active, InState
<1>. QED
    BY <1>2, <1>4, <1>5 DEF Wake, FleetInv, CallIsConsistent

LEMMA FleetTickKeepsInv ==
    ASSUME FleetInv, FleetTick
    PROVE  FleetInv'
<1>. DEFINE Aged(t) == [t EXCEPT !.left = Countdown(@)]
<1>1. \A t \in Timer : Aged(t) \in Timer /\ Aged(t).id = t.id /\ Aged(t).to = t.to
    BY CountdownType DEF Timer
<1>2. timers' = {Aged(t) : t \in timers} /\ timers \subseteq Timer /\ UNCHANGED server
    BY DEF FleetTick, FleetInv, FleetTypeOK
<1>3. /\ call' = [call EXCEPT !.left = Countdown(@)]
      /\ call \in Call
    BY DEF FleetTick, FleetInv, FleetTypeOK
<1>4. call' \in Call /\ call'.kind = call.kind /\ call'.victims = call.victims
    BY <1>3, CountdownType DEF Call
<1>5. call = NoCall => call' = NoCall
    BY <1>3 DEF NoCall, Countdown
<1>. HIDE DEF Aged
<1>6. FleetTypeOK'
    BY <1>1, <1>2, <1>4 DEF FleetInv, FleetTypeOK
<1>7. SleepersMatchStates'
  <2>1. \A u \in timers' : \E t \in timers : u = Aged(t) /\ u.id = t.id /\ u.to = t.to
      BY <1>1, <1>2
  <2>2. \A u \in timers' :
            server'[u.id] = IF u.to = "active" THEN "provisioning" ELSE "draining"
      BY <2>1, <1>2 DEF FleetInv, SleepersMatchStates
  <2>3. \A u, v \in timers' : u.id = v.id => u = v
      BY <2>1 DEF FleetInv, SleepersMatchStates
  <2>4. \A s \in Provisioning \cup Draining : \E u \in timers' : u.id = s
      BY <1>1, <1>2 DEF FleetInv, SleepersMatchStates
  <2>. QED
      BY <1>2, <2>2, <2>3, <2>4 DEF SleepersMatchStates, Provisioning, Draining, InState
<1>. QED
    BY <1>2, <1>4, <1>5, <1>6, <1>7
       DEF FleetInv, VictimsStayActive, CallIsConsistent, Active, InState

LEMMA NextFleetInv == FleetInv /\ [FleetNext]_fleetVars => FleetInv'
<1>. SUFFICES ASSUME FleetInv, [FleetNext]_fleetVars PROVE FleetInv'
    OBVIOUS
<1>1. ASSUME NEW count \in 0..MaxRequest, ScaleUpBegin(count) PROVE FleetInv'
    BY <1>1, ScaleUpBeginKeepsInv
<1>2. ASSUME NEW count \in 0..MaxRequest, ScaleDownBegin(count) PROVE FleetInv'
    BY <1>2, ScaleDownBeginKeepsInv
<1>3. CASE ScaleUpReturn
    BY <1>3, ScaleUpReturnKeepsInv
<1>4. CASE ScaleDownReturn
    BY <1>4, ScaleDownReturnKeepsInv
<1>5. ASSUME NEW t \in timers, Wake(t) PROVE FleetInv'
    BY <1>5, WakeKeepsInv
<1>6. CASE FleetTick
    BY <1>6, FleetTickKeepsInv
<1>7. CASE UNCHANGED fleetVars
    BY <1>7
       DEF fleetVars, FleetInv, FleetTypeOK, SleepersMatchStates, VictimsStayActive, CallIsConsistent,
           Active, Provisioning, Draining, InState
<1>. QED
    BY <1>1, <1>2, <1>3, <1>4, <1>5, <1>6, <1>7 DEF FleetNext, FleetStep

-----------------------------------------------------------------------------
(* How the steps change the sets of servers and their sizes. *)

LEMMA ServerCountsAreNumbers ==
    \A st : /\ InState(st) \subseteq Server
            /\ IsFiniteSet(InState(st))
            /\ Cardinality(InState(st)) \in Nat
<1>1. \A st : InState(st) \subseteq Server
    BY DEF InState
<1>2. \A st : IsFiniteSet(InState(st))
    BY <1>1, FleetAssumption, FS_Subset
<1>. QED
    BY <1>1, <1>2, FS_CardinalityType

LEMMA MoreServersCountMore ==
    ASSUME NEW S \in SUBSET Server, NEW T \in SUBSET S
    PROVE  Cardinality(T) <= Cardinality(S)
BY FleetAssumption, FS_Subset

LEMMA ScaleUpReturnAdds ==
    ASSUME FleetInv, ScaleUpReturn
    PROVE  /\ Active' = Active /\ Draining' = Draining
           /\ Cardinality(Provisioning') = Cardinality(Provisioning) + call.count
<1>1. PICK S \in SUBSET Unused : Cardinality(S) = call.count /\ AddServers(S)
    BY DEF ScaleUpReturn
<1>2. S \subseteq Server /\ \A s \in S : server[s] = "gone"
    BY DEF Unused, InState
<1>3. Active' = Active /\ Draining' = Draining
    BY <1>1, <1>2 DEF AddServers, Active, Draining, InState
<1>4. Provisioning' = Provisioning \cup S /\ Provisioning \cap S = {}
    BY <1>1, <1>2 DEF AddServers, Provisioning, InState
<1>5. IsFiniteSet(S) /\ Cardinality(S) \in Nat
    BY <1>2, FleetAssumption, FS_Subset, FS_CardinalityType
<1>6. IsFiniteSet(Provisioning) /\ Cardinality(Provisioning) \in Nat
    BY ServerCountsAreNumbers DEF Provisioning
<1>7. Cardinality(Provisioning \cup S) = Cardinality(Provisioning) + Cardinality(S)
  <2>1. Cardinality(Provisioning \cup S) =
            Cardinality(Provisioning) + Cardinality(S) - Cardinality(Provisioning \cap S)
      BY <1>5, <1>6, FS_Union
  <2>2. Cardinality(Provisioning \cap S) = 0
      BY <1>4, FS_EmptySet
  <2>. QED
      BY <1>5, <1>6, <2>1, <2>2
<1>. QED
    BY <1>1, <1>3, <1>4, <1>7

LEMMA ScaleDownReturnMoves ==
    ASSUME FleetInv, ScaleDownReturn
    PROVE  /\ Active' = Active \ call.victims
           /\ Draining' = Draining \cup call.victims /\ Draining \cap call.victims = {}
           /\ Provisioning' = Provisioning
<1>1. call.victims \subseteq Server /\ \A s \in call.victims : server[s] = "active"
    BY DEF FleetInv, VictimsStayActive, Active, InState
<1>. QED
    BY <1>1 DEF ScaleDownReturn, DrainServers, Active, Provisioning, Draining, InState

LEMMA WakeMoves ==
    ASSUME FleetInv, NEW t \in timers, Wake(t)
    PROVE  \/ /\ t.to = "active" /\ t.id \in Provisioning /\ t.id \notin Active
              /\ Provisioning' = Provisioning \ {t.id} /\ Active' = Active \cup {t.id}
              /\ Draining' = Draining
           \/ /\ t.to = "gone" /\ t.id \in Draining
              /\ Draining' = Draining \ {t.id}
              /\ Active' = Active /\ Provisioning' = Provisioning
<1>1. /\ t.id \in Server /\ server \in [Server -> ServerState]
      /\ \/ t.to = "active" /\ server[t.id] = "provisioning"
         \/ t.to = "gone" /\ server[t.id] = "draining"
    BY DEF FleetInv, FleetTypeOK, SleepersMatchStates, Timer
<1>. QED
    BY <1>1 DEF Wake, Active, Provisioning, Draining, InState

-----------------------------------------------------------------------------

(* The strengthened invariant of the fleet. *)
THEOREM FleetInvariant == FleetSpec => []FleetInv
BY InitFleetInv, NextFleetInv, PTL DEF FleetSpec

(* The type invariant. *)
THEOREM FleetTypeCorrect == FleetSpec => []FleetTypeOK
BY FleetInvariant, PTL DEF FleetInv

(* Every goroutine sleeps for a server in the state it expects, one per    *)
(* server (simulator_scaler.go:87-93, 126-148).                            *)
THEOREM SleepersMatchStatesHolds == FleetSpec => []SleepersMatchStates
BY FleetInvariant, PTL DEF FleetInv

(* The servers a scale-down chose are still active when it drains them     *)
(* (simulator_scaler.go:108-131).                                          *)
THEOREM VictimsStayActiveHolds == FleetSpec => []VictimsStayActive
BY FleetInvariant, PTL DEF FleetInv

(* No server ever skips or repeats a state of its life, although           *)
(* UpdateState (state_tracker.go:45-81) would let it.                      *)
THEOREM LifecycleHolds == FleetSpec => Lifecycle
<1>. DEFINE Legal == {<<"gone", "provisioning">>, <<"provisioning", "active">>,
                      <<"active", "draining">>, <<"draining", "gone">>}
            OnlyLegal == \A s \in Server :
                            server'[s] # server[s] => <<server[s], server'[s]>> \in Legal
<1>1. ASSUME FleetInv, FleetNext PROVE OnlyLegal
  <2>1. CASE ScaleUpReturn
      BY <2>1 DEF ScaleUpReturn, AddServers, Unused, InState
  <2>2. CASE ScaleDownReturn
      BY <1>1, <2>2
         DEF ScaleDownReturn, DrainServers, FleetInv, VictimsStayActive, Active, InState
  <2>3. ASSUME NEW t \in timers, Wake(t) PROVE OnlyLegal
    <3>1. /\ t.id \in Server /\ server \in [Server -> ServerState]
          /\ \/ t.to = "active" /\ server[t.id] = "provisioning"
             \/ t.to = "gone" /\ server[t.id] = "draining"
        BY <1>1, <2>3 DEF FleetInv, FleetTypeOK, SleepersMatchStates, Timer
    <3>. QED
        BY <3>1, <2>3 DEF Wake
  <2>4. CASE UNCHANGED server
      BY <2>4
  <2>. QED
      BY <1>1, <2>1, <2>2, <2>3, <2>4
         DEF FleetNext, FleetStep, ScaleUpBegin, ScaleDownBegin, FleetTick
<1>2. FleetInv /\ [FleetNext]_fleetVars => [OnlyLegal]_fleetVars
    BY <1>1
<1>. QED
    BY <1>2, FleetInvariant, PTL DEF FleetSpec, Lifecycle

-----------------------------------------------------------------------------
(* The control loop. *)

LargestStep == AtLeast(MaxScaleStep, EmergencyDelta)

(* The scaler works exactly while the loop waits for it. *)
CallBelongsToLoop ==
    /\ pc # "scaling" => call = NoCall
    /\ pc = "scaling" => call.kind # "none" /\ call.kind = decision.action

(* The snapshot is outdated in one direction only. *)
SnapshotIsLowerBound == pc = "decide" => snapshot.active <= Cardinality(Active)

(* What was decided can still be carried out. *)
DecisionStands ==
    pc \in {"execute", "scaling"} =>
        /\ decision.action = "up" => decision.target - decision.current <= LargestStep
        /\ decision.action = "up" /\ ~decision.isEmergency => sinceScaleUp >= CooldownPeriod
        /\ decision.action = "down" =>
              /\ decision.target = decision.current - 1
              /\ MinServers < decision.current /\ decision.current <= Cardinality(Active)
              /\ sinceScaleDown >= ScaleDownCooldownPeriod

(* The call does what was decided. *)
CallIsDecided ==
    /\ call.kind = "up" => call.count \in 1..LargestStep
    /\ call.kind = "down" => Cardinality(call.victims) = 1

(* Except between a change and its recording, the cooldowns run at least   *)
(* since the last change.                                                  *)
CooldownsCoverChanges ==
    pc # "record" => sinceScaleUp <= sinceApplied /\ sinceScaleDown <= sinceApplied

StoppedMeansDone == stop = "returned" => pc = "done"

IInv ==
    /\ TypeOK
    /\ FleetInv
    /\ MinServersKept
    /\ CallBelongsToLoop
    /\ SnapshotIsLowerBound
    /\ DecisionStands
    /\ CallIsDecided
    /\ CooldownsCoverChanges
    /\ StoppedMeansDone

-----------------------------------------------------------------------------

LEMMA LargestStepType == LargestStep \in Nat
BY ConfigAssumption DEF LargestStep, AtLeast, EmergencyDelta

LEMMA HistoryCapBounds ==
    HistoryCap \in Nat /\ CooldownPeriod <= HistoryCap /\ ScaleDownCooldownPeriod <= HistoryCap
BY ConfigAssumption DEF HistoryCap, AtLeast

LEMMA NothingLoadedType ==
    /\ NoSample \in {NoSample} /\ NoState \in [active : Nat, total : Nat]
    /\ NoDecision \in [action : {"maintain", "up", "down"}, current : Nat, target : Nat,
                       isEmergency : BOOLEAN, cooldownActive : {FALSE}]
BY DEF NoSample, NoState, NoDecision, Maintain

LEMMA InitIInv == Init => IInv
<1>. SUFFICES ASSUME Init PROVE IInv
    OBVIOUS
<1>1. FleetInv
    BY InitFleetInv DEF Init
<1>2. EngineTypeOK /\ sinceScaleUp <= sinceApplied /\ sinceScaleDown <= sinceApplied
    BY ConfigAssumption, HistoryCapBounds DEF Init, EngineInit, EngineTypeOK
<1>3. TypeOK
  <2>1. FleetTypeOK
      BY <1>1 DEF FleetInv
  <2>2. tickerLeft \in 1..CollectInterval /\ sinceApplied \in 0..HistoryCap
      BY LoopAssumption, HistoryCapBounds DEF Init
  <2>. QED
      BY <1>2, <2>1, <2>2, NothingLoadedType DEF Init, TypeOK
<1>4. Active = InitialServers
    BY FleetAssumption DEF Init, FleetInit, Active, InState
<1>5. MinServersKept
    BY <1>4, InitialAssumption, ConfigAssumption DEF MinServersKept
<1>. QED
    BY <1>1, <1>2, <1>3, <1>5
       DEF Init, IInv, FleetInit, NoCall, CallBelongsToLoop, SnapshotIsLowerBound, DecisionStands,
           CallIsDecided, CooldownsCoverChanges, StoppedMeansDone

(* A step that leaves the fleet alone leaves what is said of it alone. *)
LEMMA FleetUntouched ==
    ASSUME FleetInv, UNCHANGED fleetVars
    PROVE  /\ FleetInv' /\ UNCHANGED <<server, timers, call>>
           /\ Active' = Active /\ Provisioning' = Provisioning /\ Draining' = Draining
BY NextFleetInv DEF fleetVars, Active, Provisioning, Draining, InState

(* The steps of the loop that only move it along. *)
LEMMA SelectKeepsInv ==
    ASSUME IInv, SelectTick \/ SelectDone \/ BeginCollect
    PROVE  IInv'
<1>1. FleetInv' /\ UNCHANGED <<fleetVars, engineVars>> /\ Active' = Active
    BY FleetUntouched DEF IInv, SelectTick, SelectDone, BeginCollect
<1>2. CycleBudget > 0 => CycleBudget \in Nat
    BY LoopAssumption DEF CycleBudget
<1>3. TypeOK'
    BY <1>1, <1>2
       DEF IInv, TypeOK, FleetInv, EngineTypeOK, engineVars, SelectTick, SelectDone, BeginCollect
<1>. QED
    BY <1>1, <1>3
       DEF IInv, MinServersKept, CallBelongsToLoop, SnapshotIsLowerBound, DecisionStands,
           CallIsDecided, CooldownsCoverChanges, StoppedMeansDone, SelectTick, SelectDone,
           BeginCollect, engineVars, fleetVars

(* The steps that end a cycle without a change of the cluster. *)
LEMMA EndCycleKeepsInv ==
    ASSUME IInv, CollectFails \/ ScalingFails
    PROVE  IInv'
<1>1. /\ FleetInv' /\ UNCHANGED <<fleetVars, engineVars>> /\ Active' = Active
      /\ EndCycle /\ pc \in {"begin", "collecting", "execute"}
      /\ UNCHANGED <<highFor, lowFor, tickerLeft, tickPending, stop, sinceApplied>>
      /\ collectLeft' \in {0, collectLeft}
    BY FleetUntouched DEF IInv, CollectFails, ScalingFails
<1>2. TypeOK'
  <2>1. EngineTypeOK' /\ FleetTypeOK'
      BY <1>1 DEF IInv, TypeOK, FleetInv, EngineTypeOK, engineVars
  <2>2. collectLeft' \in Nat
      BY <1>1 DEF IInv, TypeOK
  <2>. QED
      BY <1>1, <2>1, <2>2, NothingLoadedType DEF IInv, TypeOK, EndCycle
<1>. QED
    BY <1>1, <1>2
       DEF IInv, MinServersKept, CallBelongsToLoop, SnapshotIsLowerBound, DecisionStands,
           CallIsDecided, CooldownsCoverChanges, StoppedMeansDone, EndCycle, engineVars, fleetVars

LEMMA CollectSucceedsKeepsInv ==
    ASSUME IInv, NEW sample \in Samples, CollectSucceeds(sample)
    PROVE  IInv'
<1>1. FleetInv' /\ UNCHANGED <<fleetVars, engineVars>> /\ Active' = Active
    BY FleetUntouched DEF IInv, CollectSucceeds
<1>2. TypeOK'
  <2>1. EngineTypeOK' /\ FleetTypeOK'
      BY <1>1 DEF IInv, TypeOK, FleetInv, EngineTypeOK, engineVars
  <2>2. /\ highFor' \in {NotTracked} \cup 0..SustainedHighDuration
        /\ lowFor' \in {NotTracked} \cup 0..SustainedLowDuration
      BY ConfigAssumption DEF IInv, TypeOK, CollectSucceeds, Streak, NotTracked
  <2>. QED
      BY <2>1, <2>2 DEF IInv, TypeOK, CollectSucceeds
<1>. QED
    BY <1>1, <1>2
       DEF IInv, MinServersKept, CallBelongsToLoop, SnapshotIsLowerBound, DecisionStands,
           CallIsDecided, CooldownsCoverChanges, StoppedMeansDone, CollectSucceeds,
           engineVars, fleetVars

LEMMA ReadStateKeepsInv ==
    ASSUME IInv, ReadState
    PROVE  IInv'
<1>1. FleetInv' /\ UNCHANGED <<fleetVars, engineVars>> /\ Active' = Active
    BY FleetUntouched DEF IInv, ReadState
<1>2. /\ snapshot' \in [active : Nat, total : Nat]
      /\ snapshot'.active = Cardinality(Active)
  <2>1. Cardinality(Active) \in Nat
      BY ServerCountsAreNumbers DEF Active
  <2>2. Cardinality(Server \ Unused) \in Nat
      BY FleetAssumption, FS_Difference, FS_CardinalityType
  <2>. QED
      BY <2>1, <2>2 DEF ReadState, GetClusterState
<1>3. TypeOK'
    BY <1>1, <1>2 DEF IInv, TypeOK, FleetInv, EngineTypeOK, engineVars, ReadState
<1>4. SnapshotIsLowerBound'
    BY <1>1, <1>2, ServerCountsAreNumbers DEF SnapshotIsLowerBound, Active
<1>. QED
    BY <1>1, <1>3, <1>4
       DEF IInv, MinServersKept, CallBelongsToLoop, DecisionStands,
           CallIsDecided, CooldownsCoverChanges, StoppedMeansDone, ReadState, engineVars, fleetVars

(* A decision is made on a lower bound of the active servers, outside the  *)
(* cooldown of its kind.                                                   *)
LEMMA MakeDecisionKeepsInv ==
    ASSUME IInv, MakeDecision
    PROVE  IInv'
<1>1. FleetInv' /\ UNCHANGED <<fleetVars, engineVars>> /\ Active' = Active
    BY FleetUntouched DEF IInv, MakeDecision
<1>2. Cardinality(Active) \in Nat
    BY ServerCountsAreNumbers DEF Active
<1>3. analyzed.avgCPU \in Nat /\ snapshot \in [active : Nat, total : Nat] /\ EngineTypeOK
  <2>1. \A sample \in Samples : sample.avgCPU \in Nat
      BY LoopAssumption, InputAssumption
  <2>2. NoSample.avgCPU \in Nat
      BY DEF NoSample
  <2>. QED
      BY <2>1, <2>2 DEF IInv, TypeOK
<1>. DEFINE a == [avgCPU |-> analyzed.avgCPU, trend |-> analyzed.trend,
                  hasSpike |-> analyzed.hasSpike, highFor |-> highFor, lowFor |-> lowFor]
            d == DecideNow
<1>4. a.avgCPU \in Nat /\ d = Decide(a, NoPrediction, snapshot)
    BY <1>3 DEF DecideNow
<1>. HIDE DEF a, d
<1>5. /\ d \in [action : {"maintain", "up", "down"}, current : Nat, target : Nat,
                isEmergency : BOOLEAN, cooldownActive : BOOLEAN]
      /\ d.current = snapshot.active
      /\ d.action = "up" => d.target - d.current <= LargestStep
      /\ d.action = "up" /\ ~d.isEmergency => sinceScaleUp >= CooldownPeriod
      /\ d.action = "down" => /\ d.target = d.current - 1 /\ d.current > MinServers
                              /\ sinceScaleDown >= ScaleDownCooldownPeriod
    BY <1>3, <1>4, DecideAnswers DEF LargestStep
<1>6. CASE ~ShouldExecute(d)
  <2>1. /\ pc' = "select" /\ analyzed' = NoSample /\ snapshot' = NoState
        /\ UNCHANGED <<decision, highFor, lowFor, collectLeft, tickerLeft, tickPending, stop, sinceApplied>>
      BY <1>6 DEF MakeDecision, d
  <2>2. TypeOK'
      BY <1>1, <2>1, NothingLoadedType DEF IInv, TypeOK, FleetInv, EngineTypeOK, engineVars
  <2>. QED
      BY <1>1, <2>1, <2>2
         DEF IInv, MinServersKept, CallBelongsToLoop, SnapshotIsLowerBound, DecisionStands,
             CallIsDecided, CooldownsCoverChanges, StoppedMeansDone, MakeDecision, engineVars, fleetVars
<1>7. CASE ShouldExecute(d)
  <2>1. /\ pc' = "execute" /\ analyzed' = NoSample /\ snapshot' = NoState /\ decision' = d
        /\ UNCHANGED <<highFor, lowFor, collectLeft, tickerLeft, tickPending, stop, sinceApplied>>
      BY <1>7 DEF MakeDecision, d
  <2>2. d \in [action : {"maintain", "up", "down"}, current : Nat, target : Nat,
               isEmergency : BOOLEAN, cooldownActive : {FALSE}]
      BY <1>5, <1>7 DEF ShouldExecute
  <2>3. TypeOK'
      BY <1>1, <2>1, <2>2, NothingLoadedType DEF IInv, TypeOK, FleetInv, EngineTypeOK, engineVars
  <2>4. DecisionStands'
    <3>1. snapshot.active <= Cardinality(Active)
        BY DEF IInv, MakeDecision, SnapshotIsLowerBound
    <3>. QED
        BY <1>1, <1>2, <1>3, <1>5, <2>1, <3>1, ConfigAssumption, LargestStepType
           DEF DecisionStands, engineVars
  <2>. QED
      BY <1>1, <2>1, <2>3, <2>4
         DEF IInv, MinServersKept, CallBelongsToLoop, SnapshotIsLowerBound,
             CallIsDecided, CooldownsCoverChanges, StoppedMeansDone, MakeDecision, engineVars, fleetVars
<1>. QED
    BY <1>6, <1>7

(* The scaler accepts the request: a call for a positive number of         *)
(* servers, no more than the largest step, or for exactly one victim.      *)
LEMMA ScalingBeginsKeepsInv ==
    ASSUME IInv, ScalingBegins
    PROVE  IInv'
<1>1. /\ pc = "execute" /\ pc' = "scaling" /\ UNCHANGED engineVars
      /\ UNCHANGED <<analyzed, snapshot, decision, highFor, lowFor, collectLeft, tickerLeft,
                     tickPending, stop, sinceApplied>>
    BY DEF ScalingBegins
<1>2. decision.current \in Nat /\ decision.target \in Nat
    BY DEF IInv, TypeOK
<1>3. Delta \in Int
    BY <1>2 DEF Delta
<1>4. FleetInv'
    BY <1>3, ScaleUpBeginKeepsInv, ScaleDownBeginKeepsInv DEF ScalingBegins, IInv
<1>5. Active' = Active
    BY DEF ScalingBegins, ScaleUpBegin, ScaleDownBegin, Active, InState
<1>6. Cardinality(Active) \in Nat
    BY ServerCountsAreNumbers DEF Active
<1>7. call'.kind = decision.action /\ call'.kind # "none" /\ CallIsDecided'
  <2>1. CASE decision.action = "up" /\ ScaleUpBegin(Delta)
    <3>1. call'.kind = "up" /\ call'.count = Delta /\ Delta > 0
        BY <2>1, <1>3 DEF ScaleUpBegin, Rejects
    <3>2. Delta <= LargestStep
        BY <1>1, <2>1 DEF Delta, IInv, DecisionStands
    <3>. QED
        BY <2>1, <3>1, <3>2, <1>3, LargestStepType DEF CallIsDecided
  <2>2. CASE decision.action = "down" /\ ScaleDownBegin(Delta)
    <3>1. /\ decision.target = decision.current - 1
          /\ MinServers < decision.current /\ decision.current <= Cardinality(Active)
        BY <1>1, <2>2 DEF IInv, DecisionStands
    <3>2. Delta = 1
        BY <1>2, <2>2, <3>1 DEF Delta
    <3>3. Cardinality(Active) >= 1
        BY <1>2, <1>6, <3>1, ConfigAssumption
    <3>4. PICK V \in SUBSET Active :
              /\ Cardinality(V) = IF Delta > Cardinality(Active) THEN Cardinality(Active) ELSE Delta
              /\ call' = [kind |-> "down", count |-> Delta, victims |-> V, left |-> NotifyTimeout]
        BY <2>2 DEF ScaleDownBegin
    <3>5. Cardinality(V) = 1
        BY <1>6, <3>2, <3>3, <3>4
    <3>. QED
        BY <2>2, <3>4, <3>5 DEF CallIsDecided
  <2>. QED
      BY <2>1, <2>2 DEF ScalingBegins
<1>8. TypeOK'
    BY <1>1, <1>4 DEF IInv, TypeOK, FleetInv, EngineTypeOK, engineVars
<1>. QED
    BY <1>1, <1>4, <1>5, <1>7, <1>8
       DEF IInv, MinServersKept, CallBelongsToLoop, SnapshotIsLowerBound, DecisionStands,
           CooldownsCoverChanges, StoppedMeansDone, engineVars

(* The call returns: servers are added, or the one victim leaves a cluster *)
(* that has more active servers than its minimum.                          *)
LEMMA ScalingReturnsKeepsInv ==
    ASSUME IInv, ScalingReturns
    PROVE  IInv'
<1>1. /\ pc = "scaling" /\ pc' = "record" /\ sinceApplied' = 0 /\ UNCHANGED engineVars
      /\ UNCHANGED <<analyzed, snapshot, decision, highFor, lowFor, collectLeft, tickerLeft,
                     tickPending, stop>>
    BY DEF ScalingReturns
<1>2. FleetInv' /\ call' = NoCall
    BY ScaleUpReturnKeepsInv, ScaleDownReturnKeepsInv
       DEF ScalingReturns, IInv, ScaleUpReturn, ScaleDownReturn
<1>3. Cardinality(Active) \in Nat /\ IsFiniteSet(Active)
    BY ServerCountsAreNumbers DEF Active
<1>4. MinServersKept'
  <2>1. CASE ScaleUpReturn
      BY <2>1, ScaleUpReturnAdds DEF IInv, MinServersKept
  <2>2. CASE ScaleDownReturn
    <3>1. call.kind = "down" /\ decision.action = "down"
        BY <1>1, <2>2 DEF ScaleDownReturn, IInv, CallBelongsToLoop
    <3>2. Cardinality(call.victims) = 1 /\ call.victims \subseteq Active
        BY <3>1 DEF IInv, CallIsDecided, FleetInv, VictimsStayActive
    <3>3. PICK v : call.victims = {v}
        BY <1>3, <3>2, FS_Subset, FS_Singleton
    <3>4. Active' = Active \ {v} /\ v \in Active
        BY <2>2, <3>2, <3>3, ScaleDownReturnMoves DEF IInv
    <3>5. Cardinality(Active') = Cardinality(Active) - 1
        BY <1>3, <3>4, FS_RemoveElement
    <3>6. MinServers < Cardinality(Active)
      <4>1. MinServers < decision.current /\ decision.current <= Cardinality(Active)
          BY <1>1, <3>1 DEF IInv, DecisionStands
      <4>. QED
          BY <4>1, <1>3, ConfigAssumption DEF IInv, TypeOK
    <3>. QED
        BY <1>3, <3>5, <3>6, ConfigAssumption DEF MinServersKept
  <2>. QED
      BY <2>1, <2>2 DEF ScalingReturns
<1>5. TypeOK'
  <2>1. EngineTypeOK' /\ FleetTypeOK' /\ sinceApplied' \in 0..HistoryCap
      BY <1>1, <1>2, HistoryCapBounds DEF IInv, TypeOK, FleetInv, EngineTypeOK, engineVars
  <2>. QED
      BY <1>1, <2>1 DEF IInv, TypeOK
<1>6. stop # "returned"
    BY <1>1 DEF IInv, StoppedMeansDone
<1>. QED
    BY <1>1, <1>2, <1>4, <1>5, <1>6
       DEF IInv, CallBelongsToLoop, SnapshotIsLowerBound, DecisionStands, NoCall,
           CallIsDecided, CooldownsCoverChanges, StoppedMeansDone

(* Both cooldowns start anew, a moment after the change. *)
LEMMA RecordResultKeepsInv ==
    ASSUME IInv, RecordResult
    PROVE  IInv'
<1>1. /\ pc = "record" /\ EndCycle /\ sinceScaleUp' = 0 /\ sinceScaleDown' = 0
      /\ UNCHANGED <<highFor, lowFor, collectLeft, tickerLeft, tickPending, stop, sinceApplied>>
    BY DEF RecordResult, RecordScaling
<1>2. FleetInv' /\ UNCHANGED fleetVars /\ Active' = Active
    BY FleetUntouched DEF IInv, RecordResult
<1>3. EngineTypeOK' /\ FleetTypeOK'
    BY <1>1, <1>2, ConfigAssumption DEF EngineTypeOK, FleetInv
<1>4. TypeOK'
    BY <1>1, <1>3, NothingLoadedType DEF IInv, TypeOK, EndCycle
<1>5. sinceApplied' >= 0
    BY <1>1, HistoryCapBounds DEF IInv, TypeOK
<1>. QED
    BY <1>1, <1>2, <1>4, <1>5
       DEF IInv, MinServersKept, CallBelongsToLoop, SnapshotIsLowerBound, DecisionStands,
           CallIsDecided, CooldownsCoverChanges, StoppedMeansDone, EndCycle, fleetVars

LEMMA StopKeepsInv ==
    ASSUME IInv, StopBegin \/ StopReturn
    PROVE  IInv'
<1>1. FleetInv' /\ UNCHANGED <<fleetVars, engineVars>> /\ Active' = Active
    BY FleetUntouched DEF IInv, StopBegin, StopReturn
<1>2. TypeOK'
    BY <1>1 DEF IInv, TypeOK, FleetInv, EngineTypeOK, engineVars, StopBegin, StopReturn
<1>. QED
    BY <1>1, <1>2
       DEF IInv, MinServersKept, CallBelongsToLoop, SnapshotIsLowerBound, DecisionStands,
           CallIsDecided, CooldownsCoverChanges, StoppedMeansDone, StopBegin, StopReturn,
           engineVars, fleetVars

(* A goroutine that wakes up only ever adds to the active servers. *)
LEMMA ServerTransitionKeepsInv ==
    ASSUME IInv, NEW s \in Server, ServerTransition(s)
    PROVE  IInv'
<1>1. PICK t \in timers : t.id = s /\ Wake(t)
    BY DEF ServerTransition
<1>2. FleetInv' /\ UNCHANGED <<call, loopVars, engineVars>>
    BY <1>1, WakeKeepsInv DEF IInv, ServerTransition, Wake
<1>3. Active \subseteq Active'
    BY <1>1, WakeMoves DEF IInv
<1>4. Active' \subseteq Server
    BY DEF Active, InState
<1>5. /\ Cardinality(Active) \in Nat /\ Cardinality(Active') \in Nat
      /\ Cardinality(Active) <= Cardinality(Active')
  <2>1. IsFiniteSet(Active')
      BY <1>4, FleetAssumption, FS_Subset
  <2>. QED
      BY <1>3, <2>1, FS_Subset, FS_CardinalityType
<1>6. TypeOK'
    BY <1>2 DEF IInv, TypeOK, FleetInv, EngineTypeOK, engineVars, loopVars
<1>7. MinServersKept' /\ SnapshotIsLowerBound' /\ DecisionStands'
    BY <1>2, <1>5, ConfigAssumption
       DEF IInv, TypeOK, MinServersKept, SnapshotIsLowerBound, DecisionStands, engineVars, loopVars
<1>. QED
    BY <1>2, <1>6, <1>7
       DEF IInv, CallBelongsToLoop, CallIsDecided, CooldownsCoverChanges, StoppedMeansDone,
           engineVars, loopVars

(* Time passes: ages grow together and stop at their caps. *)
LEMMA TickKeepsInv ==
    ASSUME IInv, Tick
    PROVE  IInv'
<1>1. FleetInv' /\ UNCHANGED server
    BY FleetTickKeepsInv DEF IInv, Tick, FleetTick
<1>2. Active' = Active
    BY <1>1 DEF Active, InState
<1>3. UNCHANGED <<pc, analyzed, snapshot, decision, stop>>
    BY DEF Tick
<1>4. call'.kind = call.kind /\ call'.count = call.count /\ call'.victims = call.victims
    BY DEF Tick, FleetTick, IInv, FleetInv, FleetTypeOK, Call
<1>5. call = NoCall => call' = NoCall
    BY <1>1, <1>4 DEF FleetInv, CallIsConsistent, NoCall
<1>6. /\ sinceScaleUp \in 0..CooldownPeriod /\ sinceScaleDown \in 0..ScaleDownCooldownPeriod
      /\ sinceApplied \in 0..HistoryCap
    BY DEF IInv, TypeOK, EngineTypeOK
<1>7. /\ EngineTypeOK'
      /\ sinceApplied' \in 0..HistoryCap
      /\ sinceScaleUp <= sinceScaleUp' /\ sinceScaleDown <= sinceScaleDown'
      /\ sinceScaleUp <= sinceApplied => sinceScaleUp' <= sinceApplied'
      /\ sinceScaleDown <= sinceApplied => sinceScaleDown' <= sinceApplied'
    BY <1>6, HistoryCapBounds, ConfigAssumption DEF Tick, EngineTick, EngineTypeOK, AtMost
<1>8. TypeOK'
  <2>1. /\ highFor' \in {NotTracked} \cup 0..SustainedHighDuration
        /\ lowFor' \in {NotTracked} \cup 0..SustainedLowDuration
      BY ConfigAssumption DEF Tick, IInv, TypeOK, StreakTick, AtMost, NotTracked
  <2>2. collectLeft' \in Nat
      BY CountdownType DEF Tick, IInv, TypeOK
  <2>3. tickerLeft' \in 1..CollectInterval /\ tickPending' \in BOOLEAN
    <3>1. tickerLeft \in 1..CollectInterval /\ tickPending \in BOOLEAN
        BY DEF IInv, TypeOK
    <3>2. CASE pc = "done"
        BY <3>1, <3>2 DEF Tick
    <3>3. CASE pc # "done"
      <4>1. tickerLeft' = IF tickerLeft = 1 THEN CollectInterval ELSE tickerLeft - 1
          BY <3>3 DEF Tick
      <4>2. tickPending' = (tickPending \/ tickerLeft = 1)
          BY <3>3 DEF Tick
      <4>3. tickerLeft' \in 1..CollectInterval
          BY <3>1, <4>1, LoopAssumption
      <4>. QED
          BY <4>2, <4>3
    <3>. QED
        BY <3>2, <3>3
  <2>. QED
      BY <1>1, <1>3, <1>7, <2>1, <2>2, <2>3 DEF IInv, TypeOK, FleetInv
<1>9. DecisionStands'
    BY <1>2, <1>3, <1>6, <1>7, ConfigAssumption DEF IInv, DecisionStands, EngineTypeOK
<1>. QED
    BY <1>1, <1>2, <1>3, <1>4, <1>5, <1>7, <1>8, <1>9
       DEF IInv, MinServersKept, CallBelongsToLoop, SnapshotIsLowerBound,
           CallIsDecided, CooldownsCoverChanges, StoppedMeansDone

LEMMA NextIInv == IInv /\ [Next]_vars => IInv'
<1>. SUFFICES ASSUME IInv, [Next]_vars PROVE IInv'
    OBVIOUS
<1>1. CASE SelectTick \/ SelectDone \/ BeginCollect
    BY <1>1, SelectKeepsInv
<1>2. CASE CollectFails \/ ScalingFails
    BY <1>2, EndCycleKeepsInv
<1>3. ASSUME NEW sample \in Samples, CollectSucceeds(sample) PROVE IInv'
    BY <1>3, CollectSucceedsKeepsInv
<1>4. CASE ReadState
    BY <1>4, ReadStateKeepsInv
<1>5. CASE MakeDecision
    BY <1>5, MakeDecisionKeepsInv
<1>6. CASE ScalingBegins
    BY <1>6, ScalingBeginsKeepsInv
<1>7. CASE ScalingReturns
    BY <1>7, ScalingReturnsKeepsInv
<1>8. CASE RecordResult
    BY <1>8, RecordResultKeepsInv
<1>9. CASE StopBegin \/ StopReturn
    BY <1>9, StopKeepsInv
<1>10. ASSUME NEW s \in Server, ServerTransition(s) PROVE IInv'
    BY <1>10, ServerTransitionKeepsInv
<1>11. CASE Tick
    BY <1>11, TickKeepsInv
<1>12. CASE UNCHANGED vars
  <2>1. FleetInv' /\ UNCHANGED <<call, loopVars, engineVars>> /\ Active' = Active
      BY <1>12, FleetUntouched DEF vars, IInv
  <2>2. TypeOK'
      BY <2>1 DEF IInv, TypeOK, FleetInv, EngineTypeOK, engineVars, loopVars
  <2>. QED
      BY <2>1, <2>2
         DEF IInv, MinServersKept, CallBelongsToLoop, SnapshotIsLowerBound, DecisionStands,
             CallIsDecided, CooldownsCoverChanges, StoppedMeansDone, engineVars, loopVars
<1>. QED
    BY <1>1, <1>2, <1>3, <1>4, <1>5, <1>6, <1>7, <1>8, <1>9, <1>10, <1>11, <1>12
       DEF Next, PipelineStep

-----------------------------------------------------------------------------

(* The strengthened invariant holds in every reachable state. *)
THEOREM LoopInvariant == Spec => []IInv
BY InitIInv, NextIInv, PTL DEF Spec

(* Every variable of the loop, the engine and the fleet keeps its type. *)
THEOREM LoopTypeCorrect == Spec => []TypeOK
BY LoopInvariant, PTL DEF IInv

(* The cluster keeps its minimum of active servers although every          *)
(* scale-down is decided on an earlier snapshot (pipeline.go:135-151,      *)
(* simulator_scaler.go:95-139).                                            *)
THEOREM MinServersKeptHolds == Spec => []MinServersKept
BY LoopInvariant, PTL DEF IInv

(* Changes of the cluster keep the cooldowns, measured when the servers    *)
(* change and not when the engine records it (pipeline.go:189-227,         *)
(* engine.go:297-339).                                                     *)
THEOREM ScalingsAreSpacedHolds == Spec => ScalingsAreSpaced
<1>. DEFINE Spaced == /\ Applied("up") /\ ~decision.isEmergency => sinceApplied >= CooldownPeriod
                      /\ Applied("down") => sinceApplied >= ScaleDownCooldownPeriod
<1>1. ASSUME IInv PROVE Spaced
  <2>1. CASE call.kind = "none"
      BY <2>1 DEF Applied
  <2>2. CASE call.kind # "none"
    <3>1. pc = "scaling" /\ call.kind = decision.action
        BY <1>1, <2>2 DEF IInv, CallBelongsToLoop, NoCall
    <3>2. /\ sinceScaleUp <= sinceApplied /\ sinceScaleDown <= sinceApplied
          /\ decision.action = "up" /\ ~decision.isEmergency => sinceScaleUp >= CooldownPeriod
          /\ decision.action = "down" => sinceScaleDown >= ScaleDownCooldownPeriod
        BY <1>1, <3>1 DEF IInv, CooldownsCoverChanges, DecisionStands
    <3>3. /\ sinceScaleUp \in Int /\ sinceScaleDown \in Int /\ sinceApplied \in Int
          /\ CooldownPeriod \in Int /\ ScaleDownCooldownPeriod \in Int
        BY <1>1, ConfigAssumption, HistoryCapBounds DEF IInv, TypeOK, EngineTypeOK
    <3>. QED
        BY <3>1, <3>2, <3>3 DEF Applied
  <2>. QED
      BY <2>1, <2>2
<1>2. IInv /\ [Next]_vars => [Spaced]_vars
    BY <1>1
<1>. QED
    BY <1>2, LoopInvariant, PTL DEF Spec, ScalingsAreSpaced

(* No cycle after the one that the cancellation met changes anything, and  *)
(* after Stop has returned the loop does not move (pipeline.go:71-121).    *)
THEOREM NothingAfterStopHolds == Spec => NothingAfterStop
<1>. DEFINE Still == /\ LoopIsOver' /\ UNCHANGED call
                     /\ stop = "returned" => UNCHANGED pc
                     /\ \A s \in Server :
                           server'[s] # server[s] => server'[s] \in {"active", "gone"}
<1>1. ASSUME IInv, Next, LoopIsOver PROVE Still
  <2>1. /\ pc \in {"select", "begin", "done"} /\ call = NoCall /\ cancelled
        /\ stop = "returned" => pc = "done"
      BY <1>1 DEF IInv, StoppedMeansDone, CallBelongsToLoop, LoopIsOver, cancelled
  <2>2. ASSUME PipelineStep
        PROVE  Still
    <3>1. SelectTick \/ SelectDone \/ CollectFails
        BY <2>1, <2>2
           DEF PipelineStep, BeginCollect, CollectSucceeds, ReadState, MakeDecision, ScalingFails,
               ScalingBegins, ScalingReturns, RecordResult
    <3>2. /\ UNCHANGED <<stop, call, server>> /\ pc # "done"
          /\ pc' \in {"select", "begin", "done"}
        BY <2>1, <3>1 DEF SelectTick, SelectDone, CollectFails, EndCycle, fleetVars
    <3>. QED
        BY <2>1, <3>2 DEF LoopIsOver, cancelled
  <2>3. ASSUME StopBegin \/ StopReturn
        PROVE  Still
      BY <2>1, <2>3 DEF StopBegin, StopReturn, fleetVars, LoopIsOver, cancelled
  <2>4. ASSUME NEW s \in Server, ServerTransition(s)
        PROVE  Still
    <3>1. PICK t \in timers : t.id = s /\ Wake(t)
        BY <2>4 DEF ServerTransition
    <3>2. t.to \in {"active", "gone"} /\ server \in [Server -> ServerState]
        BY <1>1 DEF IInv, FleetInv, FleetTypeOK, Timer
    <3>3. UNCHANGED <<pc, stop, call>>
        BY <2>4, <3>1 DEF Wake, ServerTransition, loopVars
    <3>4. \A r \in Server : server'[r] # server[r] => server'[r] \in {"active", "gone"}
        BY <3>1, <3>2 DEF Wake
    <3>. QED
        BY <2>1, <3>3, <3>4 DEF LoopIsOver, cancelled
  <2>5. ASSUME Tick
        PROVE  Still
    <3>1. UNCHANGED <<pc, stop, call, server>>
        BY <2>1, <2>5 DEF Tick, FleetTick, NoCall, Countdown
    <3>. QED
        BY <2>1, <3>1 DEF LoopIsOver, cancelled
  <2>. QED
      BY <1>1, <2>2, <2>3, <2>4, <2>5 DEF Next
<1>2. IInv /\ [Next]_vars => [LoopIsOver => Still]_vars
    BY <1>1
<1>. QED
    BY <1>2, LoopInvariant, PTL DEF Spec, NothingAfterStop

-----------------------------------------------------------------------------
(* Changes that do not overlap, under the conditions that README.md:246    *)
(* takes for granted: goroutines on time, a cooldown that outlasts the     *)
(* provisioning, and no sample at or above the emergency threshold.        *)

TimelyConfig ==
    /\ TimelyWakeups
    /\ ProvisionTime < CooldownPeriod
    /\ \A sample \in Samples : sample.avgCPU < EmergencyCPUThreshold

(* Whoever provisions sleeps for the rest of the cooldown at most.         *)
ProvisioningWithinCooldown ==
    \A t \in timers : t.to = "active" =>
        /\ t.left <= ProvisionTime
        /\ pc # "record" => sinceScaleUp + t.left <= ProvisionTime

(* Outside the cooldown the snapshot is exact until the decision is made.  *)
SnapshotIsExact ==
    pc = "decide" => InScaleUpCooldown \/ snapshot.active = Cardinality(Active)

(* A scale-up that was decided still leads to its target, nothing more.    *)
TargetStands ==
    /\ pc \in {"execute", "scaling"} /\ decision.action = "up" =>
          /\ ~decision.isEmergency
          /\ decision.current = Cardinality(Active)
          /\ decision.target <= MaxServers
    /\ call.kind = "up" => call.count = decision.target - decision.current

MaxInv ==
    /\ ProvisioningWithinCooldown
    /\ SnapshotIsExact
    /\ TargetStands
    /\ WithinMaxServers

(* Outside the cooldown nobody provisions.                                 *)
LEMMA NobodyProvisions ==
    ASSUME TimelyConfig, IInv, MaxInv, pc # "record", ~InScaleUpCooldown
    PROVE  Provisioning = {}
<1>. SUFFICES ASSUME NEW s \in Provisioning PROVE FALSE
    OBVIOUS
<1>1. server[s] = "provisioning"
    BY DEF Provisioning, InState
<1>2. PICK t \in timers : t.id = s
    BY DEF IInv, FleetInv, SleepersMatchStates
<1>3. t.to = "active"
    BY <1>1, <1>2 DEF IInv, FleetInv, SleepersMatchStates
<1>4. sinceScaleUp + t.left <= ProvisionTime
    BY <1>3 DEF MaxInv, ProvisioningWithinCooldown
<1>5. t.left \in Nat /\ sinceScaleUp \in Nat
    BY DEF IInv, FleetInv, FleetTypeOK, Timer, TypeOK, EngineTypeOK
<1>. QED
    BY <1>4, <1>5, FleetAssumption, ConfigAssumption DEF TimelyConfig, InScaleUpCooldown

(* An ordinary scale-up does not ask for more than the maximum. *)
LEMMA DecisionWithinMax ==
    ASSUME NEW a, a.avgCPU \in Nat, a.avgCPU < EmergencyCPUThreshold,
           NEW p, NEW s \in [active : Nat, total : Nat], NEW d, d = Decide(a, p, s),
           d.action = "up"
    PROVE  ~d.isEmergency /\ d.target <= MaxServers
<1>. DEFINE delta == CalculateScaleUpDelta(a, s)
<1>1. ~(a.avgCPU >= EmergencyCPUThreshold)
    BY ConfigAssumption
<1>2. delta \in 1..MaxScaleStep
    BY ScaleUpDeltaInRange
<1>. HIDE DEF delta
<1>3. Maintain(s).action # "up" /\ InCooldown(s).action # "up"
    BY DEF Maintain, InCooldown
<1>4. CreateScaleDownDecision(s, ScaleDownDelta).action # "up"
    BY DEF CreateScaleDownDecision, Maintain
<1>5. d = CreateScaleUpDecision(s, delta, FALSE)
    BY <1>1, <1>3, <1>4 DEF Decide, delta
<1>6. d.isEmergency = FALSE /\ d.target = AtMost(s.active + delta, MaxServers)
    BY <1>5 DEF CreateScaleUpDecision, Maintain
<1>. QED
    BY <1>2, <1>6, ConfigAssumption DEF AtMost

LEMMA InitMaxInv == TimelyConfig /\ Init => MaxInv
<1>. SUFFICES ASSUME TimelyConfig, Init PROVE MaxInv
    OBVIOUS
<1>1. Active = InitialServers /\ Provisioning = {} /\ timers = {} /\ call = NoCall
    BY FleetAssumption DEF Init, FleetInit, Active, Provisioning, InState
<1>2. WithinMaxServers
    BY <1>1, InitialAssumption, ConfigAssumption, FS_EmptySet DEF WithinMaxServers
<1>. QED
    BY <1>1, <1>2
       DEF Init, MaxInv, ProvisioningWithinCooldown, SnapshotIsExact, TargetStands, NoCall

(* The steps of the loop, and Stop, that touch neither the fleet nor the   *)
(* engine, lead to no place where a snapshot or a decision is in hand.     *)
LEMMA LoopMovesKeepMaxInv ==
    ASSUME TimelyConfig, IInv, MaxInv,
           \/ SelectTick \/ SelectDone \/ BeginCollect \/ CollectFails \/ ScalingFails
           \/ \E sample \in Samples : CollectSucceeds(sample)
    PROVE  MaxInv'
<1>1. /\ UNCHANGED <<fleetVars, engineVars>>
      /\ pc # "record" /\ pc' \notin {"decide", "execute", "scaling", "record"} /\ call = NoCall
    BY DEF SelectTick, SelectDone, BeginCollect, CollectFails, ScalingFails, CollectSucceeds,
           EndCycle, IInv, CallBelongsToLoop
<1>2. Active' = Active /\ Provisioning' = Provisioning
    BY <1>1 DEF fleetVars, Active, Provisioning, InState
<1>. QED
    BY <1>1, <1>2
       DEF MaxInv, ProvisioningWithinCooldown, SnapshotIsExact, TargetStands, WithinMaxServers,
           NoCall, fleetVars, engineVars

LEMMA StutterKeepsMaxInv ==
    ASSUME TimelyConfig, IInv, MaxInv, StopBegin \/ StopReturn \/ UNCHANGED vars
    PROVE  MaxInv'
<1>1. UNCHANGED <<fleetVars, engineVars, pc, snapshot, decision>>
    BY DEF StopBegin, StopReturn, vars, loopVars
<1>2. Active' = Active /\ Provisioning' = Provisioning
    BY <1>1 DEF fleetVars, Active, Provisioning, InState
<1>. QED
    BY <1>1, <1>2
       DEF MaxInv, ProvisioningWithinCooldown, SnapshotIsExact, TargetStands, WithinMaxServers,
           InScaleUpCooldown, fleetVars, engineVars

LEMMA ReadStateKeepsMaxInv ==
    ASSUME TimelyConfig, IInv, MaxInv, ReadState
    PROVE  MaxInv'
<1>1. /\ UNCHANGED <<fleetVars, engineVars>> /\ pc = "read" /\ pc' = "decide"
      /\ snapshot'.active = Cardinality(Active) /\ call = NoCall
    BY DEF ReadState, GetClusterState, IInv, CallBelongsToLoop
<1>2. Active' = Active /\ Provisioning' = Provisioning
    BY <1>1 DEF fleetVars, Active, Provisioning, InState
<1>. QED
    BY <1>1, <1>2
       DEF MaxInv, ProvisioningWithinCooldown, SnapshotIsExact, TargetStands, WithinMaxServers,
           NoCall, fleetVars, engineVars

(* A scale-up is decided outside the cooldown, so on an exact snapshot.    *)
LEMMA MakeDecisionKeepsMaxInv ==
    ASSUME TimelyConfig, IInv, MaxInv, MakeDecision
    PROVE  MaxInv'
<1>1. /\ UNCHANGED <<fleetVars, engineVars>> /\ pc = "decide" /\ call = NoCall
      /\ pc' \in {"select", "execute"}
      /\ pc' = "execute" => decision' = DecideNow
    BY DEF MakeDecision, IInv, CallBelongsToLoop
<1>2. Active' = Active /\ Provisioning' = Provisioning
    BY <1>1 DEF fleetVars, Active, Provisioning, InState
<1>3. /\ analyzed.avgCPU \in Nat /\ analyzed.avgCPU < EmergencyCPUThreshold
      /\ snapshot \in [active : Nat, total : Nat] /\ EngineTypeOK
  <2>1. \A sample \in Samples : sample.avgCPU \in Nat /\ sample.avgCPU < EmergencyCPUThreshold
      BY LoopAssumption, InputAssumption DEF TimelyConfig
  <2>2. NoSample.avgCPU \in Nat /\ NoSample.avgCPU < EmergencyCPUThreshold
      BY ConfigAssumption DEF NoSample
  <2>. QED
      BY <2>1, <2>2 DEF IInv, TypeOK
<1>. DEFINE a == [avgCPU |-> analyzed.avgCPU, trend |-> analyzed.trend,
                  hasSpike |-> analyzed.hasSpike, highFor |-> highFor, lowFor |-> lowFor]
            d == DecideNow
<1>4. /\ a.avgCPU \in Nat /\ a.avgCPU < EmergencyCPUThreshold
      /\ d = Decide(a, NoPrediction, snapshot)
    BY <1>3 DEF DecideNow
<1>. HIDE DEF a, d
<1>5. ASSUME pc' = "execute", decision'.action = "up"
      PROVE  /\ ~decision'.isEmergency /\ decision'.target <= MaxServers
             /\ decision'.current = Cardinality(Active)
  <2>1. decision' = d
      BY <1>1, <1>5 DEF d
  <2>2. ~d.isEmergency /\ d.target <= MaxServers
      BY <1>3, <1>4, <1>5, <2>1, DecisionWithinMax
  <2>3. d.current = snapshot.active /\ sinceScaleUp >= CooldownPeriod
      BY <1>3, <1>4, <1>5, <2>1, <2>2, DecideAnswers
  <2>4. ~InScaleUpCooldown
      BY <1>3, <2>3, ConfigAssumption DEF InScaleUpCooldown, EngineTypeOK
  <2>. QED
      BY <1>1, <2>1, <2>2, <2>3, <2>4 DEF MaxInv, SnapshotIsExact
<1>. QED
    BY <1>1, <1>2, <1>5
       DEF MaxInv, ProvisioningWithinCooldown, SnapshotIsExact, TargetStands, WithinMaxServers,
           NoCall, fleetVars, engineVars

LEMMA ScalingBeginsKeepsMaxInv ==
    ASSUME TimelyConfig, IInv, MaxInv, ScalingBegins
    PROVE  MaxInv'
<1>1. /\ UNCHANGED <<server, timers, engineVars, decision>> /\ pc = "execute" /\ pc' = "scaling"
      /\ \/ decision.action = "up" /\ call'.kind = "up" /\ call'.count = Delta
         \/ decision.action = "down" /\ call'.kind = "down"
    BY DEF ScalingBegins, ScaleUpBegin, ScaleDownBegin
<1>2. Active' = Active /\ Provisioning' = Provisioning
    BY <1>1 DEF Active, Provisioning, InState
<1>. QED
    BY <1>1, <1>2
       DEF MaxInv, ProvisioningWithinCooldown, SnapshotIsExact, TargetStands, WithinMaxServers,
           Delta, engineVars

(* The servers arrive at a cluster where nobody provisions. *)
LEMMA ScalingReturnsKeepsMaxInv ==
    ASSUME TimelyConfig, IInv, MaxInv, ScalingReturns
    PROVE  MaxInv'
<1>1. /\ UNCHANGED engineVars /\ pc = "scaling" /\ pc' = "record" /\ call' = NoCall
    BY DEF ScalingReturns, ScaleUpReturn, ScaleDownReturn
<1>2. /\ Cardinality(Active) \in Nat /\ IsFiniteSet(Active)
      /\ Cardinality(Provisioning) \in Nat
    BY ServerCountsAreNumbers DEF Active, Provisioning
<1>3. CASE ScaleUpReturn
  <2>1. call.kind = "up" /\ decision.action = "up"
      BY <1>1, <1>3 DEF ScaleUpReturn, IInv, CallBelongsToLoop
  <2>2. /\ ~decision.isEmergency /\ decision.current = Cardinality(Active)
        /\ decision.target <= MaxServers /\ call.count = decision.target - decision.current
      BY <1>1, <2>1 DEF MaxInv, TargetStands
  <2>3. Provisioning = {}
    <3>1. sinceScaleUp >= CooldownPeriod
        BY <1>1, <2>1, <2>2 DEF IInv, DecisionStands
    <3>2. ~InScaleUpCooldown
        BY <3>1, ConfigAssumption DEF InScaleUpCooldown, IInv, TypeOK, EngineTypeOK
    <3>. QED
        BY <1>1, <3>2, NobodyProvisions
  <2>4. /\ Active' = Active
        /\ Cardinality(Provisioning') = Cardinality(Provisioning) + call.count
      BY <1>3, ScaleUpReturnAdds DEF IInv
  <2>5. decision.target \in Nat /\ decision.current \in Nat /\ Cardinality(Provisioning) = 0
      BY <2>3, FS_EmptySet DEF IInv, TypeOK
  <2>6. WithinMaxServers'
      BY <1>2, <2>2, <2>4, <2>5 DEF WithinMaxServers
  <2>7. \A t \in timers' : t \in timers \/ t.left = ProvisionTime
      BY <1>3 DEF ScaleUpReturn, AddServers
  <2>8. ProvisioningWithinCooldown'
      BY <1>1, <2>7, FleetAssumption DEF MaxInv, ProvisioningWithinCooldown
  <2>. QED
      BY <1>1, <2>6, <2>8 DEF MaxInv, SnapshotIsExact, TargetStands, NoCall
<1>4. CASE ScaleDownReturn
  <2>1. Active' = Active \ call.victims /\ Provisioning' = Provisioning
      BY <1>4, ScaleDownReturnMoves DEF IInv
  <2>2. Cardinality(Active') <= Cardinality(Active) /\ Cardinality(Active') \in Nat
      BY <1>2, <2>1, FS_Subset, FS_CardinalityType
  <2>3. WithinMaxServers'
      BY <1>2, <2>1, <2>2, ConfigAssumption DEF MaxInv, WithinMaxServers
  <2>4. \A t \in timers' : t.to = "active" => t \in timers
      BY <1>4 DEF ScaleDownReturn, DrainServers
  <2>5. ProvisioningWithinCooldown'
      BY <1>1, <2>4 DEF MaxInv, ProvisioningWithinCooldown
  <2>. QED
      BY <1>1, <2>3, <2>5 DEF MaxInv, SnapshotIsExact, TargetStands, NoCall
<1>. QED
    BY <1>3, <1>4 DEF ScalingReturns

(* The cooldown starts when the servers have been added at the latest.     *)
LEMMA RecordResultKeepsMaxInv ==
    ASSUME TimelyConfig, IInv, MaxInv, RecordResult
    PROVE  MaxInv'
<1>1. /\ UNCHANGED fleetVars /\ pc' = "select" /\ sinceScaleUp' = 0 /\ call = NoCall
    BY DEF RecordResult, RecordScaling, EndCycle, IInv, CallBelongsToLoop
<1>2. Active' = Active /\ Provisioning' = Provisioning
    BY <1>1 DEF fleetVars, Active, Provisioning, InState
<1>3. \A t \in timers : t.left \in Nat
    BY DEF IInv, FleetInv, FleetTypeOK, Timer
<1>4. ProvisioningWithinCooldown'
    BY <1>1, <1>3, FleetAssumption DEF MaxInv, ProvisioningWithinCooldown, fleetVars
<1>. QED
    BY <1>1, <1>2, <1>4
       DEF MaxInv, SnapshotIsExact, TargetStands, WithinMaxServers, NoCall, fleetVars

(* Waking up moves a server between the two counts.  A server that becomes *)
(* active is within the cooldown, where no exact count is needed.          *)
LEMMA ServerTransitionKeepsMaxInv ==
    ASSUME TimelyConfig, IInv, MaxInv, NEW s \in Server, ServerTransition(s)
    PROVE  MaxInv'
<1>1. PICK t \in timers : t.id = s /\ Wake(t)
    BY DEF ServerTransition
<1>2. UNCHANGED <<call, loopVars, engineVars>> /\ timers' \subseteq timers
    BY <1>1 DEF ServerTransition, Wake
<1>3. ProvisioningWithinCooldown'
    BY <1>2 DEF MaxInv, ProvisioningWithinCooldown, loopVars, engineVars
<1>4. CASE Active' = Active /\ Provisioning' = Provisioning
    BY <1>2, <1>3, <1>4
       DEF MaxInv, SnapshotIsExact, TargetStands, WithinMaxServers, InScaleUpCooldown,
           loopVars, engineVars
<1>5. CASE /\ t.id \in Provisioning /\ t.id \notin Active
           /\ Provisioning' = Provisioning \ {t.id} /\ Active' = Active \cup {t.id}
  <2>1. pc # "record" => InScaleUpCooldown
      BY <1>5, NobodyProvisions
  <2>2. /\ IsFiniteSet(Active) /\ Cardinality(Active) \in Nat
        /\ IsFiniteSet(Provisioning) /\ Cardinality(Provisioning) \in Nat
      BY ServerCountsAreNumbers DEF Active, Provisioning
  <2>3. Cardinality(Active') = Cardinality(Active) + 1
      BY <1>5, <2>2, FS_AddElement
  <2>4. Cardinality(Provisioning') = Cardinality(Provisioning) - 1
      BY <1>5, <2>2, FS_RemoveElement
  <2>5. WithinMaxServers'
      BY <2>2, <2>3, <2>4, ConfigAssumption DEF MaxInv, WithinMaxServers
  <2>6. SnapshotIsExact'
      BY <1>2, <2>1 DEF SnapshotIsExact, InScaleUpCooldown, loopVars, engineVars
  <2>7. ~(pc \in {"execute", "scaling"} /\ decision.action = "up")
    <3>. SUFFICES ASSUME pc \in {"execute", "scaling"}, decision.action = "up" PROVE FALSE
        OBVIOUS
    <3>1. ~decision.isEmergency
        BY DEF MaxInv, TargetStands
    <3>2. sinceScaleUp >= CooldownPeriod
        BY <3>1 DEF IInv, DecisionStands
    <3>. QED
        BY <2>1, <3>2, ConfigAssumption DEF InScaleUpCooldown, IInv, TypeOK, EngineTypeOK
  <2>8. TargetStands'
      BY <1>2, <2>7 DEF MaxInv, TargetStands, loopVars
  <2>. QED
      BY <1>3, <2>5, <2>6, <2>8 DEF MaxInv
<1>. QED
    BY <1>1, <1>4, <1>5, WakeMoves DEF IInv

(* Sleep and cooldown pass together; nobody lets time pass between reading *)
(* the state and deciding.                                                 *)
LEMMA TickKeepsMaxInv ==
    ASSUME TimelyConfig, IInv, MaxInv, Tick
    PROVE  MaxInv'
<1>1. /\ UNCHANGED <<server, pc, snapshot, decision>> /\ pc # "decide"
      /\ \A t \in timers : t.left > 0
      /\ timers' = {[t EXCEPT !.left = Countdown(@)] : t \in timers}
    BY DEF Tick, FleetTick, TimelyConfig
<1>2. Active' = Active /\ Provisioning' = Provisioning
    BY <1>1 DEF Active, Provisioning, InState
<1>3. call'.kind = call.kind /\ call'.count = call.count
    BY DEF Tick, FleetTick, IInv, FleetInv, FleetTypeOK, Call
<1>4. sinceScaleUp \in Nat /\ sinceScaleUp' \in Nat /\ sinceScaleUp' <= sinceScaleUp + 1
    BY ConfigAssumption DEF Tick, EngineTick, AtMost, IInv, TypeOK, EngineTypeOK
<1>5. ProvisioningWithinCooldown'
  <2>. SUFFICES ASSUME NEW u \in timers', u.to = "active"
                PROVE  /\ u.left <= ProvisionTime
                       /\ pc # "record" => sinceScaleUp' + u.left <= ProvisionTime
      BY <1>1 DEF ProvisioningWithinCooldown
  <2>1. PICK t \in timers : u = [t EXCEPT !.left = Countdown(@)]
      BY <1>1
  <2>2. t \in Timer
      BY DEF IInv, FleetInv, FleetTypeOK
  <2>3. u.left = Countdown(t.left) /\ t.to = "active" /\ t.left \in Nat
      BY <2>1, <2>2 DEF Timer
  <2>4. u.left = t.left - 1
      BY <1>1, <2>3 DEF Countdown
  <2>5. t.left <= ProvisionTime /\ (pc # "record" => sinceScaleUp + t.left <= ProvisionTime)
      BY <2>3 DEF MaxInv, ProvisioningWithinCooldown
  <2>. QED
      BY <1>4, <2>3, <2>4, <2>5, FleetAssumption
<1>. QED
    BY <1>1, <1>2, <1>3, <1>5
       DEF MaxInv, SnapshotIsExact, TargetStands, WithinMaxServers

(* Active and provisioning servers stay within MaxServers, although a      *)
(* scale-up counts only the active ones (engine.go:90-122, pipeline.go:    *)
(* 135-151), under the conditions of TimelyConfig.                         *)
THEOREM WithinMaxServersHolds == TimelyConfig => (Spec => []WithinMaxServers)
<1>. SUFFICES ASSUME TimelyConfig
              PROVE  Spec => []WithinMaxServers
    OBVIOUS
<1>1. Init => MaxInv
    BY InitMaxInv
<1>2. IInv /\ MaxInv /\ [Next]_vars => MaxInv'
    BY LoopMovesKeepMaxInv, StutterKeepsMaxInv, ReadStateKeepsMaxInv, MakeDecisionKeepsMaxInv,
       ScalingBeginsKeepsMaxInv, ScalingReturnsKeepsMaxInv, RecordResultKeepsMaxInv,
       ServerTransitionKeepsMaxInv, TickKeepsMaxInv
       DEF Next, PipelineStep
<1>3. MaxInv => WithinMaxServers
    BY DEF MaxInv
<1>. QED
    BY <1>1, <1>2, <1>3, LoopInvariant, PTL DEF Spec

-----------------------------------------------------------------------------
(* The control loop implements ElasticFleet. *)

LEMMA CountsAreNumbers ==
    /\ Cardinality(Active) \in Nat /\ IsFiniteSet(Active)
    /\ Cardinality(Provisioning) \in Nat /\ IsFiniteSet(Provisioning)
    /\ Cardinality(Draining) \in Nat /\ IsFiniteSet(Draining)
BY ServerCountsAreNumbers DEF Active, Provisioning, Draining

LEMMA InitPromise == Init => Promise!Init
<1>. SUFFICES ASSUME Init PROVE Promise!Init
    OBVIOUS
<1>1. Active = InitialServers /\ Provisioning = {} /\ Draining = {}
    BY FleetAssumption DEF Init, FleetInit, Active, Provisioning, Draining, InState
<1>. QED
    BY <1>1, InitialAssumption, ConfigAssumption, FS_EmptySet DEF Promise!Init

(* A call that returns grows the cluster or takes one active server away.  *)
LEMMA ScalingReturnsPromise ==
    ASSUME IInv, ScalingReturns
    PROVE  Promise!Grow \/ Promise!Shrink
<1>1. CASE ScaleUpReturn
  <2>1. call.count \in 1..LargestStep
      BY <1>1 DEF ScaleUpReturn, IInv, CallIsDecided
  <2>2. /\ Active' = Active /\ Draining' = Draining
        /\ Cardinality(Provisioning') = Cardinality(Provisioning) + call.count
      BY <1>1, ScaleUpReturnAdds DEF IInv
  <2>. QED
      BY <2>1, <2>2 DEF Promise!Grow, LargestStep
<1>2. CASE ScaleDownReturn
  <2>1. call.kind = "down" /\ decision.action = "down" /\ pc = "scaling"
      BY <1>2 DEF ScaleDownReturn, ScalingReturns, IInv, CallBelongsToLoop
  <2>2. Cardinality(call.victims) = 1 /\ call.victims \subseteq Active
      BY <2>1 DEF IInv, CallIsDecided, FleetInv, VictimsStayActive
  <2>3. PICK v : call.victims = {v}
      BY <2>2, CountsAreNumbers, FS_Subset, FS_Singleton
  <2>4. /\ Active' = Active \ {v} /\ v \in Active
        /\ Draining' = Draining \cup {v} /\ v \notin Draining
        /\ Provisioning' = Provisioning
      BY <1>2, <2>2, <2>3, ScaleDownReturnMoves DEF IInv
  <2>5. Cardinality(Active') = Cardinality(Active) - 1
      BY <2>4, CountsAreNumbers, FS_RemoveElement
  <2>6. Cardinality(Draining') = Cardinality(Draining) + 1
      BY <2>4, CountsAreNumbers, FS_AddElement
  <2>7. MinServers < Cardinality(Active)
    <3>1. MinServers < decision.current /\ decision.current <= Cardinality(Active)
        BY <2>1 DEF IInv, DecisionStands
    <3>. QED
        BY <3>1, CountsAreNumbers, ConfigAssumption DEF IInv, TypeOK
  <2>. QED
      BY <2>4, <2>5, <2>6, <2>7 DEF Promise!Shrink
<1>. QED
    BY <1>1, <1>2 DEF ScalingReturns

(* A goroutine that wakes up activates or terminates one server. *)
LEMMA ServerTransitionPromise ==
    ASSUME IInv, NEW s \in Server, ServerTransition(s)
    PROVE  Promise!Activate \/ Promise!Terminate
<1>1. PICK t \in timers : Wake(t)
    BY DEF ServerTransition
<1>2. CASE /\ t.id \in Provisioning /\ t.id \notin Active
           /\ Provisioning' = Provisioning \ {t.id} /\ Active' = Active \cup {t.id}
           /\ Draining' = Draining
  <2>1. Cardinality(Provisioning') = Cardinality(Provisioning) - 1 /\ Cardinality(Provisioning) # 0
      BY <1>2, CountsAreNumbers, FS_RemoveElement, FS_EmptySet
  <2>2. Cardinality(Active') = Cardinality(Active) + 1
      BY <1>2, CountsAreNumbers, FS_AddElement
  <2>. QED
      BY <1>2, <2>1, <2>2, CountsAreNumbers DEF Promise!Activate
<1>3. CASE /\ t.id \in Draining /\ Draining' = Draining \ {t.id}
           /\ Active' = Active /\ Provisioning' = Provisioning
  <2>1. Cardinality(Draining') = Cardinality(Draining) - 1 /\ Cardinality(Draining) # 0
      BY <1>3, CountsAreNumbers, FS_RemoveElement, FS_EmptySet
  <2>. QED
      BY <1>3, <2>1, CountsAreNumbers DEF Promise!Terminate
<1>. QED
    BY <1>1, <1>2, <1>3, WakeMoves DEF IInv

(* Every other step changes none of the three sets. *)
LEMMA OtherStepsPromise ==
    ASSUME IInv, [Next]_vars, ~ScalingReturns, \A s \in Server : ~ServerTransition(s)
    PROVE  UNCHANGED Promise!vars
<1>1. UNCHANGED server
  <2>1. CASE PipelineStep
      BY <2>1
         DEF PipelineStep, SelectTick, SelectDone, BeginCollect, CollectFails, CollectSucceeds,
             ReadState, MakeDecision, ScalingFails, ScalingBegins, RecordResult, ScaleUpBegin,
             ScaleDownBegin, fleetVars
  <2>2. CASE StopBegin \/ StopReturn \/ Tick \/ UNCHANGED vars
      BY <2>2 DEF StopBegin, StopReturn, Tick, FleetTick, vars, fleetVars
  <2>. QED
      BY <2>1, <2>2 DEF Next
<1>. QED
    BY <1>1 DEF Promise!vars, Active, Provisioning, Draining, InState

(* The loop only does what an elastic fleet may do: it grows in bounded    *)
(* steps, shrinks one active server at a time and not below the minimum,   *)
(* and lets every server go through its states.                            *)
THEOREM KeepsPromiseHolds == Spec => KeepsPromise
<1>1. IInv /\ [Next]_vars => [Promise!Next]_(Promise!vars)
    BY ScalingReturnsPromise, ServerTransitionPromise, OtherStepsPromise DEF Promise!Next
<1>. QED
    BY <1>1, InitPromise, LoopInvariant, PTL DEF Spec, KeepsPromise, Promise!Spec

-----------------------------------------------------------------------------
(* The loop uses its engine and its fleet as their own specifications say. *)

(* What the loop's pipeline decides is within what the scaler is asked.    *)
FleetServesLoop == MaxRequest >= LargestStep

(* Only a recorded result and the clock touch the cooldowns.               *)
LEMMA LoopStepsEngine == [Next]_vars => [EngineNext]_engineVars
<1>. SUFFICES ASSUME [Next]_vars PROVE EngineNext \/ UNCHANGED engineVars
    OBVIOUS
<1>1. CASE PipelineStep
  <2>1. CASE RecordResult
      BY <2>1 DEF RecordResult, EngineNext
  <2>2. CASE ~RecordResult
      BY <1>1, <2>2
         DEF PipelineStep, SelectTick, SelectDone, BeginCollect, CollectFails, CollectSucceeds,
             ReadState, MakeDecision, ScalingFails, ScalingBegins, ScalingReturns
  <2>. QED
      BY <2>1, <2>2
<1>2. CASE StopBegin \/ StopReturn \/ UNCHANGED vars
    BY <1>2 DEF StopBegin, StopReturn, vars
<1>3. CASE \E s \in Server : ServerTransition(s)
    BY <1>3 DEF ServerTransition
<1>4. CASE Tick
    BY <1>4 DEF Tick, EngineNext
<1>. QED
    BY <1>1, <1>2, <1>3, <1>4 DEF Next

(* The loop asks for a positive number of servers within the largest step, *)
(* and lets every call return before the next.                             *)
LEMMA LoopStepsFleet ==
    ASSUME FleetServesLoop
    PROVE  IInv /\ [Next]_vars => [FleetNext]_fleetVars
<1>. SUFFICES ASSUME IInv, [Next]_vars PROVE FleetNext \/ UNCHANGED fleetVars
    OBVIOUS
<1>1. CASE ScalingBegins
  <2>1. /\ pc = "execute" /\ decision.current \in Nat /\ decision.target \in Nat
        /\ MaxRequest \in Nat /\ LargestStep \in Nat /\ LargestStep >= 1
      BY <1>1, ConfigAssumption, FleetAssumption, LargestStepType
         DEF ScalingBegins, IInv, TypeOK, LargestStep, AtLeast, EmergencyDelta
  <2>2. Delta \in Int
      BY <2>1 DEF Delta
  <2>3. Delta > 0
      BY <1>1, <2>2 DEF ScalingBegins, ScaleUpBegin, ScaleDownBegin, Rejects
  <2>4. Delta <= LargestStep
      BY <1>1, <2>1 DEF ScalingBegins, IInv, DecisionStands, Delta
  <2>5. Delta \in 0..MaxRequest
      BY <2>1, <2>2, <2>3, <2>4 DEF FleetServesLoop
  <2>. QED
      BY <1>1, <2>5 DEF ScalingBegins, FleetNext, FleetStep
<1>2. CASE ScalingReturns
    BY <1>2 DEF ScalingReturns, FleetNext, FleetStep
<1>3. CASE PipelineStep /\ ~ScalingBegins /\ ~ScalingReturns
    BY <1>3
       DEF PipelineStep, SelectTick, SelectDone, BeginCollect, CollectFails, CollectSucceeds,
           ReadState, MakeDecision, ScalingFails, RecordResult
<1>4. CASE StopBegin \/ StopReturn \/ UNCHANGED vars
    BY <1>4 DEF StopBegin, StopReturn, vars
<1>5. CASE \E s \in Server : ServerTransition(s)
    BY <1>5 DEF ServerTransition, FleetNext, FleetStep
<1>6. CASE Tick
    BY <1>6 DEF Tick, FleetNext
<1>. QED
    BY <1>1, <1>2, <1>3, <1>4, <1>5, <1>6 DEF Next

(* Every behaviour of the composed loop is one of the engine and one of    *)
(* the fleet (pipeline.go:110-227), so what is proved of each of them      *)
(* alone holds of the loop.                                                *)
THEOREM LoopImplementsEngine == Spec => EngineSpec
BY LoopStepsEngine, PTL DEF Spec, Init, EngineSpec

THEOREM LoopImplementsFleet == FleetServesLoop => (Spec => FleetSpec)
<1>. SUFFICES ASSUME FleetServesLoop
              PROVE  Spec => FleetSpec
    OBVIOUS
<1>1. IInv /\ [Next]_vars => [FleetNext]_fleetVars
    BY LoopStepsFleet
<1>. QED
    BY <1>1, LoopInvariant, PTL DEF Spec, Init, FleetSpec

(* In particular the servers of a monitored cluster follow their life      *)
(* cycle, and what a scale-down settled on stays active until its call     *)
(* returns (simulator_scaler.go:95-160), whatever the loop, a Stop and     *)
(* the sleeping goroutines do in between.                                  *)
THEOREM LoopKeepsFleetPromises ==
    FleetServesLoop => (Spec => Lifecycle /\ []SleepersMatchStates /\ []VictimsStayActive)
<1>. SUFFICES ASSUME FleetServesLoop
              PROVE  Spec => Lifecycle /\ []SleepersMatchStates /\ []VictimsStayActive
    OBVIOUS
<1>1. Spec => FleetSpec
    BY LoopImplementsFleet
<1>. QED
    BY <1>1, LifecycleHolds, SleepersMatchStatesHolds, VictimsStayActiveHolds, PTL
=============================================================================
