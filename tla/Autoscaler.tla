----------------------------- MODULE Autoscaler -----------------------------
(***************************************************************************)
(* The control loop of one cluster: the pipeline's goroutine               *)
(* (internal/orchestrator/pipeline.go) that collects, analyses, decides    *)
(* and scales, composed with the decision engine, the sustained-load       *)
(* tracker and the server fleet it acts on.                                *)
(*                                                                         *)
(* The loop reads the cluster's state once per cycle and acts on that      *)
(* snapshot later, while servers finish provisioning and draining under    *)
(* it.  Its ticker keeps one tick pending while a cycle runs, so two       *)
(* cycles can follow each other without a pause.  Stop cancels the loop's  *)
(* context from another goroutine and waits for the loop to end; a cycle   *)
(* that has passed its collection does not look at the context again.      *)
(*                                                                         *)
(* Collection is the resilient collector as the pipeline sees it: within   *)
(* the cycle's deadline it fails or delivers a sample, for any reason the  *)
(* circuit breaker, the retries or the network may have.                   *)
(***************************************************************************)
EXTENDS DecisionEngine, ServerFleet

CONSTANTS
    CollectInterval,   \* ticks between two ticks of the pipeline's ticker
    OneSecond,         \* the margin runCycle takes off its deadline, in ticks
    Samples            \* what an analysis of the metrics can yield

ASSUME LoopAssumption ==
    /\ CollectInterval \in Nat \ {0}
    /\ OneSecond \in Nat
    /\ Samples \subseteq [avgCPU : CPULevels, trend : Trend, hasSpike : BOOLEAN]

(* InitializeCluster starts a cluster at its minimum. *)
ASSUME InitialAssumption == Cardinality(InitialServers) = MinServers

VARIABLES
    pc,            \* where the pipeline's goroutine is
    analyzed,      \* runCycle's locals: the sample,
    snapshot,      \*   the cluster's state,
    decision,      \*   and the decision
    highFor,       \* SustainedTracker: age of the streak of high CPU
    lowFor,        \* SustainedTracker: age of the streak of low CPU
    collectLeft,   \* ticks to the deadline of a collection under way
    tickerLeft,    \* ticks until the ticker fires
    tickPending,   \* a tick waits in the ticker's channel (capacity 1)
    stop,          \* Pipeline.Stop: not called, waiting or returned
    sinceApplied   \* history: age of the last change the loop made

loopVars == <<pc, analyzed, snapshot, decision, highFor, lowFor, collectLeft,
              tickerLeft, tickPending, stop, sinceApplied>>
vars == <<loopVars, engineVars, fleetVars>>

-----------------------------------------------------------------------------

NoSample == [avgCPU |-> 0, trend |-> "stable", hasSpike |-> FALSE]
NoState == [active |-> 0, total |-> 0]
NoDecision == Maintain(NoState)

HistoryCap == AtLeast(CooldownPeriod, ScaleDownCooldownPeriod)

cancelled == stop # "none"

Init ==
    /\ EngineInit
    /\ FleetInit
    /\ pc = "begin"
    /\ analyzed = NoSample /\ snapshot = NoState /\ decision = NoDecision
    /\ highFor = NotTracked /\ lowFor = NotTracked
    /\ collectLeft = 0
    /\ tickerLeft = CollectInterval /\ tickPending = FALSE
    /\ stop = "none"
    /\ sinceApplied = HistoryCap

(* The cycle returns to the select of run, its locals are gone. *)
EndCycle ==
    /\ pc' = "select"
    /\ analyzed' = NoSample /\ snapshot' = NoState /\ decision' = NoDecision

-----------------------------------------------------------------------------
(* The pipeline's goroutine. *)

(* run's select: with a tick pending and the context cancelled either      *)
(* branch may be taken.                                                    *)
SelectTick ==
    /\ pc = "select" /\ tickPending
    /\ tickPending' = FALSE
    /\ pc' = "begin"
    /\ UNCHANGED <<analyzed, snapshot, decision, highFor, lowFor, collectLeft,
                   tickerLeft, stop, sinceApplied, engineVars, fleetVars>>

(* Mutant: the loop does not look at its context. *)
SelectDoneNever == FALSE

SelectDone ==
    /\ pc = "select" /\ cancelled
    /\ pc' = "done"
    /\ UNCHANGED <<analyzed, snapshot, decision, highFor, lowFor, collectLeft,
                   tickerLeft, tickPending, stop, sinceApplied, engineVars, fleetVars>>

(* The cycle's context ends one second before the next tick.  When it is   *)
(* over before it begins the collector fails without trying.               *)
CycleBudget == CollectInterval - OneSecond

BeginCollect ==
    /\ pc = "begin" /\ ~cancelled /\ CycleBudget > 0
    /\ pc' = "collecting"
    /\ collectLeft' = CycleBudget
    /\ UNCHANGED <<analyzed, snapshot, decision, highFor, lowFor, tickerLeft,
                   tickPending, stop, sinceApplied, engineVars, fleetVars>>

CollectFails ==
    /\ \/ pc = "begin" /\ (cancelled \/ CycleBudget <= 0)
       \/ pc = "collecting"
    /\ EndCycle
    /\ collectLeft' = 0
    /\ UNCHANGED <<highFor, lowFor, tickerLeft, tickPending, stop, sinceApplied,
                   engineVars, fleetVars>>

(* Metrics arrive: analyze runs the analyzer and updates the streaks. *)
CollectSucceeds(sample) ==
    /\ pc = "collecting"
    /\ highFor' = Streak(sample.avgCPU >= CPUHighThreshold, highFor)
    /\ lowFor' = Streak(sample.avgCPU <= CPULowThreshold, lowFor)
    /\ analyzed' = sample
    /\ pc' = "read"
    /\ collectLeft' = 0
    /\ UNCHANGED <<snapshot, decision, tickerLeft, tickPending, stop, sinceApplied,
                   engineVars, fleetVars>>

ReadState ==
    /\ pc = "read"
    /\ snapshot' = GetClusterState
    /\ pc' = "decide"
    /\ UNCHANGED <<analyzed, decision, highFor, lowFor, collectLeft, tickerLeft,
                   tickPending, stop, sinceApplied, engineVars, fleetVars>>

(* decide passes no prediction.  The streaks' start times come with the    *)
(* sample; how long they have lasted is read from the clock here.          *)
DecideNow ==
    Decide([avgCPU |-> analyzed.avgCPU, trend |-> analyzed.trend,
            hasSpike |-> analyzed.hasSpike, highFor |-> highFor, lowFor |-> lowFor],
           NoPrediction, snapshot)

(* The sample and the snapshot are not read again after the decision. *)
MakeDecision ==
    /\ pc = "decide"
    /\ IF ShouldExecute(DecideNow)
       THEN pc' = "execute" /\ decision' = DecideNow
       ELSE pc' = "select" /\ UNCHANGED decision
    /\ analyzed' = NoSample /\ snapshot' = NoState
    /\ UNCHANGED <<highFor, lowFor, collectLeft, tickerLeft, tickPending, stop,
                   sinceApplied, engineVars, fleetVars>>

(* execute asks the scaler for the difference between target and current.  *)
Delta == IF decision.action = "up" THEN decision.target - decision.current
         ELSE decision.current - decision.target

(* The scaler refuses: ScalingFailed is published, nothing is recorded.    *)
ScalingFails ==
    /\ pc = "execute" /\ Rejects(decision.action, Delta)
    /\ EndCycle
    /\ UNCHANGED <<highFor, lowFor, collectLeft, tickerLeft, tickPending, stop,
                   sinceApplied, engineVars, fleetVars>>

ScalingBegins ==
    /\ pc = "execute"
    /\ \/ decision.action = "up" /\ ScaleUpBegin(Delta)
       \/ decision.action = "down" /\ ScaleDownBegin(Delta)
    /\ pc' = "scaling"
    /\ UNCHANGED <<analyzed, snapshot, decision, highFor, lowFor, collectLeft,
                   tickerLeft, tickPending, stop, sinceApplied, engineVars>>

ScalingReturns ==
    /\ pc = "scaling"
    /\ ScaleUpReturn \/ ScaleDownReturn
    /\ pc' = "record"
    /\ sinceApplied' = 0
    /\ UNCHANGED <<analyzed, snapshot, decision, highFor, lowFor, collectLeft,
                   tickerLeft, tickPending, stop, engineVars>>

RecordResult ==
    /\ pc = "record"
    /\ RecordScaling
    /\ EndCycle
    /\ UNCHANGED <<highFor, lowFor, collectLeft, tickerLeft, tickPending, stop,
                   sinceApplied, fleetVars>>

PipelineStep ==
    \/ SelectTick
    \/ SelectDone
    \/ BeginCollect
    \/ CollectFails
    \/ \E sample \in Samples : CollectSucceeds(sample)
    \/ ReadState
    \/ MakeDecision
    \/ ScalingFails
    \/ ScalingBegins
    \/ ScalingReturns
    \/ RecordResult

-----------------------------------------------------------------------------
(* Everybody else. *)

(* Pipeline.Stop cancels the context and waits for the goroutine. *)
StopBegin ==
    /\ stop = "none"
    /\ stop' = "waiting"
    /\ UNCHANGED <<pc, analyzed, snapshot, decision, highFor, lowFor, collectLeft,
                   tickerLeft, tickPending, sinceApplied, engineVars, fleetVars>>

(* Mutant: Stop does not wait for the goroutine. *)
StopReturnAtOnce ==
    /\ stop = "waiting"
    /\ stop' = "returned"
    /\ UNCHANGED <<pc, analyzed, snapshot, decision, highFor, lowFor, collectLeft,
                   tickerLeft, tickPending, sinceApplied, engineVars, fleetVars>>

StopReturn ==
    /\ stop = "waiting" /\ pc = "done"
    /\ stop' = "returned"
    /\ UNCHANGED <<pc, analyzed, snapshot, decision, highFor, lowFor, collectLeft,
                   tickerLeft, tickPending, sinceApplied, engineVars, fleetVars>>

(* The goroutine that sleeps for server s wakes up. *)
ServerTransition(s) ==
    /\ \E t \in timers : t.id = s /\ Wake(t)
    /\ UNCHANGED <<loopVars, engineVars>>

(* One tick of time: a collection never outlives its deadline; the ticker  *)
(* drops a tick when one is already pending, and is stopped with the loop. *)
(* With goroutines on time the loop decides in the tick in which it has    *)
(* read the cluster's state.                                               *)
Tick ==
    /\ pc = "collecting" => collectLeft > 0
    /\ TimelyWakeups => pc # "decide"
    /\ EngineTick
    /\ FleetTick
    /\ highFor' = StreakTick(highFor, SustainedHighDuration)
    /\ lowFor' = StreakTick(lowFor, SustainedLowDuration)
    /\ collectLeft' = Countdown(collectLeft)
    /\ IF pc = "done"
       THEN UNCHANGED <<tickerLeft, tickPending>>
       ELSE /\ tickerLeft' = IF tickerLeft = 1 THEN CollectInterval ELSE tickerLeft - 1
            /\ tickPending' = (tickPending \/ tickerLeft = 1)
    /\ sinceApplied' = AtMost(sinceApplied + 1, HistoryCap)
    /\ UNCHANGED <<pc, analyzed, snapshot, decision, stop>>

Next == PipelineStep \/ StopBegin \/ StopReturn \/ (\E s \in Server : ServerTransition(s)) \/ Tick

(* The goroutines are scheduled, time goes on, and Stop returns once the   *)
(* loop has ended.  Nothing makes anybody call Stop, and nothing makes a   *)
(* collection succeed.  The select prefers no branch over the other: a     *)
(* cancelled loop that keeps finding a tick pending leaves in the end.     *)
Fairness ==
    /\ WF_vars(PipelineStep)
    /\ SF_vars(SelectDone)
    /\ \A s \in Server : WF_vars(ServerTransition(s))
    /\ WF_vars(StopReturn)
    /\ WF_vars(Tick)

Spec == Init /\ [][Next]_vars

FairSpec == Spec /\ Fairness

-----------------------------------------------------------------------------
(* Properties. *)

TypeOK ==
    /\ EngineTypeOK
    /\ FleetTypeOK
    /\ pc \in {"select", "begin", "collecting", "read", "decide", "execute",
              "scaling", "record", "done"}
    /\ analyzed \in Samples \cup {NoSample}
    /\ snapshot \in [active : Nat, total : Nat]
    /\ decision \in [action : {"maintain", "up", "down"}, current : Nat, target : Nat,
                     isEmergency : BOOLEAN, cooldownActive : {FALSE}]
    /\ highFor \in {NotTracked} \cup 0..SustainedHighDuration
    /\ lowFor \in {NotTracked} \cup 0..SustainedLowDuration
    /\ collectLeft \in Nat
    /\ tickerLeft \in 1..CollectInterval
    /\ tickPending \in BOOLEAN
    /\ stop \in {"none", "waiting", "returned"}
    /\ sinceApplied \in 0..HistoryCap

(* The cluster never has fewer active servers than its minimum, although   *)
(* a scale-down is decided on a snapshot and carried out after a call that *)
(* may take seconds.                                                       *)
MinServersKept == Cardinality(Active) >= MinServers

(* Two changes of the cluster are a cooldown apart, measured at the moment *)
(* the servers change: an ordinary scale-up comes CooldownPeriod ticks or  *)
(* more after the change before it, whichever it was, and a scale-down     *)
(* ScaleDownCooldownPeriod ticks.  Only an emergency comes sooner.         *)
Applied(kind) == call.kind = kind /\ call'.kind = "none"

ScalingsAreSpaced ==
    [][/\ Applied("up") /\ ~decision.isEmergency => sinceApplied >= CooldownPeriod
       /\ Applied("down") => sinceApplied >= ScaleDownCooldownPeriod]_vars

(* Active and provisioning servers together stay within MaxServers,        *)
(* although the target of a scale-up counts the active ones only.  Needs   *)
(* goroutines on time, a cooldown that outlasts the provisioning, and no   *)
(* emergencies.                                                            *)
WithinMaxServers == Cardinality(Active) + Cardinality(Provisioning) <= MaxServers

(* The cycle that Stop's cancellation met is the last to change anything:  *)
(* once it is over, or Stop has returned, no server is added or drained,   *)
(* only what was under way completes, although the select may still take a *)
(* pending tick for another cycle.  After Stop has returned the loop does  *)
(* not move at all.                                                        *)
LoopIsOver == stop = "returned" \/ (cancelled /\ pc \in {"select", "begin", "done"})

NothingAfterStop ==
    [][LoopIsOver =>
          /\ LoopIsOver' /\ UNCHANGED call
          /\ stop = "returned" => UNCHANGED pc
          /\ \A s \in Server : server'[s] # server[s] => server'[s] \in {"active", "gone"}]_vars

(* The cluster behaves as ElasticFleet promises. *)
Promise ==
    INSTANCE ElasticFleet WITH
        active <- Cardinality(Active),
        provisioning <- Cardinality(Provisioning),
        draining <- Cardinality(Draining),
        LargestStep <- AtLeast(MaxScaleStep, EmergencyDelta)

KeepsPromise == Promise!Spec

(* ... and carries through what it has begun. *)
KeepsPromiseFairly == Promise!FairSpec

(* Stop returns. *)
StopCompletes == stop = "waiting" ~> stop = "returned"

(* If from some point on every sample shows a CPU above the high threshold *)
(* and samples keep coming, the cluster grows to its maximum and stays     *)
(* there.                                                                  *)
OverloadServed ==
    /\ <>[](pc = "read" => analyzed.avgCPU >= CPUHighThreshold)
    /\ []<>(pc = "read")
    => <>[](Cardinality(Active) >= MaxServers)

(* If from some point on every sample shows a CPU below the low threshold  *)
(* that does not rise and samples keep coming, the cluster shrinks to its  *)
(* minimum and stays there.                                                *)
IdleReleased ==
    /\ <>[](pc = "read" => /\ analyzed.avgCPU < CPULowThreshold
                            /\ analyzed.trend # "rising" /\ ~analyzed.hasSpike)
    /\ []<>(pc = "read")
    => <>[](Cardinality(Active) = MinServers /\ Provisioning = {})
=============================================================================
