--------------------------- MODULE DecisionEngine ---------------------------
(***************************************************************************)
(* The decision engine of one cluster (internal/decision/engine.go).       *)
(*                                                                         *)
(* The engine keeps, per cluster, when it last recorded a scale-up and a   *)
(* scale-down, and answers Decide from the analysed metrics, an optional   *)
(* prediction and the cluster's server counts.  One pipeline owns one      *)
(* engine, so the two maps of the code are two ages here, in ticks of the  *)
(* model's clock.  An age stops at its own cooldown period: from there on  *)
(* it is indistinguishable from a missing entry.                           *)
(*                                                                         *)
(* CPU values are whole percentages.  The code multiplies floats before it *)
(* truncates; for fewer than 35 active servers the two agree (the first    *)
(* difference at the default target of 70 % is 35 servers at 94 %).        *)
(***************************************************************************)
EXTENDS Integers

CONSTANTS
    MinServers,                \* lower bound of the cluster's servers
    MaxServers,                \* upper bound of the cluster's servers
    MaxScaleStep,              \* most servers one ordinary scale-up adds
    TargetCPU,                 \* the load a server should carry
    CPUHighThreshold,
    CPULowThreshold,
    EmergencyCPUThreshold,
    CooldownPeriod,            \* ticks between two ordinary scale-ups
    ScaleDownCooldownPeriod,   \* ticks before a scale-down
    SustainedHighDuration,     \* ticks of high CPU that count as sustained
    SustainedLowDuration,
    CPULevels,                 \* the average CPU percentages a sample can have
    ServerCounts               \* the server counts a cluster state can report

(* What the configuration's validation, the database's CHECK constraints   *)
(* and the defaults of NewEngine leave possible.                           *)
ASSUME ConfigAssumption ==
    /\ MinServers \in Nat \ {0}
    /\ MaxServers \in Nat /\ MaxServers >= MinServers
    /\ MaxScaleStep \in Nat \ {0}
    /\ TargetCPU \in Nat \ {0}
    /\ CPULowThreshold \in Nat /\ CPUHighThreshold \in Nat
    /\ CPULowThreshold < CPUHighThreshold
    /\ EmergencyCPUThreshold \in Nat \ {0}
    /\ CooldownPeriod \in Nat \ {0}
    /\ ScaleDownCooldownPeriod \in Nat \ {0}
    /\ SustainedHighDuration \in Nat \ {0}
    /\ SustainedLowDuration \in Nat \ {0}

ASSUME InputAssumption ==
    /\ CPULevels \subseteq Nat
    /\ ServerCounts \subseteq Nat

VARIABLES
    sinceScaleUp,      \* age of lastScaleUpTimes[cluster]
    sinceScaleDown     \* age of lastScaleDownTimes[cluster]

engineVars == <<sinceScaleUp, sinceScaleDown>>

-----------------------------------------------------------------------------
(* The inputs of Decide. *)

AtMost(n, bound) == IF n > bound THEN bound ELSE n
AtLeast(n, bound) == IF n < bound THEN bound ELSE n

NotTracked == -1       \* a nil SustainedHighAt or SustainedLowAt
CriticalCPU == 95      \* the analyzer's fixed critical threshold

Trend == {"rising", "falling", "stable"}

CPUStatus(cpu) ==
    IF cpu >= CriticalCPU THEN "critical"
    ELSE IF cpu >= CPUHighThreshold THEN "warning" ELSE "normal"

(* AnalyzedMetrics: the status is the analyzer's function of the average;  *)
(* a spike needs a rise from a non-zero average; the streaks are the ages  *)
(* the SustainedTracker hands out, present exactly while the average is on *)
(* the streak's side of its threshold.                                     *)
Analyzed ==
    {a \in [avgCPU : CPULevels, trend : Trend, hasSpike : BOOLEAN,
            highFor : {NotTracked} \cup 0..SustainedHighDuration,
            lowFor : {NotTracked} \cup 0..SustainedLowDuration] :
        /\ a.hasSpike => a.avgCPU > 0
        /\ a.highFor # NotTracked <=> a.avgCPU >= CPUHighThreshold
        /\ a.lowFor # NotTracked <=> a.avgCPU <= CPULowThreshold}

ClusterState == {s \in [active : ServerCounts, total : ServerCounts] : s.active <= s.total}

(* A prediction counts only when it is present and its confidence is at    *)
(* least 0.7; of its content only the predicted CPU is read.               *)
NoPrediction == [confident |-> FALSE, cpu |-> 0]
Prediction == {NoPrediction} \cup [confident : {TRUE}, cpu : CPULevels]

PredictsHigh(p) == p.confident /\ p.cpu >= CPUHighThreshold

(* Mutant: every sample starts its streak anew. *)
StreakRestarting(onSide, age) == IF onSide THEN 0 ELSE NotTracked

(* SustainedTracker.Update: a streak starts with the first sample on its   *)
(* side of the threshold and lasts until a sample is not.  A cycle whose   *)
(* collection failed has no sample and leaves the streaks alone.           *)
Streak(onSide, age) == IF ~onSide THEN NotTracked ELSE IF age = NotTracked THEN 0 ELSE age

StreakTick(age, duration) == IF age = NotTracked THEN NotTracked ELSE AtMost(age + 1, duration)

-----------------------------------------------------------------------------
(* The rules. *)

InScaleUpCooldown == sinceScaleUp < CooldownPeriod
InScaleDownCooldown == sinceScaleDown < ScaleDownCooldownPeriod

ShouldScaleUp(a, p, s) ==
    /\ s.total < MaxServers
    /\ \/ CPUStatus(a.avgCPU) = "critical"
       \/ a.hasSpike
       \/ CPUStatus(a.avgCPU) = "warning" /\ a.trend = "rising"
       \/ a.highFor >= SustainedHighDuration
       \/ PredictsHigh(p)

(* Mutants: the prediction is not asked, the last server above the minimum *)
(* is kept.                                                                *)
ShouldScaleDownUnpredicted(a, p, s) ==
    /\ s.active > MinServers
    /\ a.trend # "rising"
    /\ a.avgCPU < CPULowThreshold
    /\ \/ a.lowFor >= SustainedLowDuration
       \/ a.trend \in {"falling", "stable"}

ShouldScaleDownOffByOne(a, p, s) ==
    /\ s.active > MinServers + 1
    /\ ShouldScaleDownUnpredicted(a, p, s)

ShouldScaleDown(a, p, s) ==
    /\ s.active > MinServers
    /\ a.trend # "rising"
    /\ ~PredictsHigh(p)
    /\ a.avgCPU < CPULowThreshold
    /\ \/ a.lowFor >= SustainedLowDuration
       \/ a.trend \in {"falling", "stable"}

(* Mutants: an emergency step of 1, a scale-down step of 2. *)
SmallEmergencyDelta == 1
LargeScaleDownDelta == 2

EmergencyDelta == 3
ScaleDownDelta == 1

(* Mutant: the step is not clamped to MaxScaleStep. *)
CalculateScaleUpDeltaUnclamped(a, s) ==
    IF a.avgCPU > 0 /\ s.active > 0
    THEN AtLeast(((s.active * a.avgCPU) \div TargetCPU) - s.active, 1)
    ELSE 1

CalculateScaleUpDelta(a, s) ==
    IF a.avgCPU >= EmergencyCPUThreshold THEN MaxScaleStep
    ELSE IF a.avgCPU > 0 /\ s.active > 0
         THEN AtMost(AtLeast(((s.active * a.avgCPU) \div TargetCPU) - s.active, 1),
                     MaxScaleStep)
         ELSE 1

Maintain(s) ==
    [action |-> "maintain", current |-> s.active, target |-> s.active,
     isEmergency |-> FALSE, cooldownActive |-> FALSE]

(* Mutant: the target is not clamped to MaxServers. *)
CreateScaleUpDecisionUnclamped(s, delta, emergency) ==
    [Maintain(s) EXCEPT !.action = "up", !.target = s.active + delta, !.isEmergency = emergency]

CreateScaleUpDecision(s, delta, emergency) ==
    [Maintain(s) EXCEPT !.action = "up",
                        !.target = AtMost(s.active + delta, MaxServers),
                        !.isEmergency = emergency]

CreateScaleDownDecision(s, delta) ==
    [Maintain(s) EXCEPT !.action = "down",
                        !.target = AtLeast(s.active - delta, MinServers)]

InCooldown(s) == [Maintain(s) EXCEPT !.cooldownActive = TRUE]

(* Engine.Decide: a critical CPU overrides everything, then scale-up, then *)
(* scale-down, each held back by its own cooldown.                         *)
Decide(a, p, s) ==
    IF a.avgCPU >= EmergencyCPUThreshold
    THEN CreateScaleUpDecision(s, EmergencyDelta, TRUE)
    ELSE IF ShouldScaleUp(a, p, s)
    THEN IF InScaleUpCooldown THEN InCooldown(s)
         ELSE CreateScaleUpDecision(s, CalculateScaleUpDelta(a, s), FALSE)
    ELSE IF ShouldScaleDown(a, p, s)
    THEN IF InScaleDownCooldown THEN InCooldown(s)
         ELSE CreateScaleDownDecision(s, ScaleDownDelta)
    ELSE Maintain(s)

ShouldExecute(d) == d.action # "maintain" /\ ~d.cooldownActive

-----------------------------------------------------------------------------
(* The operations that change the engine's state, and the passing of time. *)

EngineInit ==
    /\ sinceScaleUp = CooldownPeriod
    /\ sinceScaleDown = ScaleDownCooldownPeriod

RecordScaleUp ==
    /\ sinceScaleUp' = 0
    /\ UNCHANGED sinceScaleDown

RecordScaleDown ==
    /\ sinceScaleDown' = 0
    /\ UNCHANGED sinceScaleUp

RecordScaling ==
    /\ sinceScaleUp' = 0
    /\ sinceScaleDown' = 0

ResetCooldown ==
    /\ sinceScaleUp' = CooldownPeriod
    /\ sinceScaleDown' = ScaleDownCooldownPeriod

EngineTick ==
    /\ sinceScaleUp' = AtMost(sinceScaleUp + 1, CooldownPeriod)
    /\ sinceScaleDown' = AtMost(sinceScaleDown + 1, ScaleDownCooldownPeriod)

EngineNext ==
    \/ RecordScaleUp
    \/ RecordScaleDown
    \/ RecordScaling
    \/ ResetCooldown
    \/ EngineTick

EngineSpec == EngineInit /\ [][EngineNext]_engineVars

-----------------------------------------------------------------------------
(* Properties of the answers, in every state of the engine and for every   *)
(* input that can reach it.                                                *)

(* Both ages stay within their periods. *)
EngineTypeOK ==
    /\ sinceScaleUp \in 0..CooldownPeriod
    /\ sinceScaleDown \in 0..ScaleDownCooldownPeriod

(* An ordinary scale-up asks for at least one server and for no more than  *)
(* MaxScaleStep, and never for more active servers than MaxServers, even   *)
(* when the provisioning servers already exceed what the target counts.    *)
(* A scale-down asks for exactly one server less and stops at MinServers.  *)
OrdinaryDecisionsAreBounded ==
    \A a \in Analyzed, p \in Prediction, s \in ClusterState :
        LET d == Decide(a, p, s)
        IN  /\ d.action = "up" /\ ~d.isEmergency =>
                 /\ d.target - d.current \in 1..MaxScaleStep
                 /\ d.target <= MaxServers
            /\ d.action = "down" =>
                 /\ d.target = d.current - 1
                 /\ d.target >= MinServers

(* Scaling does not undo itself: asked again about the same sample, the    *)
(* cluster that a decision would leave behind is not scaled back.  Spikes  *)
(* are excepted: at MaxServers a spike cannot add a server, and a spike    *)
(* with a low average then falls through to the scale-down rule.           *)
NoReversal ==
    \A a \in Analyzed, p \in Prediction, s \in ClusterState :
        LET d == Decide(a, p, s)
            next == [active |-> d.target, total |-> s.total + d.target - d.current]
        IN  ~a.hasSpike /\ ~d.isEmergency =>
                /\ d.action = "down" => ~ShouldScaleUp(a, p, next)
                /\ d.action = "up" => ~ShouldScaleDown(a, p, next)

(* Decide is monotone in the load: of two samples that differ only in the  *)
(* CPU and its streaks, the busier one never gets the smaller target,      *)
(* while the cluster is within its maximum.  One thing is excepted: an     *)
(* emergency adds the fixed 3 servers of engine.go:92, whatever            *)
(* max_scale_step allows an ordinary step, so that it may get less than a  *)
(* load just below it; but then it gets those 3.                           *)
Busier(b, a) ==
    /\ b.avgCPU >= a.avgCPU /\ b.highFor >= a.highFor /\ b.lowFor <= a.lowFor
    /\ b.trend = a.trend /\ b.hasSpike = a.hasSpike

IsEmergency(a) == a.avgCPU >= EmergencyCPUThreshold

MoreLoadNeverTargetsLess ==
    \A a, b \in Analyzed :
        Busier(b, a) =>
            \A s \in ClusterState :
                s.active <= MaxServers =>
                    LET less == Decide(a, NoPrediction, s).target
                    IN  Decide(b, NoPrediction, s).target >=
                            IF IsEmergency(b) /\ ~IsEmergency(a) THEN AtMost(less, s.active + 3)
                            ELSE less
=============================================================================
