------------------------------ MODULE Analyzer ------------------------------
(***************************************************************************)
(* What feeds the decision engine: the analyzer's bounded history of       *)
(* samples with the trend and the spikes it sees in it                     *)
(* (internal/analyzer/analyzer.go) and the streaks of high and low load    *)
(* (internal/analyzer/sustained.go), composed with the engine that decides *)
(* on them.                                                                *)
(*                                                                         *)
(* One step of the clock is one collect interval, and a cycle collects at  *)
(* most once in it.  Times are ages.  A sample carries the timestamp of    *)
(* its source, whose clock may be behind or ahead of this process by a     *)
(* constant lag; the streaks use the local clock.  Ages stop at Horizon,   *)
(* where the analyzer cannot tell them apart any more.                     *)
(*                                                                         *)
(* A sample is its average CPU in whole percent; sums are compared without *)
(* dividing.  Memory is analysed by the code and used by no decision.      *)
(***************************************************************************)
EXTENDS DecisionEngine, Sequences, FiniteSets, Functions

CONSTANTS
    MaxHistoryLength,   \* samples kept (30 when not configured)
    TrendWindow,        \* intervals a trend looks back
    Minute,             \* intervals in the fixed minute of detectSpike
    SpikeThreshold,     \* percent over the baseline that make a spike
    SourceLag,          \* intervals the source's clock may be behind (or ahead, if negative)
    Horizon             \* the age at which ages stop (a bound)

ASSUME AnalyzerAssumption ==
    /\ MaxHistoryLength \in Nat \ {0}
    /\ TrendWindow \in Nat \ {0} /\ Minute \in Nat \ {0}
    /\ SpikeThreshold \in Nat \ {0}
    /\ SourceLag \subseteq Int
    /\ Horizon \in Nat
    /\ Horizon > TrendWindow /\ Horizon > Minute
    /\ Horizon > SustainedHighDuration /\ Horizon > SustainedLowDuration
    /\ \A l \in SourceLag : l <= Horizon /\ Minute - l < Horizon
    /\ 0 \in CPULevels /\ CPUHighThreshold > 0

VARIABLES
    history,     \* Analyzer.history of the cluster
    highFor,     \* SustainedTracker: age of the streak of high CPU
    lowFor,      \* SustainedTracker: age of the streak of low CPU
    sample,      \* the AnalyzedMetrics of the cycle
    phase,       \* how far the cycle has come
    lag,         \* age of a timestamp when it is recorded
    samples,     \* history: every sample ever recorded
    answers,     \* history: every answer ever analysed, with local ages
    surge        \* history: what the latest surge has brought about

analyzerVars == <<history, highFor, lowFor, sample, phase, lag, samples, answers, surge>>
vars == <<engineVars, analyzerVars>>

-----------------------------------------------------------------------------
(* The analyzer's view of a sequence of samples. *)

Snapshot == [age : Int, cpu : CPULevels]

(* recordSnapshot appends and keeps the newest MaxHistoryLength.           *)
(* Mutant: one too few is kept.                                            *)
RecordSnapshotShort(h, s) ==
    LET all == Append(h, s)
    IN  IF Len(all) >= MaxHistoryLength
        THEN SubSeq(all, Len(all) - MaxHistoryLength + 2, Len(all)) ELSE all

RecordSnapshot(h, s) ==
    LET all == Append(h, s)
    IN  IF Len(all) > MaxHistoryLength
        THEN SubSeq(all, Len(all) - MaxHistoryLength + 1, Len(all)) ELSE all

TotalCPU(h) == SumFunction([i \in 1..Len(h) |-> h[i].cpu])

TrendThresholdTenfold == AtLeast(SpikeThreshold, 20)

(* The entries of h at the indices in I, in their order. *)
EntriesAt(h, I) ==
    [n \in 1..Cardinality(I) |->
        h[CHOOSE i \in I : Cardinality({j \in I : j <= i}) = n]]

(* calculateTrend compares the averages of the two halves of the samples   *)
(* within the window, if there are three.                                  *)
CalculateTrend(h) ==
    LET recent == EntriesAt(h, {i \in 1..Len(h) : h[i].age < TrendWindow})
        half   == Len(recent) \div 2
        rest   == Len(recent) - half
        rise   == 10 * (  TotalCPU(SubSeq(recent, half + 1, Len(recent))) * half
                        - TotalCPU(SubSeq(recent, 1, half)) * rest)
        limit  == TrendThresholdTenfold * half * rest
    IN  IF Len(recent) < 3 THEN "stable"
        ELSE IF rise > limit THEN "rising"
        ELSE IF rise < -limit THEN "falling" ELSE "stable"

(* detectSpike compares the newest sample with the newest one from before  *)
(* the last minute, or with its predecessor when there is none so old.     *)
(* Mutants: the oldest sample is the base; a base of 0 is not excepted.    *)
IsBaselineOldest(h, i) == i = 1

IsBaseline(h, i) ==
    \/ h[i].age > Minute /\ \A j \in (i + 1)..(Len(h) - 1) : h[j].age <= Minute
    \/ i = Len(h) - 1 /\ \A j \in 1..i : h[j].age <= Minute

Rises(h, i) == (h[Len(h)].cpu - h[i].cpu) * 100 >= SpikeThreshold * h[i].cpu

DetectSpikeFromZero(h) == \E i \in 1..(Len(h) - 1) : IsBaseline(h, i) /\ Rises(h, i)

DetectSpike(h) ==
    \E i \in 1..(Len(h) - 1) : IsBaseline(h, i) /\ h[i].cpu # 0 /\ Rises(h, i)

-----------------------------------------------------------------------------
(* The cycle: collect and analyse, decide and execute, wait for the tick.  *)

NoSample == [avgCPU |-> 0, trend |-> "stable", hasSpike |-> FALSE,
             highFor |-> NotTracked, lowFor |-> NotTracked]

(* A surge begins with a scale-up that nothing but a spike asks for.  The  *)
(* history of it: the time since then, the least average since, and how    *)
(* many such scale-ups it has brought about.                               *)
NoSurge == [age |-> 0, floor |-> 0, scaleUps |-> 0]

Init ==
    /\ EngineInit
    /\ history = <<>> /\ samples = <<>> /\ answers = <<>>
    /\ highFor = NotTracked /\ lowFor = NotTracked
    /\ sample = NoSample
    /\ phase = "collect"
    /\ lag \in SourceLag
    /\ surge = NoSurge

Older(l) == [i \in DOMAIN l |-> [l[i] EXCEPT !.age = AtMost(@ + 1, Horizon)]]

(* The histories that the properties use forget an entry when two later    *)
(* ones are at the horizon, too.                                           *)
OlderLog(l) ==
    LET older == Older(l)
    IN  IF Len(older) > 2 /\ older[3].age = Horizon THEN Tail(older) ELSE older

(* SustainedTracker.Update, which leaves its result in the sample.         *)
(* Mutant: whatever is not high counts as low.                             *)
UpdateStreaksLate(cpu) ==
    /\ highFor' = Streak(cpu >= CPUHighThreshold, highFor)
    /\ lowFor' = Streak(cpu < CPUHighThreshold, lowFor)

UpdateStreaks(cpu) ==
    /\ highFor' = Streak(cpu >= CPUHighThreshold, highFor)
    /\ lowFor' = Streak(cpu <= CPULowThreshold, lowFor)

(* Servers answered. *)
Analyze(cpu) ==
    /\ phase = "collect" /\ phase' = "decide"
    /\ history' = RecordSnapshot(history, [age |-> lag, cpu |-> cpu])
    /\ UpdateStreaks(cpu)
    /\ sample' = [avgCPU |-> cpu, trend |-> CalculateTrend(history'),
                  hasSpike |-> DetectSpike(history'),
                  highFor |-> highFor', lowFor |-> lowFor']
    /\ samples' = Append(samples, [age |-> lag, cpu |-> cpu])
    /\ answers' = Append(answers, [age |-> 0, cpu |-> cpu])
    /\ surge' = [surge EXCEPT !.floor = AtMost(@, cpu)]
    /\ UNCHANGED <<engineVars, lag>>

(* An answer without servers counts as an average of 0 for the streaks and *)
(* leaves the history alone.                                               *)
AnalyzeNoServers ==
    /\ phase = "collect" /\ phase' = "decide"
    /\ UpdateStreaks(0)
    /\ sample' = [NoSample EXCEPT !.highFor = highFor', !.lowFor = lowFor']
    /\ answers' = Append(answers, [age |-> 0, cpu |-> 0])
    /\ UNCHANGED <<engineVars, history, lag, samples, surge>>

CollectFails ==
    /\ phase = "collect" /\ phase' = "wait"
    /\ sample' = NoSample
    /\ UNCHANGED <<engineVars, history, highFor, lowFor, lag, samples, answers, surge>>

(* A scale-up that nothing but a spike asks for. *)
OnSpikeAlone(s) ==
    /\ sample.avgCPU < EmergencyCPUThreshold
    /\ ShouldScaleUp(sample, NoPrediction, s)
    /\ ~ShouldScaleUp([sample EXCEPT !.hasSpike = FALSE], NoPrediction, s)

(* It belongs to the latest surge as long as the load has not risen over a *)
(* sample taken since; else it begins a surge of its own.                  *)
SameSurge == surge.scaleUps > 0 /\ sample.avgCPU <= surge.floor

RecordSurge ==
    surge' = IF SameSurge THEN [surge EXCEPT !.scaleUps = @ + 1]
             ELSE [age |-> 0, floor |-> sample.avgCPU, scaleUps |-> 1]

(* The pipeline decides without a prediction and executes; a scaling that  *)
(* succeeds is recorded.                                                   *)
Execute(s) ==
    /\ phase = "decide" /\ phase' = "wait"
    /\ ShouldExecute(Decide(sample, NoPrediction, s))
    /\ RecordScaling
    /\ IF OnSpikeAlone(s) THEN RecordSurge ELSE UNCHANGED surge
    /\ UNCHANGED <<history, highFor, lowFor, sample, lag, samples, answers>>

(* The decision is to maintain, or is held back, or its execution fails.   *)
DoNothing ==
    /\ phase = "decide" /\ phase' = "wait"
    /\ UNCHANGED <<engineVars, history, highFor, lowFor, sample, lag, samples, answers, surge>>

NextInterval ==
    /\ phase = "wait" /\ phase' = "collect"
    /\ EngineTick
    /\ history' = Older(history)
    /\ samples' = OlderLog(samples) /\ answers' = OlderLog(answers)
    /\ highFor' = StreakTick(highFor, SustainedHighDuration)
    /\ lowFor' = StreakTick(lowFor, SustainedLowDuration)
    /\ surge' = [surge EXCEPT !.age = IF surge.scaleUps = 0 THEN 0 ELSE AtMost(@ + 1, Horizon)]
    /\ UNCHANGED <<sample, lag>>

Next ==
    \/ \E cpu \in CPULevels : Analyze(cpu)
    \/ AnalyzeNoServers
    \/ CollectFails
    \/ \E s \in ClusterState : Execute(s)
    \/ DoNothing
    \/ NextInterval

Spec == Init /\ [][Next]_vars

-----------------------------------------------------------------------------
(* Properties. *)

TypeOK ==
    /\ EngineTypeOK
    /\ history \in Seq(Snapshot) /\ Len(history) <= MaxHistoryLength
    /\ highFor \in {NotTracked} \cup 0..SustainedHighDuration
    /\ lowFor \in {NotTracked} \cup 0..SustainedLowDuration
    /\ sample \in [avgCPU : CPULevels, trend : Trend, hasSpike : BOOLEAN,
                   highFor : {NotTracked} \cup 0..SustainedHighDuration,
                   lowFor : {NotTracked} \cup 0..SustainedLowDuration]
    /\ phase \in {"collect", "decide", "wait"}
    /\ lag \in SourceLag

(* Whatever the history, the streaks, failed collections and empty answers *)
(* have made of it: a sample that reaches the engine is one of those for   *)
(* which the engine's answers are known to be right.                       *)
SamplesFitEngine == phase = "decide" => sample \in Analyzed

(* The bound on the history cannot be seen: right after a sample has been  *)
(* recorded, trend and spike are what all samples ever recorded would      *)
(* give.  Holds when MaxHistoryLength covers the window and the minute, as *)
(* the defaults just do (30 samples, 10 s apart, for 5 minutes).           *)
BoundIsInvisible ==
    phase = "decide" /\ samples # <<>> /\ samples[Len(samples)].age = lag =>
        /\ CalculateTrend(history) = CalculateTrend(samples)
        /\ DetectSpike(history) = DetectSpike(samples)

(* The streaks, kept with one timestamp each, are what the answers say: as *)
(* old as the first of the latest uninterrupted run of answers on their    *)
(* side.  Failed collections neither end nor start a run; an answer        *)
(* without servers ends a high one and belongs to a low one.               *)
RunAge(side, duration) ==
    LET run == {i \in 1..Len(answers) : \A j \in i..Len(answers) : answers[j].cpu \in side}
    IN  IF run = {} THEN NotTracked
        ELSE AtMost(answers[CHOOSE i \in run : \A j \in run : i <= j].age, duration)

HighSide == {cpu \in CPULevels : cpu >= CPUHighThreshold}
LowSide == {cpu \in CPULevels : cpu <= CPULowThreshold}

StreaksAreBacked ==
    /\ highFor = RunAge(HighSide, SustainedHighDuration)
    /\ lowFor = RunAge(LowSide, SustainedLowDuration)

(* One surge adds servers a limited number of times.  Its load counts as a *)
(* spike in every cycle until samples of the surge itself are older than   *)
(* the minute, and till then nothing but the cooldown keeps it from adding *)
(* servers again.  So without a rise over some sample since, the n-th      *)
(* further scale-up that only a spike asks for comes n cooldowns after the *)
(* first at the earliest and, by the source's clock, within the minute:    *)
(* there are no more than cooldowns fit into it, and none when it is       *)
(* shorter.                                                                *)
SurgeScaleUpsBounded ==
    phase = "decide" /\ SameSurge =>
        \A s \in ClusterState :
            OnSpikeAlone(s) /\ ShouldExecute(Decide(sample, NoPrediction, s)) =>
                /\ surge.scaleUps * CooldownPeriod <= surge.age
                /\ surge.age <= Minute - lag
=============================================================================
