--------------------------- MODULE Analyzer_proofs ---------------------------
(***************************************************************************)
(* Proofs about the analyzer and the streaks, for any thresholds, any      *)
(* lengths of history and window, any loads and any skew of the source's   *)
(* clock.                                                                  *)
(***************************************************************************)
EXTENDS Analyzer, DecisionEngine_proofs, FiniteSetTheorems

(* recordSnapshot (analyzer.go:104-123) keeps a history of samples within  *)
(* its bound and ends it with the new sample.                              *)
LEMMA RecordSnapshotType ==
    ASSUME NEW h \in Seq(Snapshot), NEW s \in Snapshot, Len(h) <= MaxHistoryLength
    PROVE  /\ RecordSnapshot(h, s) \in Seq(Snapshot)
           /\ Len(RecordSnapshot(h, s)) \in 1..MaxHistoryLength
           /\ RecordSnapshot(h, s)[Len(RecordSnapshot(h, s))] = s
<1>. DEFINE all == Append(h, s)
            n == Len(all)
            k == n - MaxHistoryLength + 1
<1>1. /\ all \in Seq(Snapshot) /\ n = Len(h) + 1 /\ n \in Nat /\ all[n] = s
      /\ \A i \in 1..n : all[i] \in Snapshot
    OBVIOUS
<1>2. MaxHistoryLength \in Nat \ {0}
    BY AnalyzerAssumption
<1>3. CASE n > MaxHistoryLength
  <2>1. k = 2 /\ n = MaxHistoryLength + 1
      BY <1>1, <1>2, <1>3
  <2>2. RecordSnapshot(h, s) = SubSeq(all, 2, n)
      BY <1>3, <2>1 DEF RecordSnapshot
  <2>3. SubSeq(all, 2, n) = [i \in 1..(n - 1) |-> all[i + 1]]
      BY <1>1
  <2>4. [i \in 1..(n - 1) |-> all[i + 1]] \in [1..(n - 1) -> Snapshot]
      BY <1>1
  <2>5. /\ SubSeq(all, 2, n) \in Seq(Snapshot)
        /\ Len(SubSeq(all, 2, n)) = n - 1
        /\ SubSeq(all, 2, n)[n - 1] = s
      BY <2>3, <2>4, <2>1, <1>1, <1>2
  <2>. QED
      BY <2>2, <2>5, <2>1, <1>2
<1>4. CASE ~(n > MaxHistoryLength)
    BY <1>1, <1>2, <1>4 DEF RecordSnapshot
<1>. QED
    BY <1>3, <1>4

(* Time leaves a history a history. *)
LEMMA OlderType ==
    ASSUME NEW h \in Seq(Snapshot)
    PROVE  Older(h) \in Seq(Snapshot) /\ Len(Older(h)) = Len(h)
<1>1. DOMAIN h = 1..Len(h) /\ Len(h) \in Nat
    OBVIOUS
<1>2. ASSUME NEW i \in 1..Len(h)
      PROVE  [h[i] EXCEPT !.age = AtMost(h[i].age + 1, Horizon)] \in Snapshot
  <2>1. h[i] \in Snapshot
      OBVIOUS
  <2>2. AtMost(h[i].age + 1, Horizon) \in Int
      BY <2>1, AnalyzerAssumption DEF Snapshot, AtMost
  <2>. QED
      BY <2>1, <2>2 DEF Snapshot
<1>3. Older(h) \in [1..Len(h) -> Snapshot]
    BY <1>1, <1>2 DEF Older
<1>. QED
    BY <1>1, <1>3

(* detectSpike (analyzer.go:204-244) sees a spike only in a sample that is *)
(* above 0: the baseline is not 0, and the sample exceeds it.              *)
LEMMA SpikeIsLoad ==
    ASSUME NEW h \in Seq(Snapshot), DetectSpike(h)
    PROVE  h[Len(h)].cpu > 0
<1>1. PICK i \in 1..(Len(h) - 1) : h[i].cpu # 0 /\ Rises(h, i)
    BY DEF DetectSpike
<1>2. h[i].cpu \in Nat /\ h[Len(h)].cpu \in Nat
  <2>1. h[i] \in Snapshot /\ h[Len(h)] \in Snapshot
      OBVIOUS
  <2>. QED
      BY <2>1, InputAssumption DEF Snapshot
<1>. DEFINE base == h[i].cpu
            cpu == h[Len(h)].cpu
<1>3. base \in Nat \ {0} /\ cpu \in Nat /\ (cpu - base) * 100 >= SpikeThreshold * base
    BY <1>1, <1>2 DEF Rises
<1>. HIDE DEF base, cpu
<1>4. SpikeThreshold * base \in Nat
    BY <1>3, AnalyzerAssumption
<1>5. cpu >= base
    BY <1>3, <1>4
<1>6. cpu > 0
    BY <1>3, <1>5
<1>. QED
    BY <1>6 DEF cpu

-----------------------------------------------------------------------------

StreakAge(duration) == {NotTracked} \cup 0..duration

(* A streak is tracked exactly while the load is on its side.              *)
LEMMA StreakType ==
    ASSUME NEW duration \in Nat, NEW age \in StreakAge(duration), NEW onSide \in BOOLEAN
    PROVE  /\ Streak(onSide, age) \in StreakAge(duration)
           /\ StreakTick(age, duration) \in StreakAge(duration)
           /\ Streak(onSide, age) # NotTracked <=> onSide
BY DEF Streak, StreakTick, StreakAge, NotTracked, AtMost

LEMMA StreaksUpdated ==
    ASSUME TypeOK, NEW cpu \in CPULevels, UpdateStreaks(cpu)
    PROVE  /\ highFor' \in StreakAge(SustainedHighDuration)
           /\ lowFor' \in StreakAge(SustainedLowDuration)
           /\ highFor' # NotTracked <=> cpu >= CPUHighThreshold
           /\ lowFor' # NotTracked <=> cpu <= CPULowThreshold
<1>1. SustainedHighDuration \in Nat /\ SustainedLowDuration \in Nat
    BY ConfigAssumption
<1>2. (cpu >= CPUHighThreshold) \in BOOLEAN /\ (cpu <= CPULowThreshold) \in BOOLEAN
    OBVIOUS
<1>3. /\ highFor \in StreakAge(SustainedHighDuration)
      /\ lowFor \in StreakAge(SustainedLowDuration)
    BY DEF TypeOK, StreakAge
<1>4. /\ highFor' = Streak(cpu >= CPUHighThreshold, highFor)
      /\ lowFor' = Streak(cpu <= CPULowThreshold, lowFor)
    BY DEF UpdateStreaks
<1>. QED
    BY <1>1, <1>2, <1>3, <1>4, StreakType

IInv == TypeOK /\ SamplesFitEngine

LEMMA InitIInv == Init => IInv
<1>. SUFFICES ASSUME Init
              PROVE  IInv
    OBVIOUS
<1>1. EngineTypeOK
    BY ConfigAssumption DEF Init, EngineInit, EngineTypeOK
<1>2. history = <<>> /\ <<>> \in Seq(Snapshot) /\ Len(<<>>) = 0 /\ MaxHistoryLength \in Nat
    BY AnalyzerAssumption DEF Init
<1>3. NoSample \in [avgCPU : CPULevels, trend : Trend, hasSpike : BOOLEAN,
                    highFor : {NotTracked} \cup 0..SustainedHighDuration,
                    lowFor : {NotTracked} \cup 0..SustainedLowDuration]
    BY AnalyzerAssumption DEF NoSample, NotTracked, Trend
<1>. QED
    BY <1>1, <1>2, <1>3 DEF Init, IInv, TypeOK, SamplesFitEngine

LEMMA AnalyzePreserves ==
    ASSUME IInv, NEW cpu \in CPULevels, Analyze(cpu)
    PROVE  IInv'
<1>. DEFINE h == RecordSnapshot(history, [age |-> lag, cpu |-> cpu])
<1>1. history \in Seq(Snapshot) /\ Len(history) <= MaxHistoryLength /\ lag \in Int
    BY AnalyzerAssumption DEF IInv, TypeOK
<1>2. [age |-> lag, cpu |-> cpu] \in Snapshot
    BY <1>1 DEF Snapshot
<1>3. h \in Seq(Snapshot) /\ Len(h) \in 1..MaxHistoryLength /\ h[Len(h)] = [age |-> lag, cpu |-> cpu]
    BY <1>1, <1>2, RecordSnapshotType
<1>4. history' = h
    BY DEF Analyze
<1>. HIDE DEF h
<1>5. /\ highFor' \in StreakAge(SustainedHighDuration)
      /\ lowFor' \in StreakAge(SustainedLowDuration)
      /\ highFor' # NotTracked <=> cpu >= CPUHighThreshold
      /\ lowFor' # NotTracked <=> cpu <= CPULowThreshold
    BY StreaksUpdated DEF IInv, Analyze
<1>6. DetectSpike(h) => cpu > 0
    BY <1>3, SpikeIsLoad
<1>7. CalculateTrend(h) \in Trend
    BY DEF CalculateTrend, Trend
<1>8. DetectSpike(h) \in BOOLEAN
    BY DEF DetectSpike
<1>9. sample' = [avgCPU |-> cpu, trend |-> CalculateTrend(h), hasSpike |-> DetectSpike(h),
                 highFor |-> highFor', lowFor |-> lowFor']
    BY <1>4 DEF Analyze
<1>10. sample' \in Analyzed
    BY <1>5, <1>6, <1>7, <1>8, <1>9 DEF Analyzed, StreakAge
<1>11. TypeOK'
  <2>1. EngineTypeOK' /\ lag' \in SourceLag /\ phase' \in {"collect", "decide", "wait"}
      BY DEF IInv, TypeOK, Analyze, EngineTypeOK, engineVars
  <2>. QED
      BY <2>1, <1>3, <1>4, <1>5, <1>10 DEF TypeOK, Analyzed, StreakAge
<1>. QED
    BY <1>10, <1>11 DEF IInv, SamplesFitEngine

LEMMA AnalyzeNoServersPreserves ==
    ASSUME IInv, AnalyzeNoServers
    PROVE  IInv'
<1>1. 0 \in CPULevels
    BY AnalyzerAssumption
<1>2. /\ highFor' \in StreakAge(SustainedHighDuration)
      /\ lowFor' \in StreakAge(SustainedLowDuration)
      /\ highFor' # NotTracked <=> 0 >= CPUHighThreshold
      /\ lowFor' # NotTracked <=> 0 <= CPULowThreshold
    BY <1>1, StreaksUpdated DEF IInv, AnalyzeNoServers
<1>3. sample' = [avgCPU |-> 0, trend |-> "stable", hasSpike |-> FALSE,
                 highFor |-> highFor', lowFor |-> lowFor']
    BY DEF AnalyzeNoServers, NoSample
<1>4. sample' \in Analyzed
    BY <1>1, <1>2, <1>3 DEF Analyzed, StreakAge, Trend
<1>5. TypeOK'
  <2>1. /\ EngineTypeOK' /\ lag' \in SourceLag /\ phase' \in {"collect", "decide", "wait"}
        /\ history' \in Seq(Snapshot) /\ Len(history') <= MaxHistoryLength
      BY DEF IInv, TypeOK, AnalyzeNoServers, EngineTypeOK, engineVars
  <2>. QED
      BY <2>1, <1>2, <1>4 DEF TypeOK, Analyzed, StreakAge
<1>. QED
    BY <1>4, <1>5 DEF IInv, SamplesFitEngine

LEMMA NextIntervalPreserves ==
    ASSUME IInv, NextInterval
    PROVE  IInv'
<1>1. EngineTypeOK'
  <2>1. EngineTick /\ EngineTypeOK
      BY DEF IInv, TypeOK, NextInterval
  <2>. QED
      BY <2>1, ConfigAssumption DEF EngineTick, EngineTypeOK, AtMost
<1>2. history' \in Seq(Snapshot) /\ Len(history') <= MaxHistoryLength
    BY OlderType DEF IInv, TypeOK, NextInterval
<1>3. /\ highFor' \in StreakAge(SustainedHighDuration)
      /\ lowFor' \in StreakAge(SustainedLowDuration)
  <2>1. SustainedHighDuration \in Nat /\ SustainedLowDuration \in Nat
      BY ConfigAssumption
  <2>. QED
      BY <2>1, StreakType DEF IInv, TypeOK, NextInterval, StreakAge
<1>4. phase' = "collect" /\ sample' = sample /\ lag' = lag
    BY DEF NextInterval
<1>. QED
    BY <1>1, <1>2, <1>3, <1>4 DEF IInv, TypeOK, SamplesFitEngine, StreakAge

LEMMA NextIInv == IInv /\ [Next]_vars => IInv'
<1>. SUFFICES ASSUME IInv, [Next]_vars
              PROVE  IInv'
    OBVIOUS
<1>1. ASSUME NEW cpu \in CPULevels, Analyze(cpu)
      PROVE  IInv'
    BY <1>1, AnalyzePreserves
<1>2. CASE AnalyzeNoServers
    BY <1>2, AnalyzeNoServersPreserves
<1>3. CASE CollectFails
  <2>1. NoSample \in [avgCPU : CPULevels, trend : Trend, hasSpike : BOOLEAN,
                      highFor : {NotTracked} \cup 0..SustainedHighDuration,
                      lowFor : {NotTracked} \cup 0..SustainedLowDuration]
      BY AnalyzerAssumption DEF NoSample, NotTracked, Trend
  <2>. QED
      BY <1>3, <2>1 DEF IInv, TypeOK, SamplesFitEngine, CollectFails, EngineTypeOK, engineVars
<1>4. ASSUME NEW s \in ClusterState, Execute(s)
      PROVE  IInv'
  <2>1. EngineTypeOK'
      BY <1>4, ConfigAssumption DEF Execute, RecordScaling, EngineTypeOK
  <2>. QED
      BY <1>4, <2>1 DEF IInv, TypeOK, SamplesFitEngine, Execute
<1>5. CASE DoNothing
    BY <1>5 DEF IInv, TypeOK, SamplesFitEngine, DoNothing, EngineTypeOK, engineVars
<1>6. CASE NextInterval
    BY <1>6, NextIntervalPreserves
<1>7. CASE UNCHANGED vars
    BY <1>7 DEF IInv, TypeOK, SamplesFitEngine, vars, analyzerVars, engineVars, EngineTypeOK
<1>. QED
    BY <1>1, <1>2, <1>3, <1>4, <1>5, <1>6, <1>7 DEF Next

(* The state of the analyzer, the tracker and the engine keeps its type.   *)
THEOREM AnalyzerTypeCorrect == Spec => []TypeOK
BY InitIInv, NextIInv, PTL DEF Spec, IInv

(* Every sample that reaches Decide is one of Analyzed, over which the     *)
(* theorems about the engine quantify: the two components fit together.    *)
THEOREM SamplesFitEngineHolds == Spec => []SamplesFitEngine
BY InitIInv, NextIInv, PTL DEF Spec, IInv

-----------------------------------------------------------------------------
(* The scale-ups of one surge.  The samples since the first of them are    *)
(* the tail of the history from some sample on, and that sample is as old  *)
(* as the surge, or the history holds no older one.  A baseline below the  *)
(* surge lies before that tail, so that its first sample is within the     *)
(* minute; and every scale-up so far has cost a cooldown.                  *)

SinceSurge(k) ==
    /\ \A i \in k..Len(history) : history[i].cpu >= surge.floor
    /\ k = 1 \/ history[k].age >= AtMost(surge.age + lag, Horizon)
    /\ phase = "decide" /\ sample.hasSpike => k < Len(history)

FloorCovers == surge.scaleUps > 0 => \E k \in 1..Len(history) : SinceSurge(k)

SampleIsLast ==
    phase = "decide" /\ sample.hasSpike =>
        /\ Len(history) >= 2
        /\ sample.avgCPU = history[Len(history)].cpu
        /\ DetectSpike(history)

(* The scale-ups fit into the age of the surge, one cooldown each. *)
CooldownsFit(scaleUps, since, age) ==
    age = Horizon \/ scaleUps * CooldownPeriod + since <= age + CooldownPeriod

ScaleUpsAreApart == surge.scaleUps > 0 => CooldownsFit(surge.scaleUps, sinceScaleUp, surge.age)

SurgeInv ==
    /\ FloorCovers
    /\ ScaleUpsAreApart
    /\ SampleIsLast
    /\ surge \in [age : 0..Horizon, floor : CPULevels, scaleUps : Nat]
    /\ \A i \in 1..Len(history) : history[i].age >= lag

(* What is executed on a spike alone was outside its cooldown.             *)
LEMMA SpikeAloneWaits ==
    ASSUME IInv, NEW s \in ClusterState, OnSpikeAlone(s),
           ShouldExecute(Decide(sample, NoPrediction, s))
    PROVE  sample.hasSpike /\ sinceScaleUp >= CooldownPeriod
<1>1. sample.hasSpike
  <2>1. SUFFICES ASSUME ~sample.hasSpike
                 PROVE  FALSE
      OBVIOUS
  <2>2. [sample EXCEPT !.hasSpike = FALSE] = sample
      BY <2>1 DEF IInv, TypeOK
  <2>. QED
      BY <2>2 DEF OnSpikeAlone
<1>2. ~InScaleUpCooldown
  <2>1. SUFFICES ASSUME InScaleUpCooldown
                 PROVE  FALSE
      OBVIOUS
  <2>2. ~(sample.avgCPU >= EmergencyCPUThreshold)
    <3>1. sample.avgCPU \in Nat
        BY InputAssumption DEF IInv, TypeOK
    <3>. QED
        BY <3>1, ConfigAssumption DEF OnSpikeAlone
  <2>3. Decide(sample, NoPrediction, s) = InCooldown(s)
      BY <2>1, <2>2 DEF Decide, OnSpikeAlone
  <2>4. InCooldown(s).cooldownActive
      BY DEF InCooldown, Maintain
  <2>. QED
      BY <2>3, <2>4 DEF ShouldExecute
<1>. QED
    BY <1>1, <1>2, ConfigAssumption DEF InScaleUpCooldown, IInv, TypeOK, EngineTypeOK

(* The arithmetic of one more scale-up, and of one more interval. *)
LEMMA OneMoreScaleUp ==
    ASSUME NEW n \in Nat, NEW since \in Nat, NEW age \in Nat, since >= CooldownPeriod,
           age # Horizon, CooldownsFit(n, since, age)
    PROVE  n * CooldownPeriod <= age /\ CooldownsFit(n + 1, 0, age)
<1>. DEFINE cost == n * CooldownPeriod
<1>1. CooldownPeriod \in Nat /\ cost \in Nat
    BY ConfigAssumption
<1>2. (n + 1) * CooldownPeriod = cost + CooldownPeriod
    BY <1>1
<1>3. cost + since <= age + CooldownPeriod
    BY DEF CooldownsFit
<1>. HIDE DEF cost
<1>4. cost <= age
    BY <1>1, <1>3
<1>. QED
    BY <1>1, <1>2, <1>4 DEF CooldownsFit, cost

LEMMA CooldownsFitInTime ==
    ASSUME NEW n \in Nat, NEW since \in Nat, NEW after \in Nat, NEW age \in 0..Horizon,
           after <= since + 1, CooldownsFit(n, since, age)
    PROVE  CooldownsFit(n, after, AtMost(age + 1, Horizon))
<1>. DEFINE cost == n * CooldownPeriod
<1>1. CooldownPeriod \in Nat /\ cost \in Nat /\ Horizon \in Nat
    BY ConfigAssumption, AnalyzerAssumption
<1>. HIDE DEF cost
<1>2. age = Horizon \/ cost + since <= age + CooldownPeriod
    BY DEF CooldownsFit, cost
<1>3. \/ AtMost(age + 1, Horizon) = Horizon
      \/ cost + after <= AtMost(age + 1, Horizon) + CooldownPeriod
    BY <1>1, <1>2 DEF AtMost
<1>. QED
    BY <1>3 DEF CooldownsFit, cost

LEMMA SurgeInvSuffices ==
    ASSUME IInv, SurgeInv, NEW s \in ClusterState, phase = "decide", SameSurge,
           OnSpikeAlone(s), ShouldExecute(Decide(sample, NoPrediction, s))
    PROVE  /\ surge.age <= Minute - lag
           /\ surge.scaleUps * CooldownPeriod <= surge.age
           /\ CooldownsFit(surge.scaleUps + 1, 0, surge.age)
<1>1. sample.hasSpike /\ sinceScaleUp >= CooldownPeriod
    BY SpikeAloneWaits
<1>2. /\ sample.avgCPU = history[Len(history)].cpu
      /\ DetectSpike(history)
    BY <1>1 DEF SurgeInv, SampleIsLast
<1>3. PICK i \in 1..(Len(history) - 1) :
          IsBaseline(history, i) /\ history[i].cpu # 0 /\ Rises(history, i)
    BY <1>2 DEF DetectSpike
<1>4. PICK k \in 1..Len(history) : SinceSurge(k)
    BY DEF SurgeInv, FloorCovers, SameSurge
<1>5. k < Len(history)
    BY <1>1, <1>4 DEF SinceSurge
<1>6. /\ history \in Seq(Snapshot) /\ Len(history) \in Nat
      /\ history[i] \in Snapshot /\ history[k] \in Snapshot /\ history[Len(history)] \in Snapshot
    BY <1>3, <1>4, <1>5 DEF IInv, TypeOK
<1>7. i < k
  <2>1. SUFFICES ASSUME k <= i
                 PROVE  FALSE
      BY <1>3, <1>6
  <2>2. history[i].cpu >= surge.floor
      BY <1>3, <1>4, <1>6, <2>1 DEF SinceSurge
  <2>. DEFINE base == history[i].cpu
              cpu == history[Len(history)].cpu
  <2>3. /\ base \in Nat \ {0} /\ cpu \in Nat /\ surge.floor \in Nat
        /\ (cpu - base) * 100 >= SpikeThreshold * base
    <3>1. surge.floor \in Nat
        BY InputAssumption DEF SurgeInv
    <3>2. base \in Nat /\ cpu \in Nat
        BY <1>6, InputAssumption DEF Snapshot
    <3>3. base # 0 /\ (cpu - base) * 100 >= SpikeThreshold * base
        BY <1>3 DEF Rises
    <3>. QED
        BY <3>1, <3>2, <3>3
  <2>4. base >= surge.floor /\ cpu <= surge.floor
      BY <1>2, <2>2 DEF SameSurge
  <2>. HIDE DEF base, cpu
  <2>5. SpikeThreshold * base \in Nat \ {0}
      BY <2>3, AnalyzerAssumption
  <2>6. cpu > base
      BY <2>3, <2>5
  <2>. QED
      BY <2>3, <2>4, <2>6
<1>8. /\ surge.age \in 0..Horizon /\ surge.scaleUps \in Nat /\ sinceScaleUp \in Nat
      /\ lag \in SourceLag /\ lag \in Int /\ Horizon \in Nat /\ Minute \in Nat
      /\ Minute < Horizon /\ Minute - lag < Horizon
    BY AnalyzerAssumption, ConfigAssumption DEF SurgeInv, IInv, TypeOK, EngineTypeOK
<1>9. surge.age <= Minute - lag
  <2>1. k # 1 /\ k \in (i + 1)..(Len(history) - 1)
      BY <1>3, <1>5, <1>6, <1>7
  <2>2. history[k].age >= AtMost(surge.age + lag, Horizon)
      BY <1>4, <2>1 DEF SinceSurge
  <2>3. history[k].age <= Minute
    <3>1. i # Len(history) - 1
        BY <1>5, <1>6, <1>7, <2>1
    <3>. QED
        BY <1>3, <2>1, <3>1 DEF IsBaseline
  <2>4. history[k].age \in Int
      BY <1>6 DEF Snapshot
  <2>. QED
      BY <1>8, <2>2, <2>3, <2>4 DEF AtMost
<1>10. CooldownsFit(surge.scaleUps, sinceScaleUp, surge.age)
    BY DEF SurgeInv, ScaleUpsAreApart, SameSurge
<1>11. surge.age # Horizon
    BY <1>8, <1>9
<1>. QED
    BY <1>1, <1>8, <1>9, <1>10, <1>11, OneMoreScaleUp

(* recordSnapshot shifts the history by one place or by none. *)
LEMMA RecordSnapshotShifts ==
    ASSUME NEW h \in Seq(Snapshot), NEW s \in Snapshot, Len(h) <= MaxHistoryLength,
           NEW r, r = RecordSnapshot(h, s)
    PROVE  \E d \in {0, 1} : /\ Len(r) = Len(h) + 1 - d
                             /\ r[Len(r)] = s
                             /\ \A i \in 1..(Len(h) - d) : r[i] = h[i + d]
                             /\ d = 1 => Len(h) = MaxHistoryLength
<1>. DEFINE all == Append(h, s)
<1>1. /\ Len(h) \in Nat /\ Len(all) = Len(h) + 1 /\ MaxHistoryLength \in Nat \ {0}
      /\ all[Len(h) + 1] = s /\ \A i \in 1..Len(h) : all[i] = h[i]
    BY AnalyzerAssumption
<1>2. CASE Len(h) + 1 > MaxHistoryLength
  <2>1. Len(h) = MaxHistoryLength /\ Len(all) - MaxHistoryLength + 1 = 2
      BY <1>1, <1>2
  <2>2. r = SubSeq(all, 2, Len(h) + 1)
      BY <1>1, <1>2, <2>1 DEF RecordSnapshot
  <2>3. r = [i \in 1..Len(h) |-> all[i + 1]] /\ Len(r) = Len(h)
      BY <2>2, <1>1
  <2>4. r[Len(r)] = s
      BY <2>1, <2>3, <1>1
  <2>5. \A i \in 1..(Len(h) - 1) : r[i] = h[i + 1]
      BY <2>3, <1>1
  <2>. QED
      BY <2>1, <2>3, <2>4, <2>5
<1>3. CASE ~(Len(h) + 1 > MaxHistoryLength)
    BY <1>1, <1>3 DEF RecordSnapshot
<1>. QED
    BY <1>2, <1>3

(* Recording a sample: the sample that began the surge, or the first one   *)
(* since, is still there or everything the history holds came after it.    *)
LEMMA AnalyzeKeepsSurge ==
    ASSUME IInv, SurgeInv, NEW cpu \in CPULevels, Analyze(cpu)
    PROVE  SurgeInv'
<1>. DEFINE s == [age |-> lag, cpu |-> cpu]
            n == Len(history)
            m == Len(history')
<1>1. /\ history \in Seq(Snapshot) /\ n \in Nat /\ n <= MaxHistoryLength
      /\ lag \in Int /\ lag \in SourceLag /\ lag' = lag /\ s \in Snapshot
      /\ cpu \in Nat /\ MaxHistoryLength \in Nat \ {0}
  <2>1. lag \in Int /\ lag \in SourceLag /\ lag' = lag /\ cpu \in Nat /\ MaxHistoryLength \in Nat \ {0}
      BY AnalyzerAssumption, InputAssumption DEF IInv, TypeOK, Analyze
  <2>. QED
      BY <2>1 DEF IInv, TypeOK, Snapshot
<1>2. history' = RecordSnapshot(history, s)
    BY DEF Analyze
<1>3. PICK d \in {0, 1} : /\ m = n + 1 - d /\ history'[m] = s
                          /\ \A i \in 1..(n - d) : history'[i] = history[i + d]
  <2>. HIDE DEF s
  <2>0. history \in Seq(Snapshot) /\ s \in Snapshot /\ Len(history) <= MaxHistoryLength
      BY <1>1
  <2>1. \E d \in {0, 1} : /\ Len(history') = Len(history) + 1 - d
                          /\ history'[Len(history')] = s
                          /\ \A i \in 1..(Len(history) - d) : history'[i] = history[i + d]
                          /\ d = 1 => Len(history) = MaxHistoryLength
      BY <1>2, <2>0, RecordSnapshotShifts
  <2>. QED
      BY <2>1
<1>4. m \in Nat /\ m >= 1
  <2>1. m \in 1..MaxHistoryLength
      BY <1>1, <1>2, RecordSnapshotType
  <2>. QED
      BY <2>1, <1>1
<1>5. /\ surge' = [age |-> surge.age, floor |-> AtMost(surge.floor, cpu), scaleUps |-> surge.scaleUps]
      /\ surge.age \in 0..Horizon /\ surge.floor \in CPULevels /\ surge.scaleUps \in Nat
    BY DEF Analyze, SurgeInv
<1>6. /\ sinceScaleUp' = sinceScaleUp /\ surge'.age = surge.age
      /\ surge'.scaleUps = surge.scaleUps /\ surge'.floor = AtMost(surge.floor, cpu)
    BY <1>5 DEF Analyze, engineVars
<1>7. \A i \in 1..m : history'[i].age >= lag
  <2>. SUFFICES ASSUME NEW i \in 1..m
                PROVE  history'[i].age >= lag
      OBVIOUS
  <2>1. CASE i = m
      BY <2>1, <1>1, <1>3
  <2>2. CASE i # m
    <3>1. i + d \in 1..n
        BY <2>2, <1>1, <1>3, <1>4
    <3>2. history'[i] = history[i + d]
        BY <2>2, <1>1, <1>3, <1>4
    <3>. QED
        BY <3>1, <3>2 DEF SurgeInv
  <2>. QED
      BY <2>1, <2>2
<1>8. /\ surge' \in [age : 0..Horizon, floor : CPULevels, scaleUps : Nat]
      /\ ScaleUpsAreApart'
  <2>1. AtMost(surge.floor, cpu) \in CPULevels
      BY <1>5 DEF AtMost
  <2>. QED
      BY <1>5, <1>6, <2>1 DEF SurgeInv, ScaleUpsAreApart, CooldownsFit
<1>9. SampleIsLast'
  <2>. SUFFICES ASSUME sample'.hasSpike
                PROVE  m >= 2 /\ sample'.avgCPU = history'[m].cpu /\ DetectSpike(history')
      BY DEF SampleIsLast
  <2>1. sample'.avgCPU = cpu /\ sample'.hasSpike = DetectSpike(history')
      BY DEF Analyze
  <2>2. m >= 2
    <3>1. 1..(m - 1) # {}
        BY <2>1 DEF DetectSpike
    <3>. QED
        BY <3>1, <1>4
  <2>. QED
      BY <2>1, <2>2, <1>3
<1>10. FloorCovers'
  <2>. SUFFICES ASSUME surge'.scaleUps > 0
                PROVE  \E k \in 1..m : SinceSurge(k)'
      BY DEF FloorCovers
  <2>1. PICK k \in 1..n : SinceSurge(k)
      BY <1>6 DEF SurgeInv, FloorCovers
  <2>2. surge.floor \in Nat /\ surge'.floor \in Nat /\ surge'.floor <= surge.floor /\ surge'.floor <= cpu
    <3>1. surge.floor \in Nat
        BY <1>5, InputAssumption
    <3>2. AtMost(surge.floor, cpu) \in Nat /\ AtMost(surge.floor, cpu) <= surge.floor
          /\ AtMost(surge.floor, cpu) <= cpu
        BY <1>1, <3>1 DEF AtMost
    <3>. QED
        BY <1>6, <3>1, <3>2
  <2>. DEFINE k2 == IF d = 1 /\ k > 1 THEN k - 1 ELSE k
  <2>3. k2 \in 1..m /\ k2 + d >= k /\ (k2 = 1 \/ k2 + d = k)
      BY <1>1, <1>3, <2>1
  <2>4. m >= 2 => k2 < m
      BY <1>1, <1>3, <2>1
  <2>5. \A i \in k2..m : history'[i].cpu >= surge'.floor
    <3>. SUFFICES ASSUME NEW i \in k2..m
                  PROVE  history'[i].cpu >= surge'.floor
        OBVIOUS
    <3>1. CASE i = m
        BY <3>1, <1>1, <1>3, <2>2
    <3>2. CASE i # m
      <4>1. i \in 1..m /\ i + d \in k..n /\ history'[i] = history[i + d]
        <5>0. k2 \in Nat /\ k2 >= 1 /\ k2 + d >= k /\ k \in Int /\ d \in Int /\ m = n + 1 - d
            BY <1>3, <2>1, <2>3
        <5>. HIDE DEF k2
        <5>1. i \in 1..m /\ i + d \in k..n /\ i \in 1..(n - d)
            BY <5>0, <3>2, <1>1, <1>4
        <5>. QED
            BY <5>1, <1>3
      <4>2. history[i + d].cpu >= surge.floor
          BY <4>1, <2>1 DEF SinceSurge
      <4>3. history[i + d].cpu \in Nat
        <5>1. history[i + d] \in Snapshot
            BY <4>1, <1>1, <2>1
        <5>. QED
            BY <5>1, InputAssumption DEF Snapshot
      <4>. QED
          BY <4>1, <4>2, <4>3, <2>2
    <3>. QED
        BY <3>1, <3>2
  <2>6. k2 = 1 \/ history'[k2].age >= AtMost(surge.age + lag, Horizon)
    <3>. SUFFICES ASSUME k2 # 1
                  PROVE  history'[k2].age >= AtMost(surge.age + lag, Horizon)
        OBVIOUS
    <3>1. k2 + d = k /\ k # 1 /\ k \in 1..n /\ k2 \in 1..m
        BY <2>1, <2>3
    <3>2. k2 \in 1..(n - d)
        BY <3>1, <1>1
    <3>3. history'[k2] = history[k]
        BY <3>1, <3>2, <1>3
    <3>. QED
        BY <3>1, <3>3, <2>1 DEF SinceSurge
  <2>7. sample'.hasSpike => m >= 2
      BY <1>9 DEF SampleIsLast, Analyze
  <2>. QED
      BY <2>3, <2>4, <2>5, <2>6, <2>7, <1>1, <1>6 DEF SinceSurge
<1>. QED
    BY <1>1, <1>7, <1>8, <1>9, <1>10 DEF SurgeInv

(* Time ages the scale-up and the samples alike. *)
LEMMA NextIntervalKeepsSurge ==
    ASSUME IInv, SurgeInv, NextInterval
    PROVE  SurgeInv'
<1>1. /\ history \in Seq(Snapshot) /\ Len(history') = Len(history) /\ Len(history) \in Nat
      /\ history' = Older(history)
    BY OlderType DEF IInv, TypeOK, NextInterval
<1>2. /\ lag \in Int /\ lag \in SourceLag /\ lag <= Horizon /\ Horizon \in Nat /\ lag' = lag
      /\ surge' = [age |-> IF surge.scaleUps = 0 THEN 0 ELSE AtMost(surge.age + 1, Horizon),
                   floor |-> surge.floor, scaleUps |-> surge.scaleUps]
      /\ surge.age \in 0..Horizon /\ surge.floor \in CPULevels /\ surge.scaleUps \in Nat
      /\ phase' = "collect"
      /\ sinceScaleUp \in Nat /\ sinceScaleUp' \in Nat /\ sinceScaleUp' <= sinceScaleUp + 1
  <2>1. surge \in [age : 0..Horizon, floor : CPULevels, scaleUps : Nat]
      BY DEF SurgeInv
  <2>2. surge' = [surge EXCEPT !.age = IF surge.scaleUps = 0 THEN 0 ELSE AtMost(surge.age + 1, Horizon)]
      BY DEF NextInterval
  <2>3. lag \in SourceLag /\ lag' = lag /\ phase' = "collect" /\ EngineTypeOK /\ EngineTick
      BY DEF IInv, TypeOK, NextInterval
  <2>4. lag \in Int /\ lag <= Horizon /\ Horizon \in Nat
      BY <2>3, AnalyzerAssumption
  <2>5. sinceScaleUp \in Nat /\ sinceScaleUp' \in Nat /\ sinceScaleUp' <= sinceScaleUp + 1
      BY <2>3, ConfigAssumption DEF EngineTypeOK, EngineTick, AtMost
  <2>. QED
      BY <2>1, <2>2, <2>3, <2>4, <2>5
<1>3. ASSUME NEW i \in 1..Len(history)
      PROVE  /\ history'[i].cpu = history[i].cpu
             /\ history[i].age \in Int
             /\ history'[i].age = AtMost(history[i].age + 1, Horizon)
  <2>1. history[i] \in Snapshot
      BY <1>1
  <2>2. history'[i] = [history[i] EXCEPT !.age = AtMost(history[i].age + 1, Horizon)]
      BY <1>1 DEF Older
  <2>. QED
      BY <2>1, <2>2 DEF Snapshot
<1>4. \A i \in 1..Len(history) : history'[i].age >= lag
  <2>. SUFFICES ASSUME NEW i \in 1..Len(history)
                PROVE  history'[i].age >= lag
      OBVIOUS
  <2>1. history[i].age >= lag
      BY DEF SurgeInv
  <2>. QED
      BY <2>1, <1>2, <1>3 DEF AtMost
<1>5. FloorCovers'
  <2>. SUFFICES ASSUME surge.scaleUps > 0
                PROVE  \E k \in 1..Len(history) : SinceSurge(k)'
      BY <1>1, <1>2 DEF FloorCovers
  <2>0. surge'.age = AtMost(surge.age + 1, Horizon) /\ surge'.floor = surge.floor
      BY <1>2
  <2>1. PICK k \in 1..Len(history) : SinceSurge(k)
      BY DEF SurgeInv, FloorCovers
  <2>2. \A i \in k..Len(history) : history'[i].cpu >= surge.floor
    <3>. SUFFICES ASSUME NEW i \in k..Len(history)
                  PROVE  history'[i].cpu >= surge.floor
        OBVIOUS
    <3>1. i \in 1..Len(history) /\ history[i].cpu >= surge.floor
        BY <1>1, <2>1 DEF SinceSurge
    <3>. QED
        BY <3>1, <1>3
  <2>3. k = 1 \/ history'[k].age >= AtMost(surge'.age + lag, Horizon)
    <3>. SUFFICES ASSUME k # 1
                  PROVE  history'[k].age >= AtMost(surge'.age + lag, Horizon)
        OBVIOUS
    <3>1. history[k].age >= AtMost(surge.age + lag, Horizon)
        BY <2>1 DEF SinceSurge
    <3>. QED
        BY <3>1, <2>0, <1>2, <1>3 DEF AtMost
  <2>. QED
      BY <2>0, <2>2, <2>3, <1>1, <1>2 DEF SinceSurge
<1>6. surge' \in [age : 0..Horizon, floor : CPULevels, scaleUps : Nat]
    BY <1>2 DEF AtMost
<1>7. ScaleUpsAreApart'
  <2>. SUFFICES ASSUME surge.scaleUps > 0
                PROVE  CooldownsFit(surge.scaleUps, sinceScaleUp', AtMost(surge.age + 1, Horizon))
      BY <1>2 DEF ScaleUpsAreApart, CooldownsFit
  <2>1. CooldownsFit(surge.scaleUps, sinceScaleUp, surge.age)
      BY DEF SurgeInv, ScaleUpsAreApart
  <2>. QED
      BY <1>2, <2>1, CooldownsFitInTime
<1>. QED
    BY <1>1, <1>2, <1>4, <1>5, <1>6, <1>7 DEF SurgeInv, SampleIsLast

(* A scaling starts the cooldown anew.  One on a spike alone begins a      *)
(* surge, whose tail is the last sample, or belongs to the surge under way. *)
LEMMA ExecuteKeepsSurge ==
    ASSUME IInv, SurgeInv, NEW s \in ClusterState, Execute(s)
    PROVE  SurgeInv'
<1>1. /\ history' = history /\ lag' = lag /\ phase' = "wait" /\ sinceScaleUp' = 0
      /\ phase = "decide" /\ sample' = sample
    BY DEF Execute, RecordScaling
<1>2. /\ lag \in Int /\ lag <= Horizon /\ Horizon \in Nat /\ sinceScaleUp \in Nat
      /\ history \in Seq(Snapshot) /\ Len(history) \in Nat
      /\ sample.avgCPU \in CPULevels /\ sample.avgCPU \in Nat
      /\ CooldownPeriod \in Nat
      /\ surge \in [age : 0..Horizon, floor : CPULevels, scaleUps : Nat]
  <2>1. /\ lag \in SourceLag /\ sinceScaleUp \in 0..CooldownPeriod /\ sample.avgCPU \in CPULevels
        /\ history \in Seq(Snapshot)
      BY DEF IInv, TypeOK, EngineTypeOK
  <2>2. surge \in [age : 0..Horizon, floor : CPULevels, scaleUps : Nat]
      BY DEF SurgeInv
  <2>3. lag \in Int /\ lag <= Horizon /\ Horizon \in Nat
      BY <2>1, AnalyzerAssumption
  <2>4. CooldownPeriod \in Nat /\ sinceScaleUp \in Nat
      BY <2>1, ConfigAssumption
  <2>5. sample.avgCPU \in Nat
      BY <2>1, InputAssumption
  <2>6. Len(history) \in Nat
      BY <2>1
  <2>. QED
      BY <2>1, <2>2, <2>3, <2>4, <2>5, <2>6
<1>3. \A i \in 1..Len(history) : history[i].age >= lag
    BY DEF SurgeInv
<1>4. SampleIsLast'
    BY <1>1 DEF SampleIsLast
<1>5. CASE OnSpikeAlone(s) /\ ~SameSurge
  <2>1. surge' = [age |-> 0, floor |-> sample.avgCPU, scaleUps |-> 1]
      BY <1>5 DEF Execute, RecordSurge
  <2>2. sample.hasSpike
      BY <1>5, SpikeAloneWaits DEF Execute
  <2>3. Len(history) >= 2 /\ sample.avgCPU = history[Len(history)].cpu
      BY <2>2, <1>1 DEF SurgeInv, SampleIsLast
  <2>4. SinceSurge(Len(history))'
    <3>1. \A i \in Len(history)..Len(history) : history[i].cpu >= sample.avgCPU
        BY <2>3, <1>2
    <3>2. history[Len(history)].age >= AtMost(0 + lag, Horizon)
        BY <1>2, <1>3, <2>3 DEF AtMost
    <3>. QED
        BY <3>1, <3>2, <2>1, <1>1 DEF SinceSurge
  <2>5. FloorCovers'
      BY <2>3, <2>4, <1>1, <1>2 DEF FloorCovers
  <2>6. CooldownsFit(1, 0, 0)
      BY <1>2 DEF CooldownsFit
  <2>7. ScaleUpsAreApart' /\ surge' \in [age : 0..Horizon, floor : CPULevels, scaleUps : Nat]
      BY <2>1, <2>6, <1>1, <1>2 DEF ScaleUpsAreApart, CooldownsFit
  <2>. QED
      BY <2>5, <2>7, <1>1, <1>3, <1>4 DEF SurgeInv
<1>6. CASE OnSpikeAlone(s) /\ SameSurge
  <2>1. surge' = [age |-> surge.age, floor |-> surge.floor, scaleUps |-> surge.scaleUps + 1]
      BY <1>2, <1>6 DEF Execute, RecordSurge
  <2>2. CooldownsFit(surge.scaleUps + 1, 0, surge.age)
      BY <1>1, <1>6, SurgeInvSuffices DEF Execute
  <2>3. ScaleUpsAreApart' /\ surge' \in [age : 0..Horizon, floor : CPULevels, scaleUps : Nat]
      BY <2>1, <2>2, <1>1, <1>2 DEF ScaleUpsAreApart, CooldownsFit
  <2>4. surge'.age = surge.age /\ surge'.floor = surge.floor
      BY <2>1
  <2>5. ASSUME NEW k \in 1..Len(history), SinceSurge(k)
        PROVE  SinceSurge(k)'
      BY <2>4, <2>5, <1>1 DEF SinceSurge
  <2>6. FloorCovers'
      BY <2>5, <1>1, <1>6 DEF SurgeInv, FloorCovers, SameSurge
  <2>. QED
      BY <2>3, <2>6, <1>1, <1>3, <1>4 DEF SurgeInv
<1>7. CASE ~OnSpikeAlone(s)
  <2>1. surge' = surge
      BY <1>7 DEF Execute
  <2>2. ASSUME NEW k \in 1..Len(history), SinceSurge(k)
        PROVE  SinceSurge(k)'
      BY <2>1, <2>2, <1>1 DEF SinceSurge
  <2>3. FloorCovers'
      BY <2>1, <2>2, <1>1 DEF SurgeInv, FloorCovers
  <2>4. ScaleUpsAreApart'
    <3>. SUFFICES ASSUME surge.scaleUps > 0
                  PROVE  CooldownsFit(surge.scaleUps, 0, surge.age)
        BY <2>1, <1>1 DEF ScaleUpsAreApart, CooldownsFit
    <3>. DEFINE cost == surge.scaleUps * CooldownPeriod
    <3>1. surge.age = Horizon \/ cost + sinceScaleUp <= surge.age + CooldownPeriod
        BY DEF SurgeInv, ScaleUpsAreApart, CooldownsFit
    <3>2. cost \in Nat /\ surge.age \in Nat
        BY <1>2
    <3>. HIDE DEF cost
    <3>3. surge.age = Horizon \/ cost + 0 <= surge.age + CooldownPeriod
        BY <3>1, <3>2, <1>2
    <3>. QED
        BY <3>3 DEF CooldownsFit, cost
  <2>. QED
      BY <2>1, <2>3, <2>4, <1>1, <1>2, <1>3, <1>4 DEF SurgeInv
<1>. QED
    BY <1>5, <1>6, <1>7

LEMMA NextSurgeInv == IInv /\ SurgeInv /\ [Next]_vars => SurgeInv'
<1>. SUFFICES ASSUME IInv, SurgeInv, [Next]_vars
              PROVE  SurgeInv'
    OBVIOUS
<1>1. ASSUME NEW cpu \in CPULevels, Analyze(cpu)
      PROVE  SurgeInv'
    BY <1>1, AnalyzeKeepsSurge
<1>2. CASE AnalyzeNoServers
  <2>1. /\ history' = history /\ lag' = lag /\ surge' = surge /\ sinceScaleUp' = sinceScaleUp
        /\ ~sample'.hasSpike
      BY <1>2 DEF AnalyzeNoServers, engineVars, NoSample
  <2>2. ASSUME NEW k \in 1..Len(history), SinceSurge(k)
        PROVE  SinceSurge(k)'
      BY <2>1, <2>2 DEF SinceSurge
  <2>. QED
      BY <2>1, <2>2 DEF SurgeInv, FloorCovers, ScaleUpsAreApart, CooldownsFit, SampleIsLast
<1>3. CASE CollectFails \/ DoNothing
  <2>1. /\ history' = history /\ lag' = lag /\ surge' = surge /\ sinceScaleUp' = sinceScaleUp
        /\ phase' = "wait"
      BY <1>3 DEF CollectFails, DoNothing, engineVars
  <2>2. ASSUME NEW k \in 1..Len(history), SinceSurge(k)
        PROVE  SinceSurge(k)'
      BY <2>1, <2>2 DEF SinceSurge
  <2>. QED
      BY <2>1, <2>2 DEF SurgeInv, FloorCovers, ScaleUpsAreApart, CooldownsFit, SampleIsLast
<1>4. ASSUME NEW s \in ClusterState, Execute(s)
      PROVE  SurgeInv'
    BY <1>4, ExecuteKeepsSurge
<1>5. CASE NextInterval
    BY <1>5, NextIntervalKeepsSurge
<1>6. CASE UNCHANGED vars
    BY <1>6 DEF SurgeInv, FloorCovers, ScaleUpsAreApart, CooldownsFit, SampleIsLast, SinceSurge, vars, analyzerVars, engineVars
<1>. QED
    BY <1>1, <1>2, <1>3, <1>4, <1>5, <1>6 DEF Next

(* Whatever the loads, gaps and empty answers, however short the history   *)
(* and the cooldown: without a rise a surge adds servers at most once per  *)
(* cooldown, and only within the minute in which it is a spike             *)
(* (analyzer.go:204-244, engine.go:94-107).                                *)
THEOREM SurgeScaleUpsBoundedHolds == Spec => []SurgeScaleUpsBounded
<1>1. Init => SurgeInv
    BY AnalyzerAssumption DEF Init, SurgeInv, FloorCovers, ScaleUpsAreApart, SampleIsLast, NoSurge
<1>2. IInv /\ SurgeInv => SurgeScaleUpsBounded
    BY SurgeInvSuffices DEF SurgeScaleUpsBounded
<1>. QED
    BY <1>1, <1>2, InitIInv, NextIInv, NextSurgeInv, PTL DEF Spec

-----------------------------------------------------------------------------
(* The logs of the properties: what they forget is nothing but age. *)

InOrder(l) == \A i, j \in 1..Len(l) : i <= j => l[i].age >= l[j].age

LEMMA AgesInOrder ==
    ASSUME NEW a \in Int, NEW b \in Int, a >= b
    PROVE  /\ AtMost(a + 1, Horizon) >= AtMost(b + 1, Horizon)
           /\ AtMost(a + 1, Horizon) \in Int
           /\ AtMost(a + 1, Horizon) <= Horizon
           /\ a <= Horizon => AtMost(a + 1, Horizon) >= a
           /\ AtMost(b + 1, Horizon) = Horizon => AtMost(a + 1, Horizon) = Horizon
BY AnalyzerAssumption DEF AtMost

LEMMA OlderEntries ==
    ASSUME NEW h \in Seq(Snapshot), NEW i \in 1..Len(h)
    PROVE  /\ Older(h)[i].cpu = h[i].cpu
           /\ Older(h)[i].age = AtMost(h[i].age + 1, Horizon)
<1>1. h[i] \in Snapshot
    OBVIOUS
<1>2. Older(h)[i] = [h[i] EXCEPT !.age = AtMost(h[i].age + 1, Horizon)]
    BY DEF Older
<1>. QED
    BY <1>1, <1>2 DEF Snapshot

(* Time ages every entry of a log and drops its first one only if the next *)
(* two are at the horizon.                                                 *)
LEMMA OlderLogForgets ==
    ASSUME NEW l \in Seq(Snapshot), NEW r, r = OlderLog(l)
    PROVE  \E d \in {0, 1} :
              /\ Len(r) = Len(l) - d
              /\ r \in Seq(Snapshot)
              /\ \A i \in 1..Len(r) :
                    /\ r[i].cpu = l[i + d].cpu
                    /\ r[i].age = AtMost(l[i + d].age + 1, Horizon)
              /\ d = 1 => Len(l) > 2 /\ AtMost(l[3].age + 1, Horizon) = Horizon
<1>. DEFINE o == Older(l)
<1>1. o \in Seq(Snapshot) /\ Len(o) = Len(l) /\ Len(l) \in Nat
    BY OlderType
<1>2. ASSUME NEW i \in 1..Len(l)
      PROVE  o[i].cpu = l[i].cpu /\ o[i].age = AtMost(l[i].age + 1, Horizon)
    BY OlderEntries
<1>3. CASE Len(o) > 2 /\ o[3].age = Horizon
  <2>1. r = Tail(o)
      BY <1>3 DEF OlderLog
  <2>. HIDE DEF o
  <2>2. /\ r \in Seq(Snapshot) /\ Len(r) = Len(l) - 1
        /\ \A i \in 1..Len(r) : r[i] = o[i + 1]
      BY <1>1, <1>3, <2>1
  <2>3. AtMost(l[3].age + 1, Horizon) = Horizon
      BY <1>1, <1>2, <1>3
  <2>4. \A i \in 1..Len(r) : i + 1 \in 1..Len(l)
      BY <1>1, <2>2
  <2>. QED
      BY <1>1, <1>2, <1>3, <2>2, <2>3, <2>4
<1>4. CASE ~(Len(o) > 2 /\ o[3].age = Horizon)
  <2>1. r = o
      BY <1>4 DEF OlderLog
  <2>. HIDE DEF o
  <2>. QED
      BY <1>1, <1>2, <2>1
<1>. QED
    BY <1>3, <1>4

-----------------------------------------------------------------------------
(* The streaks are what the answers say.  In place of the first index of   *)
(* the latest run, some index where a run begins that is still going on:   *)
(* there is only one.                                                      *)

RunBegins(log, side, k) ==
    /\ \A i \in k..Len(log) : log[i].cpu \in side
    /\ k = 1 \/ log[k - 1].cpu \notin side

Backed(log, side, streak, duration) ==
    IF streak = NotTracked
    THEN Len(log) > 0 => log[Len(log)].cpu \notin side
    ELSE \E k \in 1..Len(log) :
            RunBegins(log, side, k) /\ streak = AtMost(log[k].age, duration)

LocalAges(log) ==
    /\ log \in Seq(Snapshot)
    /\ \A i \in 1..Len(log) : log[i].age \in 0..Horizon
    /\ InOrder(log)

AnswersInv ==
    /\ LocalAges(answers)
    /\ Backed(answers, HighSide, highFor, SustainedHighDuration)
    /\ Backed(answers, LowSide, lowFor, SustainedLowDuration)

LEMMA BackedIsRunAge ==
    ASSUME LocalAges(answers), NEW side, NEW streak, NEW duration \in Nat,
           Backed(answers, side, streak, duration)
    PROVE  streak = RunAge(side, duration)
<1>. DEFINE run == {i \in 1..Len(answers) : \A j \in i..Len(answers) : answers[j].cpu \in side}
<1>1. Len(answers) \in Nat
    BY DEF LocalAges
<1>2. RunAge(side, duration) =
          IF run = {} THEN NotTracked
          ELSE AtMost(answers[CHOOSE i \in run : \A j \in run : i <= j].age, duration)
    BY DEF RunAge
<1>3. CASE streak = NotTracked
  <2>1. run = {}
    <3>. SUFFICES ASSUME NEW i \in run
                  PROVE  FALSE
        OBVIOUS
    <3>1. i \in 1..Len(answers) /\ Len(answers) \in i..Len(answers)
        BY <1>1
    <3>2. answers[Len(answers)].cpu \in side
        BY <3>1
    <3>3. Len(answers) > 0
        BY <3>1, <1>1
    <3>. QED
        BY <3>2, <3>3, <1>3 DEF Backed
  <2>. QED
      BY <2>1, <1>2, <1>3
<1>4. CASE streak # NotTracked
  <2>1. PICK k \in 1..Len(answers) :
            /\ \A i \in k..Len(answers) : answers[i].cpu \in side
            /\ k = 1 \/ answers[k - 1].cpu \notin side
            /\ streak = AtMost(answers[k].age, duration)
      BY <1>4 DEF Backed, RunBegins
  <2>2. k \in run
      BY <2>1
  <2>3. ASSUME NEW j \in run
        PROVE  k <= j
    <3>1. j \in 1..Len(answers) /\ \A m \in j..Len(answers) : answers[m].cpu \in side
        OBVIOUS
    <3>. SUFFICES ASSUME j < k
                  PROVE  FALSE
        BY <3>1, <1>1
    <3>2. k # 1 /\ k - 1 \in j..Len(answers)
        BY <3>1, <1>1
    <3>. QED
        BY <2>1, <3>1, <3>2
  <2>. DEFINE first == CHOOSE i \in run : \A j \in run : i <= j
  <2>4. first \in run /\ \A j \in run : first <= j
      BY <2>2, <2>3
  <2>5. first = k
    <3>. HIDE DEF first
    <3>1. first <= k /\ k <= first
        BY <2>2, <2>3, <2>4
    <3>2. first \in Int /\ k \in Int
        BY <2>2, <2>4, <1>1
    <3>. QED
        BY <3>1, <3>2
  <2>. QED
      BY <2>1, <2>2, <2>5, <1>2
<1>. QED
    BY <1>3, <1>4

(* A new answer ends a run, goes on with it or starts one. *)
LEMMA AnswerBacked ==
    ASSUME NEW log, LocalAges(log), NEW side, NEW duration \in Nat,
           NEW streak \in StreakAge(duration), Backed(log, side, streak, duration),
           NEW cpu \in CPULevels, NEW onSide \in BOOLEAN, onSide <=> cpu \in side
    PROVE  Backed(Append(log, [age |-> 0, cpu |-> cpu]), side, Streak(onSide, streak), duration)
<1>. DEFINE n == Len(log)
            new == Append(log, [age |-> 0, cpu |-> cpu])
<1>1. /\ n \in Nat /\ Len(new) = n + 1 /\ new[n + 1].cpu = cpu /\ new[n + 1].age = 0
      /\ \A i \in 1..n : new[i] = log[i]
    BY DEF LocalAges
<1>. HIDE DEF new
<1>. SUFFICES Backed(new, side, Streak(onSide, streak), duration)
    BY DEF new
<1>2. CASE ~onSide
    BY <1>1, <1>2 DEF Backed, Streak
<1>3. CASE onSide /\ streak = NotTracked
  <2>1. Streak(onSide, streak) = 0 /\ NotTracked # 0 /\ AtMost(0, duration) = 0
      BY <1>3 DEF Streak, NotTracked, AtMost
  <2>2. RunBegins(new, side, n + 1)
    <3>1. n + 1 = 1 \/ new[n].cpu \notin side
        BY <1>1, <1>3 DEF Backed
    <3>2. \A i \in (n + 1)..(n + 1) : new[i].cpu \in side
        BY <1>1, <1>3
    <3>. QED
        BY <1>1, <3>1, <3>2 DEF RunBegins
  <2>. QED
      BY <1>1, <2>1, <2>2 DEF Backed
<1>4. CASE onSide /\ streak # NotTracked
  <2>1. Streak(onSide, streak) = streak
      BY <1>4 DEF Streak
  <2>2. PICK k \in 1..n : RunBegins(log, side, k) /\ streak = AtMost(log[k].age, duration)
      BY <1>4 DEF Backed
  <2>3. RunBegins(new, side, k)
    <3>1. \A i \in k..(n + 1) : new[i].cpu \in side
        BY <1>1, <1>4, <2>2 DEF RunBegins
    <3>2. k = 1 \/ new[k - 1].cpu \notin side
        BY <1>1, <2>2 DEF RunBegins
    <3>. QED
        BY <1>1, <3>1, <3>2 DEF RunBegins
  <2>4. k \in 1..(n + 1) /\ new[k] = log[k]
      BY <1>1
  <2>. QED
      BY <1>1, <1>4, <2>1, <2>2, <2>3, <2>4 DEF Backed
<1>. QED
    BY <1>2, <1>3, <1>4

LEMMA AnswerInOrder ==
    ASSUME NEW log, LocalAges(log), NEW cpu \in CPULevels
    PROVE  LocalAges(Append(log, [age |-> 0, cpu |-> cpu]))
<1>. DEFINE n == Len(log)
            s == [age |-> 0, cpu |-> cpu]
            new == Append(log, s)
<1>1. s \in Snapshot
    BY DEF Snapshot
<1>2. /\ n \in Nat /\ Len(new) = n + 1 /\ new[n + 1].age = 0 /\ new \in Seq(Snapshot)
      /\ \A i \in 1..n : new[i] = log[i]
    BY <1>1 DEF LocalAges
<1>. HIDE DEF new
<1>3. Horizon \in Nat
    BY AnalyzerAssumption
<1>4. \A i \in 1..(n + 1) : new[i].age \in 0..Horizon
    BY <1>2, <1>3 DEF LocalAges
<1>5. ASSUME NEW i \in 1..(n + 1), NEW j \in 1..(n + 1), i <= j
      PROVE  new[i].age >= new[j].age
  <2>1. CASE j = n + 1
      BY <1>2, <1>3, <1>4, <2>1
  <2>2. CASE j # n + 1
      BY <1>2, <1>5, <2>2 DEF LocalAges, InOrder
  <2>. QED
      BY <2>1, <2>2
<1>6. LocalAges(new)
    BY <1>2, <1>4, <1>5 DEF LocalAges, InOrder
<1>. QED
    BY <1>6 DEF new

(* Time ages a run with its first answer, also when that one is forgotten: *)
(* it and the next were at the horizon, which is beyond any duration.      *)
LEMMA TimeBacked ==
    ASSUME NEW log, LocalAges(log), NEW side, NEW duration \in Nat, duration < Horizon,
           NEW streak \in StreakAge(duration), Backed(log, side, streak, duration)
    PROVE  /\ LocalAges(OlderLog(log))
           /\ Backed(OlderLog(log), side, StreakTick(streak, duration), duration)
<1>. DEFINE n == Len(log)
            new == OlderLog(log)
            m == Len(new)
<1>1. Horizon \in Nat /\ log \in Seq(Snapshot) /\ n \in Nat
    BY AnalyzerAssumption DEF LocalAges
<1>2. PICK d \in {0, 1} :
          /\ m = n - d
          /\ new \in Seq(Snapshot)
          /\ \A i \in 1..m : new[i].cpu = log[i + d].cpu
                              /\ new[i].age = AtMost(log[i + d].age + 1, Horizon)
          /\ d = 1 => n > 2 /\ AtMost(log[3].age + 1, Horizon) = Horizon
    BY <1>1, OlderLogForgets
<1>. HIDE DEF new
<1>3. \A i \in 1..m : i + d \in 1..n
    BY <1>1, <1>2
<1>4. \A i \in 1..n : log[i].age \in Int /\ log[i].age \in Nat /\ log[i].age <= Horizon
    BY <1>1 DEF LocalAges
<1>5. LocalAges(new)
  <2>1. \A i \in 1..m : new[i].age \in 0..Horizon
      BY <1>1, <1>2, <1>3, <1>4 DEF AtMost
  <2>2. ASSUME NEW i \in 1..m, NEW j \in 1..m, i <= j
        PROVE  new[i].age >= new[j].age
    <3>1. i + d \in 1..n /\ j + d \in 1..n /\ i + d <= j + d
        BY <1>1, <1>2, <1>3, <2>2
    <3>2. log[i + d].age >= log[j + d].age
        BY <3>1 DEF LocalAges, InOrder
    <3>3. log[i + d].age \in Int /\ log[j + d].age \in Int
        BY <1>4, <3>1
    <3>4. /\ new[i].age = AtMost(log[i + d].age + 1, Horizon)
          /\ new[j].age = AtMost(log[j + d].age + 1, Horizon)
        BY <1>2
    <3>. QED
        BY <3>2, <3>3, <3>4, AgesInOrder
  <2>. QED
      BY <1>2, <2>1, <2>2 DEF LocalAges, InOrder
<1>6. Backed(new, side, StreakTick(streak, duration), duration)
  <2>1. CASE streak = NotTracked
    <3>1. m > 0 => new[m].cpu = log[n].cpu
        BY <1>1, <1>2
    <3>. QED
        BY <1>1, <1>2, <2>1, <3>1 DEF Backed, StreakTick
  <2>2. CASE streak # NotTracked
    <3>1. PICK k \in 1..n : RunBegins(log, side, k) /\ streak = AtMost(log[k].age, duration)
        BY <2>2 DEF Backed
    <3>2. StreakTick(streak, duration) = AtMost(streak + 1, duration)
        BY <2>2 DEF StreakTick
    <3>3. AtMost(streak + 1, duration) # NotTracked
        BY <2>2 DEF StreakAge, AtMost, NotTracked
    <3>. DEFINE k2 == IF k - d = 0 THEN 1 ELSE k - d
    <3>4. k2 \in 1..m /\ (k2 = 1 \/ k2 + d = k) /\ k2 + d >= k
        BY <1>1, <1>2
    <3>5. RunBegins(new, side, k2)
      <4>1. ASSUME NEW i \in k2..m
            PROVE  new[i].cpu \in side
        <5>1. i \in 1..m /\ i + d \in k..n
            BY <1>1, <1>2, <3>4
        <5>. QED
            BY <1>2, <3>1, <5>1 DEF RunBegins
      <4>2. k2 = 1 \/ new[k2 - 1].cpu \notin side
        <5>. SUFFICES ASSUME k2 # 1
                      PROVE  new[k2 - 1].cpu \notin side
            OBVIOUS
        <5>1. k2 - 1 \in 1..m /\ k2 - 1 + d = k - 1 /\ k # 1
            BY <1>1, <1>2, <3>4
        <5>. QED
            BY <1>2, <3>1, <5>1 DEF RunBegins
      <4>. QED
          BY <4>1, <4>2 DEF RunBegins
    <3>6. AtMost(streak + 1, duration) = AtMost(new[k2].age, duration)
      <4>1. AtMost(streak + 1, duration) = AtMost(AtMost(log[k].age + 1, Horizon), duration)
          BY <1>1, <1>4, <3>1 DEF AtMost
      <4>2. CASE k2 + d = k
          BY <1>2, <3>4, <4>1, <4>2
      <4>3. CASE k2 + d # k
        <5>1. k = 1 /\ d = 1 /\ k2 = 1 /\ n > 2
            BY <1>1, <1>2, <3>4, <4>3
        <5>2. log[1].age >= log[3].age /\ log[2].age >= log[3].age
            BY <1>1, <5>1 DEF LocalAges, InOrder
        <5>3. AtMost(log[1].age + 1, Horizon) = Horizon /\ AtMost(log[2].age + 1, Horizon) = Horizon
          <6>1. log[1].age \in Int /\ log[2].age \in Int /\ log[3].age \in Int
              BY <1>1, <1>4, <5>1
          <6>2. AtMost(log[3].age + 1, Horizon) = Horizon
              BY <1>2, <5>1
          <6>. QED
              BY <5>2, <6>1, <6>2, AgesInOrder
        <5>4. new[1].age = Horizon
            BY <1>2, <3>4, <5>1, <5>3
        <5>. QED
            BY <1>1, <4>1, <5>1, <5>3, <5>4
      <4>. QED
          BY <4>2, <4>3
    <3>. HIDE DEF k2
    <3>. QED
        BY <3>2, <3>3, <3>4, <3>5, <3>6 DEF Backed
  <2>. QED
      BY <2>1, <2>2
<1>. QED
    BY <1>5, <1>6 DEF new

LEMMA InitAnswersInv == Init => AnswersInv
<1>. SUFFICES ASSUME Init
              PROVE  AnswersInv
    OBVIOUS
<1>1. answers = <<>> /\ highFor = NotTracked /\ lowFor = NotTracked
    BY DEF Init
<1>. QED
    BY <1>1 DEF AnswersInv, LocalAges, InOrder, Backed

LEMMA NextAnswersInv == IInv /\ AnswersInv /\ [Next]_vars => AnswersInv'
<1>. SUFFICES ASSUME IInv, AnswersInv, [Next]_vars
              PROVE  AnswersInv'
    OBVIOUS
<1>1. /\ SustainedHighDuration \in Nat /\ SustainedLowDuration \in Nat
      /\ SustainedHighDuration < Horizon /\ SustainedLowDuration < Horizon
      /\ highFor \in StreakAge(SustainedHighDuration)
      /\ lowFor \in StreakAge(SustainedLowDuration)
    BY ConfigAssumption, AnalyzerAssumption DEF IInv, TypeOK, StreakAge
<1>2. ASSUME NEW cpu \in CPULevels, UpdateStreaks(cpu),
             answers' = Append(answers, [age |-> 0, cpu |-> cpu])
      PROVE  AnswersInv'
  <2>1. /\ (cpu >= CPUHighThreshold) \in BOOLEAN /\ (cpu <= CPULowThreshold) \in BOOLEAN
        /\ cpu >= CPUHighThreshold <=> cpu \in HighSide
        /\ cpu <= CPULowThreshold <=> cpu \in LowSide
      BY DEF HighSide, LowSide
  <2>2. /\ highFor' = Streak(cpu >= CPUHighThreshold, highFor)
        /\ lowFor' = Streak(cpu <= CPULowThreshold, lowFor)
      BY <1>2 DEF UpdateStreaks
  <2>3. Backed(answers', HighSide, highFor', SustainedHighDuration)
      BY <1>1, <1>2, <2>1, <2>2, AnswerBacked DEF AnswersInv
  <2>4. Backed(answers', LowSide, lowFor', SustainedLowDuration)
      BY <1>1, <1>2, <2>1, <2>2, AnswerBacked DEF AnswersInv
  <2>5. LocalAges(answers')
      BY <1>2, AnswerInOrder DEF AnswersInv
  <2>6. HighSide' = HighSide /\ LowSide' = LowSide
      BY DEF HighSide, LowSide
  <2>. QED
      BY <2>3, <2>4, <2>5 DEF AnswersInv
<1>3. ASSUME NEW cpu \in CPULevels, Analyze(cpu)
      PROVE  AnswersInv'
    BY <1>2, <1>3 DEF Analyze
<1>4. CASE AnalyzeNoServers
  <2>1. 0 \in CPULevels
      BY AnalyzerAssumption
  <2>. QED
      BY <1>2, <1>4, <2>1 DEF AnalyzeNoServers
<1>5. CASE NextInterval
  <2>1. /\ answers' = OlderLog(answers)
        /\ highFor' = StreakTick(highFor, SustainedHighDuration)
        /\ lowFor' = StreakTick(lowFor, SustainedLowDuration)
      BY <1>5 DEF NextInterval
  <2>2. /\ LocalAges(answers')
        /\ Backed(answers', HighSide, highFor', SustainedHighDuration)
        /\ Backed(answers', LowSide, lowFor', SustainedLowDuration)
      BY <1>1, <2>1, TimeBacked DEF AnswersInv
  <2>. QED
      BY <2>2 DEF AnswersInv
<1>6. ASSUME UNCHANGED <<answers, highFor, lowFor>>
      PROVE  AnswersInv'
    BY <1>6 DEF AnswersInv
<1>7. CASE CollectFails \/ DoNothing \/ UNCHANGED vars
    BY <1>6, <1>7 DEF CollectFails, DoNothing, vars, analyzerVars
<1>8. ASSUME NEW s \in ClusterState, Execute(s)
      PROVE  AnswersInv'
    BY <1>6, <1>8 DEF Execute
<1>. QED
    BY <1>3, <1>4, <1>5, <1>7, <1>8 DEF Next

(* One timestamp per side is enough: after any sequence of answers, gaps   *)
(* and empty answers it is the age of the latest uninterrupted run on its  *)
(* side (sustained.go:29-77).                                              *)
THEOREM StreaksAreBackedHolds == Spec => []StreaksAreBacked
<1>1. IInv /\ AnswersInv => StreaksAreBacked
    BY ConfigAssumption, BackedIsRunAge DEF AnswersInv, StreaksAreBacked
<1>. QED
    BY <1>1, InitIInv, NextIInv, InitAnswersInv, NextAnswersInv, PTL DEF Spec

-----------------------------------------------------------------------------
(* The entries at a set of indices do not depend on where the sequence     *)
(* begins.  The rank of an index is a bijection from the set onto          *)
(* 1..Cardinality, so each entry of EntriesAt is there and is the only one *)
(* of its rank.                                                            *)

Shifted(I, d) == {i + d : i \in I}
UpTo(I, i) == {j \in I : j <= i}

LEMMA ShiftedCardinality ==
    ASSUME NEW I, I \subseteq Int, IsFiniteSet(I), NEW d \in Int
    PROVE  IsFiniteSet(Shifted(I, d)) /\ Cardinality(Shifted(I, d)) = Cardinality(I)
<1>. DEFINE f == [i \in I |-> i + d]
<1>1. f \in [I -> Shifted(I, d)]
    BY DEF Shifted
<1>2. \A i, j \in I : f[i] = f[j] => i = j
    OBVIOUS
<1>3. \A k \in Shifted(I, d) : \E i \in I : f[i] = k
    BY DEF Shifted
<1>4. f \in Bijection(I, Shifted(I, d))
    BY <1>1, <1>2, <1>3 DEF Bijection, Injection, Surjection, IsInjective
<1>5. ExistsBijection(I, Shifted(I, d))
    BY <1>4 DEF ExistsBijection
<1>. QED
    BY <1>5, FS_Bijection

LEMMA RankIncreases ==
    ASSUME NEW I, I \subseteq Int, IsFiniteSet(I), NEW i \in I, NEW k \in I, i < k
    PROVE  Cardinality(UpTo(I, i)) < Cardinality(UpTo(I, k))
<1>1. UpTo(I, k) \in SUBSET I /\ UpTo(I, i) \in SUBSET UpTo(I, k)
  <2>1. ASSUME NEW j \in UpTo(I, i)
        PROVE  j \in UpTo(I, k)
    <3>1. j \in I /\ j \in Int /\ i \in Int /\ k \in Int /\ j <= i
        BY DEF UpTo
    <3>. QED
        BY <3>1 DEF UpTo
  <2>2. UpTo(I, k) \in SUBSET I
      BY DEF UpTo
  <2>. QED
      BY <2>1, <2>2
<1>2. k \in UpTo(I, k) /\ k \notin UpTo(I, i)
    BY DEF UpTo
<1>3. IsFiniteSet(UpTo(I, k))
    BY <1>1, FS_Subset
<1>4. /\ IsFiniteSet(UpTo(I, i))
      /\ Cardinality(UpTo(I, i)) <= Cardinality(UpTo(I, k))
      /\ Cardinality(UpTo(I, i)) # Cardinality(UpTo(I, k))
    BY <1>1, <1>2, <1>3, FS_Subset
<1>5. Cardinality(UpTo(I, i)) \in Nat /\ Cardinality(UpTo(I, k)) \in Nat
    BY <1>3, <1>4, FS_CardinalityType
<1>. QED
    BY <1>4, <1>5

LEMMA RankExists ==
    ASSUME NEW I, I \subseteq Int, IsFiniteSet(I), NEW n \in 1..Cardinality(I)
    PROVE  \E i \in I : Cardinality(UpTo(I, i)) = n
<1>. DEFINE f == [i \in I |-> Cardinality(UpTo(I, i))]
            c == Cardinality(I)
<1>1. c \in Nat
    BY FS_CardinalityType
<1>2. ASSUME NEW i \in I
      PROVE  Cardinality(UpTo(I, i)) \in 1..c
  <2>1. UpTo(I, i) \in SUBSET I /\ UpTo(I, i) # {}
      BY DEF UpTo
  <2>2. IsFiniteSet(UpTo(I, i)) /\ Cardinality(UpTo(I, i)) <= c
      BY <2>1, FS_Subset
  <2>3. Cardinality(UpTo(I, i)) \in Nat /\ Cardinality(UpTo(I, i)) # 0
      BY <2>1, <2>2, FS_CardinalityType, FS_EmptySet
  <2>. QED
      BY <1>1, <2>2, <2>3
<1>3. f \in [I -> 1..c]
    BY <1>2
<1>4. ASSUME NEW i \in I, NEW k \in I, f[i] = f[k]
      PROVE  i = k
  <2>1. Cardinality(UpTo(I, i)) = Cardinality(UpTo(I, k))
      BY <1>4
  <2>2. ~(i < k) /\ ~(k < i)
    <3>1. Cardinality(UpTo(I, i)) \in Int /\ Cardinality(UpTo(I, k)) \in Int
        BY <1>2
    <3>2. i < k => Cardinality(UpTo(I, i)) < Cardinality(UpTo(I, k))
        BY RankIncreases
    <3>3. k < i => Cardinality(UpTo(I, k)) < Cardinality(UpTo(I, i))
        BY RankIncreases
    <3>. QED
        BY <2>1, <3>1, <3>2, <3>3
  <2>. QED
      BY <2>2
<1>5. f \in Injection(I, 1..c)
    BY <1>3, <1>4 DEF Injection, IsInjective
<1>6. IsFiniteSet(1..c) /\ Cardinality(1..c) = c
    BY <1>1, FS_Interval
<1>7. f \in Surjection(I, 1..c)
    BY <1>5, <1>6, FS_Injection
<1>. QED
    BY <1>7 DEF Surjection

LEMMA EntriesAtShifted ==
    ASSUME NEW I, I \subseteq Int, IsFiniteSet(I), NEW d \in Int, NEW g, NEW h,
           \A i \in I : g[i + d] = h[i]
    PROVE  EntriesAt(h, I) = EntriesAt(g, Shifted(I, d))
<1>. DEFINE J == Shifted(I, d)
<1>1. /\ J \subseteq Int /\ IsFiniteSet(J) /\ Cardinality(J) = Cardinality(I)
      /\ \A i \in I : i + d \in J
      /\ \A j \in J : \E i \in I : j = i + d
  <2>1. IsFiniteSet(J) /\ Cardinality(J) = Cardinality(I)
      BY ShiftedCardinality
  <2>2. \A i \in I : i + d \in J
      BY DEF Shifted
  <2>3. \A j \in J : j \in Int /\ \E i \in I : j = i + d
      BY DEF Shifted
  <2>. QED
      BY <2>1, <2>2, <2>3
<1>2. ASSUME NEW i \in I
      PROVE  Cardinality(UpTo(J, i + d)) = Cardinality(UpTo(I, i))
  <2>1. UpTo(J, i + d) = Shifted(UpTo(I, i), d)
    <3>. HIDE DEF J
    <3>1. ASSUME NEW j \in UpTo(J, i + d)
          PROVE  j \in Shifted(UpTo(I, i), d)
      <4>1. j \in J /\ j <= i + d
          BY DEF UpTo
      <4>2. PICK k \in I : j = k + d
          BY <1>1, <4>1
      <4>3. k <= i
        <5>1. k \in Int /\ i \in Int
            OBVIOUS
        <5>. QED
            BY <4>1, <4>2, <5>1
      <4>. QED
          BY <4>2, <4>3 DEF UpTo, Shifted
    <3>2. ASSUME NEW k \in UpTo(I, i)
          PROVE  k + d \in UpTo(J, i + d)
      <4>1. k \in I /\ k <= i /\ k \in Int /\ i \in Int
          BY DEF UpTo
      <4>2. k + d \in J /\ k + d <= i + d
          BY <1>1, <4>1
      <4>. QED
          BY <4>2 DEF UpTo
    <3>. QED
        BY <3>1, <3>2 DEF Shifted
  <2>2. UpTo(I, i) \subseteq Int /\ IsFiniteSet(UpTo(I, i))
    <3>1. UpTo(I, i) \in SUBSET I
        BY DEF UpTo
    <3>. QED
        BY <3>1, FS_Subset
  <2>. QED
      BY <2>1, <2>2, ShiftedCardinality
<1>. HIDE DEF J
<1>3. ASSUME NEW n \in 1..Cardinality(I)
      PROVE  h[CHOOSE i \in I : Cardinality(UpTo(I, i)) = n] =
             g[CHOOSE j \in J : Cardinality(UpTo(J, j)) = n]
  <2>. DEFINE i == CHOOSE i \in I : Cardinality(UpTo(I, i)) = n
              j == CHOOSE j \in J : Cardinality(UpTo(J, j)) = n
  <2>1. i \in I /\ Cardinality(UpTo(I, i)) = n
      BY RankExists
  <2>2. j \in J /\ Cardinality(UpTo(J, j)) = n
    <3>1. \E k \in J : Cardinality(UpTo(J, k)) = n
        BY <1>1, RankExists
    <3>. QED
        BY <3>1
  <2>. HIDE DEF i, j
  <2>3. PICK k \in I : j = k + d
      BY <1>1, <2>2
  <2>4. Cardinality(UpTo(I, k)) = n
      BY <1>2, <2>2, <2>3
  <2>5. k = i
    <3>1. i < k => Cardinality(UpTo(I, i)) < Cardinality(UpTo(I, k))
        BY <2>1, RankIncreases
    <3>2. k < i => Cardinality(UpTo(I, k)) < Cardinality(UpTo(I, i))
        BY <2>1, RankIncreases
    <3>3. i \in Int /\ k \in Int /\ n \in Int
        BY <2>1
    <3>. QED
        BY <2>1, <2>4, <3>1, <3>2, <3>3
  <2>6. h[i] = g[j]
      BY <2>1, <2>3, <2>5
  <2>. QED
      BY <2>6 DEF i, j
<1>4. EntriesAt(h, I) = EntriesAt(g, J)
  <2>1. /\ EntriesAt(h, I) = [n \in 1..Cardinality(I) |->
                               h[CHOOSE i \in I : Cardinality(UpTo(I, i)) = n]]
        /\ EntriesAt(g, J) = [n \in 1..Cardinality(J) |->
                               g[CHOOSE i \in J : Cardinality(UpTo(J, i)) = n]]
      BY DEF EntriesAt, UpTo
  <2>. QED
      BY <1>1, <1>3, <2>1
<1>. QED
    BY <1>4 DEF J

-----------------------------------------------------------------------------
(* What trend and spike cannot see: entries before a sample that is        *)
(* already beyond the minute, if they are beyond the window themselves.    *)

LEMMA SameView ==
    ASSUME NEW a \in Seq(Snapshot), NEW b \in Seq(Snapshot), NEW d \in Nat,
           Len(b) = Len(a) + d, \A i \in 1..Len(a) : b[i + d] = a[i],
           d > 0 => /\ Len(a) >= 2 /\ a[1].age > Minute
                    /\ \A i \in 1..d : b[i].age >= TrendWindow
    PROVE  CalculateTrend(a) = CalculateTrend(b) /\ DetectSpike(a) = DetectSpike(b)
<1>. DEFINE n == Len(a)
<1>1. /\ n \in Nat /\ Minute \in Nat /\ TrendWindow \in Nat
      /\ \A i \in 1..n : a[i].age \in Int
      /\ \A i \in 1..(n + d) : b[i].age \in Int
  <2>1. \A i \in 1..n : a[i] \in Snapshot
      OBVIOUS
  <2>2. \A i \in 1..(n + d) : b[i] \in Snapshot
      OBVIOUS
  <2>. QED
      BY <2>1, <2>2, AnalyzerAssumption DEF Snapshot
<1>2. CalculateTrend(a) = CalculateTrend(b)
  <2>. DEFINE I == {i \in 1..n : a[i].age < TrendWindow}
              J == {i \in 1..Len(b) : b[i].age < TrendWindow}
  <2>1. J = Shifted(I, d)
    <3>1. ASSUME NEW j \in J
          PROVE  j \in Shifted(I, d)
      <4>1. j \in 1..(n + d) /\ ~(b[j].age >= TrendWindow)
          BY <1>1
      <4>2. ~(j \in 1..d)
          BY <4>1
      <4>3. j - d \in 1..n /\ a[j - d] = b[j]
          BY <1>1, <4>1, <4>2
      <4>. QED
          BY <1>1, <4>3 DEF Shifted
    <3>2. \A i \in I : i + d \in J
        BY <1>1
    <3>. QED
        BY <3>1, <3>2 DEF Shifted
  <2>2. I \subseteq Int /\ IsFiniteSet(I) /\ \A i \in I : b[i + d] = a[i]
    <3>1. IsFiniteSet(1..n) /\ I \in SUBSET (1..n)
        BY <1>1, FS_Interval
    <3>. QED
        BY <3>1, FS_Subset
  <2>3. EntriesAt(a, I) = EntriesAt(b, J)
    <3>. HIDE DEF I, J
    <3>1. d \in Int
        OBVIOUS
    <3>2. EntriesAt(a, I) = EntriesAt(b, Shifted(I, d))
        BY <2>2, <3>1, EntriesAtShifted
    <3>. QED
        BY <2>1, <3>2
  <2>. QED
      BY <2>3 DEF CalculateTrend
<1>3. DetectSpike(a) = DetectSpike(b)
  <2>1. CASE d = 0
    <3>1. a = b
        BY <2>1
    <3>. QED
        BY <3>1
  <2>2. CASE d > 0
    <3>1. n >= 2 /\ a[1].age > Minute /\ b[1 + d].age > Minute
        BY <2>2, <1>1
    <3>2. ASSUME NEW i \in 1..(n - 1)
          PROVE  IsBaseline(a, i) <=> IsBaseline(b, i + d)
      <4>1. IsBaseline(a, i) <=> a[i].age > Minute /\ \A j \in (i + 1)..(n - 1) : a[j].age <= Minute
        <5>1. ~ \A j \in 1..i : a[j].age <= Minute
            BY <1>1, <3>1
        <5>. QED
            BY <5>1 DEF IsBaseline
      <4>2. IsBaseline(b, i + d) <=>
                b[i + d].age > Minute /\ \A j \in (i + d + 1)..(n + d - 1) : b[j].age <= Minute
        <5>1. ~ \A j \in 1..(i + d) : b[j].age <= Minute
            BY <1>1, <3>1
        <5>. QED
            BY <5>1 DEF IsBaseline
      <4>3. b[i + d] = a[i]
          BY <1>1
      <4>4. (\A j \in (i + 1)..(n - 1) : a[j].age <= Minute) <=>
            (\A j \in (i + d + 1)..(n + d - 1) : b[j].age <= Minute)
        <5>1. \A j \in (i + 1)..(n - 1) :
                  j + d \in (i + d + 1)..(n + d - 1) /\ b[j + d] = a[j]
          <6>1. \A j \in (i + 1)..(n - 1) : j \in 1..n /\ j + d \in (i + d + 1)..(n + d - 1)
              BY <1>1
          <6>. QED
              BY <6>1
        <5>2. \A j \in (i + d + 1)..(n + d - 1) :
                  j - d \in (i + 1)..(n - 1) /\ a[j - d] = b[j]
          <6>1. \A j \in (i + d + 1)..(n + d - 1) : j - d \in (i + 1)..(n - 1) /\ (j - d) + d = j
              BY <1>1
          <6>2. \A j \in (i + 1)..(n - 1) : j \in 1..n
              BY <1>1
          <6>. QED
              BY <6>1, <6>2
        <5>. QED
            BY <5>1, <5>2
      <4>. QED
          BY <4>1, <4>2, <4>3, <4>4
    <3>3. ASSUME NEW i \in 1..d
          PROVE  ~IsBaseline(b, i)
      <4>1. 1 + d \in (i + 1)..(Len(b) - 1) /\ i # Len(b) - 1
          BY <1>1, <3>1
      <4>2. ~(b[1 + d].age <= Minute)
        <5>1. b[1 + d].age \in Int
            BY <1>1, <3>1
        <5>. QED
            BY <1>1, <3>1, <5>1
      <4>. QED
          BY <4>1, <4>2 DEF IsBaseline
    <3>4. b[Len(b)] = a[n]
        BY <1>1, <3>1
    <3>5. DetectSpike(a) => DetectSpike(b)
      <4>. SUFFICES ASSUME NEW i \in 1..(n - 1), IsBaseline(a, i), a[i].cpu # 0, Rises(a, i)
                    PROVE  DetectSpike(b)
          BY DEF DetectSpike
      <4>1. i + d \in 1..(Len(b) - 1) /\ b[i + d] = a[i] /\ IsBaseline(b, i + d)
          BY <1>1, <3>2
      <4>2. Rises(b, i + d)
          BY <3>4, <4>1 DEF Rises
      <4>. QED
          BY <4>1, <4>2 DEF DetectSpike
    <3>6. DetectSpike(b) => DetectSpike(a)
      <4>. SUFFICES ASSUME NEW j \in 1..(Len(b) - 1), IsBaseline(b, j), b[j].cpu # 0, Rises(b, j)
                    PROVE  DetectSpike(a)
          BY DEF DetectSpike
      <4>1. ~(j \in 1..d)
          BY <3>3
      <4>2. j - d \in 1..(n - 1) /\ (j - d) + d = j
          BY <1>1, <4>1
      <4>3. b[j] = a[j - d]
        <5>1. j - d \in 1..n
            BY <1>1, <4>2
        <5>. QED
            BY <4>2, <5>1
      <4>4. IsBaseline(a, j - d)
          BY <3>2, <4>2
      <4>5. Rises(a, j - d)
          BY <3>4, <4>3 DEF Rises
      <4>. QED
          BY <4>2, <4>3, <4>4, <4>5 DEF DetectSpike
    <3>. QED
        BY <3>5, <3>6 DEF DetectSpike
  <2>. QED
      BY <2>1, <2>2
<1>. QED
    BY <1>2, <1>3

-----------------------------------------------------------------------------
(* The bounded history and the log of all samples agree on what both hold, *)
(* and their entries are at least as old as one interval between any two   *)
(* of them makes them.                                                     *)

Spaced(l, least) ==
    /\ l \in Seq(Snapshot)
    /\ InOrder(l)
    /\ \A i \in 1..Len(l) : l[i].age \in Int /\ l[i].age <= Horizon
    /\ \A i \in 1..Len(l) : l[i].age >= AtMost(least + (Len(l) - i), Horizon)

(* The last sample is at least one interval old when the next is awaited.  *)
Least == lag + (IF phase = "collect" THEN 1 ELSE 0)

SameTail(h, s) ==
    \A k \in Nat : k < Len(h) /\ k < Len(s) => h[Len(h) - k] = s[Len(s) - k]

HistoryInv ==
    /\ Spaced(history, Least) /\ Spaced(samples, Least)
    /\ SameTail(history, samples)
    /\ Len(history) > Len(samples) => Len(samples) >= 2 /\ samples[1].age >= Horizon
    /\ Len(samples) > Len(history) => Len(history) = MaxHistoryLength

LEMMA LeastAge ==
    ASSUME NEW a \in Int, NEW n \in Int
    PROVE  /\ a >= AtMost(n, Horizon) => AtMost(a + 1, Horizon) >= AtMost(n + 1, Horizon)
           /\ a >= AtMost(n + 1, Horizon) => a >= AtMost(n, Horizon)
           /\ AtMost(n, Horizon) \in Int
           /\ n <= Horizon => AtMost(n, Horizon) = n
           /\ \A m \in Int : m <= n => AtMost(m, Horizon) <= AtMost(n, Horizon)
BY AnalyzerAssumption DEF AtMost

LEMMA SpacedLess ==
    ASSUME NEW l, NEW least \in Int, Spaced(l, least + 1)
    PROVE  Spaced(l, least)
<1>1. ASSUME NEW i \in 1..Len(l)
      PROVE  l[i].age >= AtMost(least + (Len(l) - i), Horizon)
  <2>1. l[i].age \in Int /\ Len(l) \in Nat /\ i \in Int
      BY DEF Spaced
  <2>2. l[i].age >= AtMost((least + 1) + (Len(l) - i), Horizon)
      BY DEF Spaced
  <2>3. (least + 1) + (Len(l) - i) = (least + (Len(l) - i)) + 1 /\ least + (Len(l) - i) \in Int
      BY <2>1
  <2>. QED
      BY <2>1, <2>2, <2>3, LeastAge
<1>. QED
    BY <1>1 DEF Spaced

(* A log that a new sample of age x ends, after losing its first d.        *)
LEMMA SpacedRecords ==
    ASSUME NEW x \in Int, x <= Horizon, NEW l, Spaced(l, x + 1),
           NEW r \in Seq(Snapshot), NEW d \in {0, 1}, Len(r) = Len(l) + 1 - d,
           r[Len(r)].age = x, \A i \in 1..(Len(l) - d) : r[i] = l[i + d],
           Len(l) >= d
    PROVE  Spaced(r, x)
<1>. DEFINE n == Len(l)
            m == Len(r)
<1>1. n \in Nat /\ m \in Nat /\ m = n + 1 - d /\ d \in Int /\ Horizon \in Nat
    BY AnalyzerAssumption DEF Spaced
<1>2. ASSUME NEW i \in 1..m, i # m
      PROVE  i + d \in 1..n /\ r[i] = l[i + d]
    BY <1>1, <1>2
<1>3. \A i \in 1..n : l[i].age \in Int /\ l[i].age <= Horizon
    BY DEF Spaced
<1>4. \A i \in 1..m : r[i].age \in Int /\ r[i].age <= Horizon
    BY <1>2, <1>3
<1>5. ASSUME NEW i \in 1..m
      PROVE  r[i].age >= AtMost(x + (m - i), Horizon)
  <2>1. CASE i = m
    <3>1. x + (m - i) = x
        BY <1>1, <2>1
    <3>2. AtMost(x, Horizon) = x
        BY LeastAge
    <3>. QED
        BY <2>1, <3>1, <3>2
  <2>2. CASE i # m
    <3>1. i + d \in 1..n /\ r[i] = l[i + d]
        BY <1>2, <2>2
    <3>2. l[i + d].age >= AtMost((x + 1) + (n - (i + d)), Horizon)
        BY <3>1 DEF Spaced
    <3>3. (x + 1) + (n - (i + d)) = x + (m - i)
        BY <1>1
    <3>. QED
        BY <3>1, <3>2, <3>3
  <2>. QED
      BY <2>1, <2>2
<1>6. \A i \in 1..m : r[i].age >= x
  <2>. SUFFICES ASSUME NEW i \in 1..m
                PROVE  r[i].age >= x
      OBVIOUS
  <2>1. x \in Int /\ x + (m - i) \in Int /\ x <= x + (m - i)
      BY <1>1
  <2>2. AtMost(x, Horizon) <= AtMost(x + (m - i), Horizon)
      BY <2>1, LeastAge
  <2>3. AtMost(x, Horizon) = x
      BY LeastAge
  <2>4. AtMost(x + (m - i), Horizon) \in Int /\ r[i].age \in Int
      BY <1>4, <2>1, LeastAge
  <2>. QED
      BY <1>5, <2>2, <2>3, <2>4
<1>7. InOrder(r)
  <2>. SUFFICES ASSUME NEW i \in 1..m, NEW j \in 1..m, i <= j
                PROVE  r[i].age >= r[j].age
      BY DEF InOrder
  <2>1. CASE j = m
      BY <1>6, <2>1
  <2>2. CASE j # m
    <3>1. i # m
        BY <1>1, <2>2
    <3>2. /\ i + d \in 1..n /\ j + d \in 1..n /\ i + d <= j + d
          /\ r[i] = l[i + d] /\ r[j] = l[j + d]
        BY <1>1, <1>2, <2>2, <3>1
    <3>3. l[i + d].age >= l[j + d].age
        BY <3>2 DEF Spaced, InOrder
    <3>. QED
        BY <3>2, <3>3
  <2>. QED
      BY <2>1, <2>2
<1>. QED
    BY <1>4, <1>5, <1>7 DEF Spaced

(* A log that time ages, and that loses its first d. *)
LEMMA SpacedAges ==
    ASSUME NEW x \in Int, NEW l, Spaced(l, x),
           NEW r \in Seq(Snapshot), NEW d \in {0, 1}, Len(r) = Len(l) - d,
           \A i \in 1..Len(r) : r[i].age = AtMost(l[i + d].age + 1, Horizon)
    PROVE  Spaced(r, x + 1)
<1>. DEFINE n == Len(l)
            m == Len(r)
<1>1. n \in Nat /\ m \in Nat /\ m = n - d /\ d \in Int
    BY DEF Spaced
<1>2. ASSUME NEW i \in 1..m
      PROVE  i + d \in 1..n /\ l[i + d].age \in Int
  <2>1. i + d \in 1..n
      BY <1>1
  <2>. QED
      BY <2>1 DEF Spaced
<1>3. ASSUME NEW i \in 1..m
      PROVE  r[i].age \in Int /\ r[i].age <= Horizon
    BY <1>2, AgesInOrder
<1>4. ASSUME NEW i \in 1..m
      PROVE  r[i].age >= AtMost((x + 1) + (m - i), Horizon)
  <2>. DEFINE a == l[i + d].age
              e == x + (n - (i + d))
  <2>1. a >= AtMost(e, Horizon) /\ a \in Int
      BY <1>2 DEF Spaced
  <2>2. (x + 1) + (m - i) = e + 1 /\ e \in Int /\ r[i].age = AtMost(a + 1, Horizon)
      BY <1>1
  <2>. HIDE DEF a, e
  <2>3. AtMost(a + 1, Horizon) >= AtMost(e + 1, Horizon)
      BY <2>1, <2>2, LeastAge
  <2>. QED
      BY <2>2, <2>3
<1>5. ASSUME NEW i \in 1..m, NEW j \in 1..m, i <= j
      PROVE  r[i].age >= r[j].age
  <2>1. i + d \in 1..n /\ j + d \in 1..n /\ i + d <= j + d
      BY <1>1, <1>5
  <2>2. l[i + d].age >= l[j + d].age
      BY <2>1 DEF Spaced, InOrder
  <2>. QED
      BY <1>2, <2>2, AgesInOrder
<1>. QED
    BY <1>3, <1>4, <1>5 DEF Spaced, InOrder

LEMMA InitHistoryInv == Init => HistoryInv
<1>. SUFFICES ASSUME Init
              PROVE  HistoryInv
    OBVIOUS
<1>1. history = <<>> /\ samples = <<>>
    BY DEF Init
<1>2. \A x : Spaced(<<>>, x)
    BY DEF Spaced, InOrder
<1>3. SameTail(<<>>, <<>>)
    BY DEF SameTail
<1>. QED
    BY <1>1, <1>2, <1>3 DEF HistoryInv

LEMMA AnalyzeKeepsHistory ==
    ASSUME IInv, HistoryInv, NEW cpu \in CPULevels, Analyze(cpu)
    PROVE  HistoryInv'
<1>. DEFINE s == [age |-> lag, cpu |-> cpu]
            n == Len(history)
            m == Len(samples)
<1>1. /\ lag \in Int /\ lag <= Horizon /\ lag' = lag /\ Least = lag + 1 /\ Least' = lag
      /\ MaxHistoryLength \in Nat
    BY AnalyzerAssumption DEF IInv, TypeOK, Analyze, Least
<1>2. /\ history \in Seq(Snapshot) /\ samples \in Seq(Snapshot) /\ s \in Snapshot
      /\ n \in Nat /\ m \in Nat /\ n <= MaxHistoryLength
    BY <1>1 DEF IInv, TypeOK, HistoryInv, Spaced, Snapshot
<1>3. history' = RecordSnapshot(history, s)
    BY DEF Analyze
<1>4. history' \in Seq(Snapshot) /\ Len(history') <= MaxHistoryLength
    BY <1>1, <1>2, <1>3, RecordSnapshotType
<1>5. PICK d \in {0, 1} : /\ Len(history') = n + 1 - d
                          /\ history'[Len(history')] = s
                          /\ \A i \in 1..(n - d) : history'[i] = history[i + d]
                          /\ d = 1 => n = MaxHistoryLength
  <2>. HIDE DEF s
  <2>0. history \in Seq(Snapshot) /\ s \in Snapshot /\ Len(history) <= MaxHistoryLength
      BY <1>2
  <2>1. \E d \in {0, 1} : /\ Len(history') = Len(history) + 1 - d
                          /\ history'[Len(history')] = s
                          /\ \A i \in 1..(Len(history) - d) : history'[i] = history[i + d]
                          /\ d = 1 => Len(history) = MaxHistoryLength
      BY <1>3, <2>0, RecordSnapshotShifts
  <2>. QED
      BY <2>1
<1>6. /\ samples' = Append(samples, s) /\ samples' \in Seq(Snapshot)
      /\ Len(samples') = m + 1 /\ samples'[m + 1] = s
      /\ \A i \in 1..m : samples'[i] = samples[i]
  <2>1. samples' = Append(samples, s)
      BY DEF Analyze
  <2>. HIDE DEF s
  <2>. QED
      BY <1>2, <2>1
<1>7. MaxHistoryLength >= 1 /\ n >= d /\ d \in Int /\ s.age = lag
  <2>1. MaxHistoryLength >= 1 /\ s.age = lag /\ d \in Int
      BY <1>1, AnalyzerAssumption
  <2>2. n >= d
      BY <1>2, <1>5, <2>1
  <2>. QED
      BY <2>1, <2>2
<1>8. Spaced(history', lag)
  <2>1. Spaced(history, lag + 1)
      BY <1>1 DEF HistoryInv
  <2>2. history'[Len(history')].age = lag
      BY <1>5, <1>7
  <2>. QED
      BY <1>1, <1>4, <1>5, <1>7, <2>1, <2>2, SpacedRecords
<1>9. Spaced(samples', lag)
  <2>1. Spaced(samples, lag + 1)
      BY <1>1 DEF HistoryInv
  <2>2. /\ 0 \in {0, 1} /\ Len(samples') = m + 1 - 0 /\ m >= 0
        /\ \A i \in 1..(m - 0) : samples'[i] = samples[i + 0]
        /\ samples'[Len(samples')].age = lag
      BY <1>2, <1>6, <1>7
  <2>. QED
      BY <1>1, <1>6, <2>1, <2>2, SpacedRecords
<1>10. SameTail(history', samples')
  <2>. SUFFICES ASSUME NEW k \in Nat, k < Len(history'), k < Len(samples')
                PROVE  history'[Len(history') - k] = samples'[Len(samples') - k]
      BY DEF SameTail
  <2>1. CASE k = 0
      BY <1>5, <1>6, <2>1, <1>2
  <2>2. CASE k > 0
    <3>1. /\ k - 1 \in Nat /\ k - 1 < n /\ k - 1 < m
          /\ n + 1 - d - k \in 1..(n - d) /\ m + 1 - k \in 1..m
        BY <1>2, <1>5, <1>6, <2>2
    <3>2. history'[n + 1 - d - k] = history[n + 1 - d - k + d]
        BY <1>5, <3>1
    <3>3. samples'[Len(samples') - k] = samples[m + 1 - k]
        BY <1>6, <3>1
    <3>4. history[n - (k - 1)] = samples[m - (k - 1)]
        BY <3>1 DEF HistoryInv, SameTail
    <3>5. n + 1 - d - k + d = n - (k - 1) /\ m + 1 - k = m - (k - 1)
        BY <1>2, <1>7
    <3>. QED
        BY <1>5, <3>2, <3>3, <3>4, <3>5
  <2>. QED
      BY <2>1, <2>2
<1>11. Len(history') > Len(samples') => Len(samples') >= 2 /\ samples'[1].age >= Horizon
  <2>. SUFFICES ASSUME Len(history') > Len(samples')
                PROVE  Len(samples') >= 2 /\ samples'[1].age >= Horizon
      OBVIOUS
  <2>1. n > m
      BY <1>2, <1>5, <1>6
  <2>2. m >= 2 /\ samples[1].age >= Horizon
      BY <2>1 DEF HistoryInv
  <2>. QED
      BY <1>2, <1>6, <2>2
<1>12. Len(samples') > Len(history') => Len(history') = MaxHistoryLength
  <2>. SUFFICES ASSUME Len(samples') > Len(history')
                PROVE  Len(history') = MaxHistoryLength
      OBVIOUS
  <2>1. CASE d = 1
    <3>1. n + 1 - d = n
        BY <1>2, <2>1
    <3>. QED
        BY <1>5, <2>1, <3>1
  <2>2. CASE d = 0
    <3>1. m > n
        BY <1>2, <1>5, <1>6, <2>2
    <3>2. n = MaxHistoryLength
        BY <3>1 DEF HistoryInv
    <3>. QED
        BY <1>1, <1>2, <1>4, <1>5, <2>2, <3>2
  <2>. QED
      BY <2>1, <2>2
<1>. QED
    BY <1>1, <1>8, <1>9, <1>10, <1>11, <1>12 DEF HistoryInv

LEMMA NextIntervalKeepsHistory ==
    ASSUME IInv, HistoryInv, NextInterval
    PROVE  HistoryInv'
<1>. DEFINE n == Len(history)
            m == Len(samples)
<1>1. lag \in Int /\ Least = lag /\ Least' = lag + 1 /\ Horizon \in Nat
    BY AnalyzerAssumption DEF IInv, TypeOK, NextInterval, Least
<1>2. history \in Seq(Snapshot) /\ samples \in Seq(Snapshot) /\ n \in Nat /\ m \in Nat
    BY DEF HistoryInv, Spaced
<1>3. /\ history' \in Seq(Snapshot) /\ Len(history') = n
      /\ \A i \in 1..n : /\ history'[i].age = AtMost(history[i].age + 1, Horizon)
                         /\ history'[i].cpu = history[i].cpu
  <2>1. history' = Older(history)
      BY DEF NextInterval
  <2>2. history' \in Seq(Snapshot) /\ Len(history') = n
      BY <1>2, <2>1, OlderType
  <2>3. ASSUME NEW i \in 1..n
        PROVE  /\ history'[i].age = AtMost(history[i].age + 1, Horizon)
               /\ history'[i].cpu = history[i].cpu
      BY <1>2, <2>1, OlderEntries
  <2>. QED
      BY <2>2, <2>3
<1>4. samples' = OlderLog(samples)
    BY DEF NextInterval
<1>5. PICK d \in {0, 1} :
          /\ Len(samples') = m - d
          /\ samples' \in Seq(Snapshot)
          /\ \A i \in 1..Len(samples') :
                /\ samples'[i].cpu = samples[i + d].cpu
                /\ samples'[i].age = AtMost(samples[i + d].age + 1, Horizon)
          /\ d = 1 => m > 2 /\ AtMost(samples[3].age + 1, Horizon) = Horizon
    BY <1>2, <1>4, OlderLogForgets
<1>6. Spaced(history', lag + 1)
  <2>1. Spaced(history, lag)
      BY <1>1 DEF HistoryInv
  <2>2. 0 \in {0, 1} /\ Len(history') = n - 0 /\ \A i \in 1..n : i + 0 = i
      BY <1>2, <1>3
  <2>3. \A i \in 1..Len(history') : history'[i].age = AtMost(history[i + 0].age + 1, Horizon)
      BY <1>3, <2>2, Zenon
  <2>. QED
      BY <1>1, <1>3, <2>1, <2>2, <2>3, SpacedAges
<1>7. Spaced(samples', lag + 1)
  <2>1. Spaced(samples, lag)
      BY <1>1 DEF HistoryInv
  <2>. QED
      BY <1>1, <1>5, <2>1, SpacedAges
<1>8. SameTail(history', samples')
  <2>. SUFFICES ASSUME NEW k \in Nat, k < Len(history'), k < Len(samples')
                PROVE  history'[Len(history') - k] = samples'[Len(samples') - k]
      BY DEF SameTail
  <2>. DEFINE i == n - k
              j == Len(samples') - k
  <2>1. /\ i \in 1..n /\ j \in 1..Len(samples') /\ j + d = m - k /\ j + d \in 1..m
        /\ k < n /\ k < m
      BY <1>2, <1>3, <1>5
  <2>2. history[i] = samples[j + d]
      BY <2>1 DEF HistoryInv, SameTail
  <2>. HIDE DEF i, j
  <2>3. history'[i].cpu = samples'[j].cpu /\ history'[i].age = samples'[j].age
    <3>1. /\ history'[i].cpu = history[i].cpu
          /\ history'[i].age = AtMost(history[i].age + 1, Horizon)
        BY <1>3, <2>1, Zenon
    <3>2. /\ samples'[j].cpu = samples[j + d].cpu
          /\ samples'[j].age = AtMost(samples[j + d].age + 1, Horizon)
        BY <1>5, <2>1, Zenon
    <3>. QED
        BY <2>2, <3>1, <3>2, Zenon
  <2>4. history'[i] \in Snapshot /\ samples'[j] \in Snapshot
      BY <1>3, <1>5, <2>1
  <2>5. history'[i] = samples'[j]
      BY <2>3, <2>4 DEF Snapshot
  <2>. QED
      BY <1>3, <2>5 DEF i, j
<1>9. Len(history') > Len(samples') => Len(samples') >= 2 /\ samples'[1].age >= Horizon
  <2>. SUFFICES ASSUME Len(history') > Len(samples')
                PROVE  Len(samples') >= 2 /\ samples'[1].age >= Horizon
      OBVIOUS
  <2>1. \A i \in 1..m : samples[i].age \in Int /\ samples[i].age <= Horizon
      BY DEF HistoryInv, Spaced
  <2>2. CASE d = 1
    <3>1. m > 2 /\ 2 \in 1..m /\ 3 \in 1..m /\ AtMost(samples[3].age + 1, Horizon) = Horizon
        BY <1>2, <1>5, <2>2
    <3>2. samples[2].age >= samples[3].age
        BY <3>1 DEF HistoryInv, Spaced, InOrder
    <3>3. samples[2].age \in Int /\ samples[3].age \in Int
        BY <2>1, <3>1
    <3>4. AtMost(samples[2].age + 1, Horizon) = Horizon
        BY <3>1, <3>2, <3>3, AgesInOrder
    <3>5. Len(samples') >= 2 /\ 1 \in 1..Len(samples')
        BY <1>2, <1>5, <2>2, <3>1
    <3>6. samples'[1].age = AtMost(samples[1 + 1].age + 1, Horizon)
        BY <1>5, <2>2, <3>5
    <3>. QED
        BY <1>1, <3>4, <3>5, <3>6
  <2>3. CASE d = 0
    <3>1. n > m /\ Len(samples') = m
        BY <1>2, <1>3, <1>5, <2>3
    <3>2. m >= 2 /\ samples[1].age >= Horizon
        BY <3>1 DEF HistoryInv
    <3>3. 1 \in 1..m /\ samples[1].age \in Int /\ samples[1].age <= Horizon
        BY <1>2, <2>1, <3>2
    <3>4. samples'[1].age = AtMost(samples[1 + 0].age + 1, Horizon)
        BY <1>5, <2>3, <3>1, <3>3
    <3>5. AtMost(samples[1].age + 1, Horizon) >= samples[1].age /\ AtMost(samples[1].age + 1, Horizon) \in Int
        BY <3>3, AgesInOrder
    <3>. QED
        BY <1>1, <3>1, <3>2, <3>3, <3>4, <3>5
  <2>. QED
      BY <2>2, <2>3
<1>10. Len(samples') > Len(history') => Len(history') = MaxHistoryLength
  <2>1. Len(samples') > Len(history') => m > n
      BY <1>2, <1>3, <1>5
  <2>. QED
      BY <1>3, <2>1 DEF HistoryInv
<1>. QED
    BY <1>1, <1>6, <1>7, <1>8, <1>9, <1>10 DEF HistoryInv

LEMMA NextHistoryInv == IInv /\ HistoryInv /\ [Next]_vars => HistoryInv'
<1>. SUFFICES ASSUME IInv, HistoryInv, [Next]_vars
              PROVE  HistoryInv'
    OBVIOUS
<1>1. ASSUME NEW cpu \in CPULevels, Analyze(cpu)
      PROVE  HistoryInv'
    BY <1>1, AnalyzeKeepsHistory
<1>2. CASE NextInterval
    BY <1>2, NextIntervalKeepsHistory
<1>3. ASSUME UNCHANGED <<history, samples, lag>>, phase' # "collect" \/ phase' = phase
      PROVE  HistoryInv'
  <2>1. lag \in Int
      BY AnalyzerAssumption DEF IInv, TypeOK
  <2>2. Least' = Least \/ Least = Least' + 1
      BY <1>3, <2>1 DEF Least
  <2>3. Least' \in Int
      BY <1>3, <2>1 DEF Least
  <2>4. Spaced(history, Least') /\ Spaced(samples, Least')
      BY <2>2, <2>3, SpacedLess DEF HistoryInv
  <2>. QED
      BY <1>3, <2>4 DEF HistoryInv
<1>4. CASE AnalyzeNoServers \/ CollectFails \/ DoNothing
    BY <1>3, <1>4 DEF AnalyzeNoServers, CollectFails, DoNothing
<1>5. ASSUME NEW s \in ClusterState, Execute(s)
      PROVE  HistoryInv'
    BY <1>3, <1>5 DEF Execute
<1>6. CASE UNCHANGED vars
    BY <1>3, <1>6 DEF vars, analyzerVars
<1>. QED
    BY <1>1, <1>2, <1>4, <1>5, <1>6 DEF Next

(* The history reaches over the trend's window and over the minute, also   *)
(* when the source's clock is ahead.                                       *)
HistoryCovers ==
    /\ MaxHistoryLength >= 2
    /\ \A l \in SourceLag : l + MaxHistoryLength >= TrendWindow /\ l + MaxHistoryLength > Minute + 1

LEMMA HistoryInvSuffices ==
    ASSUME HistoryCovers, IInv, HistoryInv, phase = "decide"
    PROVE  /\ CalculateTrend(history) = CalculateTrend(samples)
           /\ DetectSpike(history) = DetectSpike(samples)
<1>. DEFINE n == Len(history)
            m == Len(samples)
<1>1. /\ history \in Seq(Snapshot) /\ samples \in Seq(Snapshot) /\ n \in Nat /\ m \in Nat
      /\ \A i \in 1..n : history[i].age \in Int
      /\ \A i \in 1..m : samples[i].age \in Int
    BY DEF HistoryInv, Spaced
<1>2. /\ lag \in Int /\ lag \in SourceLag /\ Least = lag
      /\ Horizon \in Nat /\ TrendWindow \in Nat /\ Minute \in Nat /\ MaxHistoryLength \in Nat
      /\ Horizon > TrendWindow /\ Horizon > Minute
    BY AnalyzerAssumption DEF IInv, TypeOK, Least
<1>3. CASE m >= n
  <2>. DEFINE d == m - n
  <2>1. d \in Nat /\ m = n + d
      BY <1>1, <1>3
  <2>2. ASSUME NEW i \in 1..n
        PROVE  samples[i + d] = history[i]
    <3>1. n - i \in Nat /\ n - i < n /\ n - i < m /\ n - (n - i) = i /\ m - (n - i) = i + d
        BY <1>1, <1>3
    <3>2. history[n - (n - i)] = samples[m - (n - i)]
        BY <3>1 DEF HistoryInv, SameTail
    <3>. QED
        BY <3>1, <3>2
  <2>3. d > 0 => /\ n >= 2 /\ history[1].age > Minute
                 /\ \A i \in 1..d : samples[i].age >= TrendWindow
    <3>. SUFFICES ASSUME d > 0
                  PROVE  /\ n >= 2 /\ history[1].age > Minute
                         /\ \A i \in 1..d : samples[i].age >= TrendWindow
        OBVIOUS
    <3>1. n = MaxHistoryLength
        BY <1>1, <2>1 DEF HistoryInv
    <3>2. n >= 2 /\ lag + n >= TrendWindow /\ lag + n > Minute + 1
        BY <1>2, <3>1 DEF HistoryCovers
    <3>3. history[1].age > Minute
      <4>1. 1 \in 1..n
          BY <1>1, <3>2
      <4>2. history[1].age >= AtMost(lag + (n - 1), Horizon)
          BY <1>2, <4>1 DEF HistoryInv, Spaced
      <4>3. AtMost(lag + (n - 1), Horizon) > Minute /\ AtMost(lag + (n - 1), Horizon) \in Int
          BY <1>1, <1>2, <3>2 DEF AtMost
      <4>4. history[1].age \in Int
          BY <1>1, <4>1
      <4>. QED
          BY <1>2, <4>2, <4>3, <4>4
    <3>4. ASSUME NEW i \in 1..d
          PROVE  samples[i].age >= TrendWindow
      <4>1. i \in 1..m /\ m - i >= n
          BY <1>1, <2>1
      <4>2. samples[i].age >= AtMost(lag + (m - i), Horizon)
          BY <1>2, <4>1 DEF HistoryInv, Spaced
      <4>3. AtMost(lag + (m - i), Horizon) >= TrendWindow /\ AtMost(lag + (m - i), Horizon) \in Int
          BY <1>1, <1>2, <3>2, <4>1 DEF AtMost
      <4>4. samples[i].age \in Int
          BY <1>1, <4>1
      <4>. QED
          BY <1>2, <4>2, <4>3, <4>4
    <3>. QED
        BY <3>2, <3>3, <3>4
  <2>. HIDE DEF d
  <2>. QED
      BY <1>1, <2>1, <2>2, <2>3, SameView
<1>4. CASE n > m
  <2>. DEFINE d == n - m
  <2>1. d \in Nat /\ n = m + d
      BY <1>1, <1>4
  <2>2. ASSUME NEW i \in 1..m
        PROVE  history[i + d] = samples[i]
    <3>1. m - i \in Nat /\ m - i < n /\ m - i < m /\ m - (m - i) = i /\ n - (m - i) = i + d
        BY <1>1, <1>4
    <3>2. history[n - (m - i)] = samples[m - (m - i)]
        BY <3>1 DEF HistoryInv, SameTail
    <3>. QED
        BY <3>1, <3>2
  <2>3. m >= 2 /\ samples[1].age >= Horizon
      BY <1>4 DEF HistoryInv
  <2>4. 1 \in 1..m /\ samples[1].age \in Int /\ samples[1].age > Minute /\ samples[1].age > TrendWindow
      BY <1>1, <1>2, <2>3
  <2>5. ASSUME NEW i \in 1..d
        PROVE  history[i].age >= TrendWindow
    <3>1. i \in 1..n /\ 1 + d \in 1..n /\ i <= 1 + d
        BY <1>1, <2>1, <2>3
    <3>2. history[i].age >= history[1 + d].age
        BY <3>1 DEF HistoryInv, Spaced, InOrder
    <3>3. history[1 + d] = samples[1]
        BY <2>2, <2>4
    <3>4. history[i].age \in Int
        BY <1>1, <3>1
    <3>. QED
        BY <1>2, <2>4, <3>2, <3>3, <3>4
  <2>. HIDE DEF d
  <2>. QED
      BY <1>1, <2>1, <2>2, <2>3, <2>4, <2>5, SameView
<1>. QED
    BY <1>1, <1>3, <1>4

(* Keeping only the newest samples loses nothing: in every cycle trend and *)
(* spike are what all samples ever recorded would give, whatever the loads *)
(* and gaps (analyzer.go:104-122, 146-242), if the history covers window   *)
(* and minute with the source's lag taken off.                             *)
THEOREM BoundIsInvisibleHolds == HistoryCovers => (Spec => []BoundIsInvisible)
<1>. SUFFICES ASSUME HistoryCovers
              PROVE  Spec => []BoundIsInvisible
    OBVIOUS
<1>1. IInv /\ HistoryInv => BoundIsInvisible
    BY HistoryInvSuffices DEF BoundIsInvisible
<1>. QED
    BY <1>1, InitIInv, NextIInv, InitHistoryInv, NextHistoryInv, PTL DEF Spec

-----------------------------------------------------------------------------
(* The analyzer's cycle uses the engine as the engine's own specification  *)
(* says, so the engine's answers are bounded and free of reversals for     *)
(* every sample that the analyzer and the tracker can make up.             *)
LEMMA CycleStepsEngine == [Next]_vars => [EngineNext]_engineVars
<1>. SUFFICES ASSUME [Next]_vars PROVE EngineNext \/ UNCHANGED engineVars
    OBVIOUS
<1>1. CASE \E cpu \in CPULevels : Analyze(cpu)
    BY <1>1 DEF Analyze
<1>2. CASE AnalyzeNoServers \/ CollectFails \/ DoNothing \/ UNCHANGED vars
    BY <1>2 DEF AnalyzeNoServers, CollectFails, DoNothing, vars
<1>3. CASE \E s \in ClusterState : Execute(s)
    BY <1>3 DEF Execute, EngineNext
<1>4. CASE NextInterval
    BY <1>4 DEF NextInterval, EngineNext
<1>. QED
    BY <1>1, <1>2, <1>3, <1>4 DEF Next

(* What the cycle does to the cooldowns is a step of the engine.           *)
THEOREM CycleImplementsEngine == Spec => EngineSpec
BY CycleStepsEngine, PTL DEF Spec, Init, EngineSpec

(* So every decision of the cycle is bounded and does not undo itself: the *)
(* samples the analyzer and the tracker make up are among those for which  *)
(* the engine's theorems hold (engine.go:65-122).                          *)
THEOREM CycleKeepsEnginePromises ==
    LowIsNotCritical
        => (Spec => [](SamplesFitEngine /\ OrdinaryDecisionsAreBounded /\ NoReversal))
BY CycleImplementsEngine, SamplesFitEngineHolds, OrdinaryDecisionsAreBoundedHolds,
   NoReversalHolds, PTL
=============================================================================
