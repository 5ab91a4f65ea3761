----------------------- MODULE DecisionEngine_proofs -----------------------
(***************************************************************************)
(* Proofs about the decision engine, for every configuration, every load   *)
(* and every cluster size.                                                 *)
(***************************************************************************)
EXTENDS DecisionEngine, TLAPS

(* What AtMost and AtLeast return. *)
LEMMA Clamping ==
    ASSUME NEW n \in Int, NEW bound \in Int
    PROVE  /\ AtMost(n, bound) \in Int /\ AtMost(n, bound) <= bound /\ AtMost(n, bound) <= n
           /\ n <= bound => AtMost(n, bound) = n
           /\ n > bound => AtMost(n, bound) = bound
           /\ AtLeast(n, bound) \in Int /\ AtLeast(n, bound) >= bound /\ AtLeast(n, bound) >= n
           /\ n >= bound => AtLeast(n, bound) = n
           /\ n < bound => AtLeast(n, bound) = bound
BY DEF AtMost, AtLeast

(* calculateScaleUpDelta (engine.go:212-233) always returns a step between *)
(* one and MaxScaleStep, whatever the quotient of the loads is.            *)
LEMMA ScaleUpDeltaInRange ==
    ASSUME NEW a, a.avgCPU \in Nat, NEW s, s.active \in Nat
    PROVE  CalculateScaleUpDelta(a, s) \in 1..MaxScaleStep
<1>. DEFINE ideal == (s.active * a.avgCPU) \div TargetCPU
<1>1. MaxScaleStep \in Nat \ {0} /\ TargetCPU \in Nat \ {0}
    BY ConfigAssumption
<1>2. s.active * a.avgCPU \in Int
    OBVIOUS
<1>3. ideal \in Int
    BY <1>1, <1>2
<1>. HIDE DEF ideal
<1>4. AtMost(AtLeast(ideal - s.active, 1), MaxScaleStep) \in 1..MaxScaleStep
    BY <1>1, <1>3 DEF AtMost, AtLeast
<1>. QED
    BY <1>1, <1>4 DEF CalculateScaleUpDelta, ideal

(* What Decide can answer, for any sample and any counts: a decision about *)
(* the active servers it was shown, with a step of at most the larger of   *)
(* MaxScaleStep and the emergency step, and, emergencies aside, outside    *)
(* the cooldown of its kind (engine.go:76-122).                            *)
LEMMA DecideAnswers ==
    ASSUME NEW a, a.avgCPU \in Nat, NEW p, NEW s \in [active : Nat, total : Nat], NEW d,
           d = Decide(a, p, s), EngineTypeOK
    PROVE  /\ d \in [action : {"maintain", "up", "down"}, current : Nat, target : Nat,
                     isEmergency : BOOLEAN, cooldownActive : BOOLEAN]
           /\ d.current = s.active
           /\ d.action = "up" => d.target - d.current <= AtLeast(MaxScaleStep, EmergencyDelta)
           /\ d.action = "up" /\ ~d.isEmergency => sinceScaleUp >= CooldownPeriod
           /\ d.action = "down" => /\ d.target = d.current - 1 /\ d.current > MinServers
                                  /\ sinceScaleDown >= ScaleDownCooldownPeriod
<1>1. s.active \in Nat /\ Maintain(s).current = s.active
    BY DEF Maintain
<1>2. /\ MinServers \in Nat /\ MaxServers \in Nat /\ MaxScaleStep \in Nat
      /\ CooldownPeriod \in Nat /\ ScaleDownCooldownPeriod \in Nat
    BY ConfigAssumption
<1>. DEFINE delta == CalculateScaleUpDelta(a, s)
<1>3. delta \in 1..MaxScaleStep
    BY ScaleUpDeltaInRange
<1>. HIDE DEF delta
<1>4. CASE a.avgCPU >= EmergencyCPUThreshold
  <2>1. d = CreateScaleUpDecision(s, EmergencyDelta, TRUE)
      BY <1>4 DEF Decide
  <2>2. d = [action |-> "up", current |-> s.active, target |-> AtMost(s.active + 3, MaxServers),
             isEmergency |-> TRUE, cooldownActive |-> FALSE]
      BY <2>1 DEF CreateScaleUpDecision, EmergencyDelta, Maintain
  <2>3. /\ AtMost(s.active + 3, MaxServers) \in Nat
        /\ AtMost(s.active + 3, MaxServers) - s.active <= AtLeast(MaxScaleStep, EmergencyDelta)
      BY <1>1, <1>2 DEF EmergencyDelta, AtMost, AtLeast
  <2>. QED
      BY <2>2, <2>3, <1>1
<1>5. CASE ~(a.avgCPU >= EmergencyCPUThreshold) /\ ShouldScaleUp(a, p, s) /\ ~InScaleUpCooldown
  <2>1. d = CreateScaleUpDecision(s, delta, FALSE)
      BY <1>5 DEF Decide, delta
  <2>2. sinceScaleUp >= CooldownPeriod
      BY <1>2, <1>5 DEF InScaleUpCooldown, EngineTypeOK
  <2>3. d = [action |-> "up", current |-> s.active, target |-> AtMost(s.active + delta, MaxServers),
             isEmergency |-> FALSE, cooldownActive |-> FALSE]
      BY <2>1 DEF CreateScaleUpDecision, Maintain
  <2>4. /\ AtMost(s.active + delta, MaxServers) \in Nat
        /\ AtMost(s.active + delta, MaxServers) - s.active <= AtLeast(MaxScaleStep, EmergencyDelta)
      BY <1>1, <1>2, <1>3 DEF EmergencyDelta, AtMost, AtLeast
  <2>. QED
      BY <2>2, <2>3, <2>4, <1>1
<1>6. CASE ~(a.avgCPU >= EmergencyCPUThreshold) /\ ~ShouldScaleUp(a, p, s)
           /\ ShouldScaleDown(a, p, s) /\ ~InScaleDownCooldown
  <2>1. d = CreateScaleDownDecision(s, ScaleDownDelta)
      BY <1>6 DEF Decide
  <2>2. s.active > MinServers /\ sinceScaleDown >= ScaleDownCooldownPeriod
      BY <1>2, <1>6 DEF ShouldScaleDown, InScaleDownCooldown, EngineTypeOK
  <2>3. d = [action |-> "down", current |-> s.active, target |-> s.active - 1,
             isEmergency |-> FALSE, cooldownActive |-> FALSE]
    <3>1. d = [action |-> "down", current |-> s.active,
               target |-> AtLeast(s.active - 1, MinServers),
               isEmergency |-> FALSE, cooldownActive |-> FALSE]
        BY <2>1 DEF CreateScaleDownDecision, ScaleDownDelta, Maintain
    <3>2. AtLeast(s.active - 1, MinServers) = s.active - 1
        BY <2>2, <1>1, <1>2 DEF AtLeast
    <3>. QED
        BY <3>1, <3>2
  <2>. QED
      BY <2>2, <2>3, <1>1, <1>2
<1>7. CASE d = InCooldown(s) \/ d = Maintain(s)
  <2>1. PICK c \in BOOLEAN :
            d = [action |-> "maintain", current |-> s.active, target |-> s.active,
                 isEmergency |-> FALSE, cooldownActive |-> c]
      BY <1>7 DEF InCooldown, Maintain
  <2>. QED
      BY <2>1, <1>1
<1>. QED
    BY <1>4, <1>5, <1>6, <1>7 DEF Decide

(* The ages stay within their periods. *)
THEOREM EngineTypeCorrect == EngineSpec => []EngineTypeOK
<1>1. EngineInit => EngineTypeOK
    BY ConfigAssumption DEF EngineInit, EngineTypeOK
<1>2. EngineTypeOK /\ [EngineNext]_engineVars => EngineTypeOK'
    BY ConfigAssumption
       DEF EngineTypeOK, EngineNext, engineVars, RecordScaleUp, RecordScaleDown, RecordScaling,
           ResetCooldown, EngineTick, AtMost
<1>. QED
    BY <1>1, <1>2, PTL DEF EngineSpec

(* Every ordinary scale-up adds between one and MaxScaleStep servers and   *)
(* stays within MaxServers; every scale-down removes exactly one server    *)
(* and stays at MinServers or above (engine.go:94-117, 124-295).           *)
LEMMA DecisionsAreBounded == OrdinaryDecisionsAreBounded
<1>. SUFFICES ASSUME NEW a \in Analyzed, NEW p \in Prediction, NEW s \in ClusterState
              PROVE  LET d == Decide(a, p, s)
                     IN  /\ d.action = "up" /\ ~d.isEmergency =>
                              /\ d.target - d.current \in 1..MaxScaleStep
                              /\ d.target <= MaxServers
                         /\ d.action = "down" =>
                              /\ d.target = d.current - 1
                              /\ d.target >= MinServers
    BY DEF OrdinaryDecisionsAreBounded
<1>1. a.avgCPU \in Nat /\ s.active \in Nat /\ s.total \in Nat /\ s.active <= s.total
    BY InputAssumption DEF Analyzed, ClusterState
<1>2. MinServers \in Nat /\ MaxServers \in Nat /\ MaxScaleStep \in Nat
    BY ConfigAssumption
<1>. DEFINE delta == CalculateScaleUpDelta(a, s)
<1>3. delta \in 1..MaxScaleStep
    BY <1>1, ScaleUpDeltaInRange
<1>. HIDE DEF delta
<1>4. CASE a.avgCPU >= EmergencyCPUThreshold
    BY <1>4 DEF Decide, CreateScaleUpDecision, Maintain
<1>5. CASE ~(a.avgCPU >= EmergencyCPUThreshold) /\ ShouldScaleUp(a, p, s)
  <2>1. CASE InScaleUpCooldown
      BY <1>5, <2>1 DEF Decide, InCooldown, Maintain
  <2>2. CASE ~InScaleUpCooldown
    <3>1. Decide(a, p, s) = CreateScaleUpDecision(s, delta, FALSE)
        BY <1>5, <2>2 DEF Decide, delta
    <3>2. s.active < MaxServers
        BY <1>1, <1>2, <1>5 DEF ShouldScaleUp
    <3>. QED
        BY <3>1, <3>2, <1>1, <1>2, <1>3 DEF CreateScaleUpDecision, Maintain, AtMost
  <2>. QED
      BY <2>1, <2>2
<1>6. CASE ~(a.avgCPU >= EmergencyCPUThreshold) /\ ~ShouldScaleUp(a, p, s) /\ ShouldScaleDown(a, p, s)
  <2>1. CASE InScaleDownCooldown
      BY <1>6, <2>1 DEF Decide, InCooldown, Maintain
  <2>2. CASE ~InScaleDownCooldown
    <3>1. Decide(a, p, s) = CreateScaleDownDecision(s, ScaleDownDelta)
        BY <1>6, <2>2 DEF Decide
    <3>2. s.active > MinServers
        BY <1>6 DEF ShouldScaleDown
    <3>. QED
        BY <3>1, <3>2, <1>1, <1>2 DEF CreateScaleDownDecision, ScaleDownDelta, Maintain, AtLeast
  <2>. QED
      BY <2>1, <2>2
<1>7. CASE ~(a.avgCPU >= EmergencyCPUThreshold) /\ ~ShouldScaleUp(a, p, s) /\ ~ShouldScaleDown(a, p, s)
    BY <1>7 DEF Decide, Maintain
<1>. QED
    BY <1>4, <1>5, <1>6, <1>7

(* ... in every state of the engine. *)
THEOREM OrdinaryDecisionsAreBoundedHolds == EngineSpec => []OrdinaryDecisionsAreBounded
BY DecisionsAreBounded, PTL
(* The shape of Decide's answers, one case per rule (engine.go:76-122). *)
LEMMA DecideCases ==
    ASSUME NEW a, NEW p, NEW s
    PROVE  LET d == Decide(a, p, s)
               emergency == a.avgCPU >= EmergencyCPUThreshold
           IN  \/ /\ emergency
                  /\ d.action = "up" /\ d.isEmergency
                  /\ d.target = AtMost(s.active + 3, MaxServers)
               \/ /\ ~emergency /\ ShouldScaleUp(a, p, s) /\ ~InScaleUpCooldown
                  /\ d.action = "up"
                  /\ d.target = AtMost(s.active + CalculateScaleUpDelta(a, s), MaxServers)
               \/ /\ ~emergency /\ ShouldScaleUp(a, p, s) /\ InScaleUpCooldown
                  /\ d.action = "maintain" /\ d.target = s.active
               \/ /\ ~emergency /\ ~ShouldScaleUp(a, p, s)
                  /\ ShouldScaleDown(a, p, s) /\ ~InScaleDownCooldown
                  /\ d.action = "down" /\ d.target = AtLeast(s.active - 1, MinServers)
               \/ /\ ~emergency /\ ~ShouldScaleUp(a, p, s)
                  /\ ShouldScaleDown(a, p, s) => InScaleDownCooldown
                  /\ d.action = "maintain" /\ d.target = s.active
BY DEF Decide, CreateScaleUpDecision, CreateScaleDownDecision, InCooldown, Maintain, EmergencyDelta, ScaleDownDelta

(* The critical status overrides the low threshold only when the validator *)
(* lets the threshold exceed it (validator.go:59 accepts up to 100).       *)
LowIsNotCritical == CPULowThreshold <= CriticalCPU

(* No sample asks for a scale-up by any rule but a spike and for a         *)
(* scale-down, whatever the counts of servers are.                         *)
LEMMA RulesExclude ==
    ASSUME LowIsNotCritical,
           NEW a \in Analyzed, NEW p \in Prediction, NEW s, NEW r,
           ~a.hasSpike, ShouldScaleUp(a, p, s), ShouldScaleDown(a, p, r)
    PROVE  FALSE
<1>1. /\ a.avgCPU \in Nat
      /\ a.highFor \in {NotTracked} \cup 0..SustainedHighDuration
      /\ a.highFor # NotTracked => a.avgCPU >= CPUHighThreshold
    BY InputAssumption DEF Analyzed
<1>2. a.avgCPU < CPULowThreshold /\ a.trend # "rising" /\ ~PredictsHigh(p)
    BY DEF ShouldScaleDown
<1>3. a.avgCPU < CPUHighThreshold /\ a.avgCPU < CriticalCPU
    BY <1>1, <1>2, ConfigAssumption DEF LowIsNotCritical, CriticalCPU
<1>4. CPUStatus(a.avgCPU) = "normal"
    BY <1>1, <1>3, ConfigAssumption DEF CPUStatus, CriticalCPU
<1>5. ~(a.highFor >= SustainedHighDuration)
    BY <1>1, <1>3, ConfigAssumption DEF NotTracked
<1>. QED
    BY <1>2, <1>4, <1>5 DEF ShouldScaleUp

(* A decision is not undone on the same sample (engine.go:124-210), for    *)
(* every configuration whose low threshold is not above the critical one.  *)
THEOREM NoReversalHolds == LowIsNotCritical => (EngineSpec => []NoReversal)
<1>. SUFFICES ASSUME LowIsNotCritical
              PROVE  EngineSpec => []NoReversal
    OBVIOUS
<1>1. NoReversal
  <2>. SUFFICES ASSUME NEW a \in Analyzed, NEW p \in Prediction, NEW s \in ClusterState,
                       NEW r, ~a.hasSpike, ~Decide(a, p, s).isEmergency
                PROVE  /\ Decide(a, p, s).action = "down" => ~ShouldScaleUp(a, p, r)
                       /\ Decide(a, p, s).action = "up" => ~ShouldScaleDown(a, p, r)
      BY DEF NoReversal
  <2>1. CASE Decide(a, p, s).action = "down"
    <3>1. ShouldScaleDown(a, p, s)
        BY <2>1, DecideCases
    <3>. QED
        BY <2>1, <3>1, RulesExclude
  <2>2. CASE Decide(a, p, s).action = "up"
    <3>1. ShouldScaleUp(a, p, s)
        BY <2>2, DecideCases
    <3>. QED
        BY <2>2, <3>1, RulesExclude
  <2>. QED
      BY <2>1, <2>2
<1>. QED
    BY <1>1, PTL

LEMMA QuotientIsMonotone ==
    ASSUME NEW m \in Nat, NEW n \in Nat, m <= n, NEW d \in Nat \ {0}
    PROVE  m \div d <= n \div d
<1>. DEFINE q == m \div d
            r == n \div d
<1>1. q \in Int /\ m = d * q + (m % d) /\ m % d \in 0..(d - 1)
    OBVIOUS
<1>2. r \in Int /\ n = d * r + (n % d) /\ n % d \in 0..(d - 1)
    OBVIOUS
<1>. HIDE DEF q, r
<1>3. ASSUME q >= r + 1 PROVE FALSE
  <2>1. d * q >= d * (r + 1)
      BY <1>1, <1>2, <1>3
  <2>2. d * (r + 1) = d * r + d
      BY <1>2
  <2>3. d * q \in Int /\ d * r \in Int /\ d * (r + 1) \in Int
      BY <1>1, <1>2
  <2>. QED
      BY <1>1, <1>2, <2>1, <2>2, <2>3
<1>4. q <= r
    BY <1>1, <1>2, <1>3
<1>. QED
    BY <1>4 DEF q, r

LEMMA ProductIsMonotone ==
    ASSUME NEW m \in Nat, NEW n \in Nat, m <= n, NEW k \in Nat
    PROVE  k * m \in Nat /\ k * n \in Nat /\ k * m <= k * n
OBVIOUS

(* The step grows with the load. *)
LEMMA StepIsMonotone ==
    ASSUME NEW a, a.avgCPU \in Nat, NEW b, b.avgCPU \in Nat, a.avgCPU <= b.avgCPU,
           NEW s, s.active \in Nat
    PROVE  CalculateScaleUpDelta(a, s) <= CalculateScaleUpDelta(b, s)
<1>. DEFINE quotient(n) == (s.active * n) \div TargetCPU
<1>1. MaxScaleStep \in Nat \ {0} /\ TargetCPU \in Nat \ {0} /\ EmergencyCPUThreshold \in Nat
    BY ConfigAssumption
<1>2. /\ CalculateScaleUpDelta(a, s) \in 1..MaxScaleStep
      /\ CalculateScaleUpDelta(b, s) \in 1..MaxScaleStep
    BY ScaleUpDeltaInRange
<1>3. CASE b.avgCPU >= EmergencyCPUThreshold
    BY <1>1, <1>2, <1>3 DEF CalculateScaleUpDelta
<1>4. CASE ~(b.avgCPU >= EmergencyCPUThreshold) /\ ~(a.avgCPU > 0 /\ s.active > 0)
  <2>1. CalculateScaleUpDelta(a, s) = 1
      BY <1>1, <1>4 DEF CalculateScaleUpDelta
  <2>. QED
      BY <1>1, <1>2, <2>1
<1>5. CASE ~(b.avgCPU >= EmergencyCPUThreshold) /\ a.avgCPU > 0 /\ s.active > 0
  <2>1. s.active * a.avgCPU \in Nat /\ s.active * b.avgCPU \in Nat /\ s.active * a.avgCPU <= s.active * b.avgCPU
      BY ProductIsMonotone
  <2>2. quotient(a.avgCPU) \in Int /\ quotient(b.avgCPU) \in Int /\ quotient(a.avgCPU) <= quotient(b.avgCPU)
      BY <2>1, <1>1, QuotientIsMonotone
  <2>3. /\ CalculateScaleUpDelta(a, s) = AtMost(AtLeast(quotient(a.avgCPU) - s.active, 1), MaxScaleStep)
        /\ CalculateScaleUpDelta(b, s) = AtMost(AtLeast(quotient(b.avgCPU) - s.active, 1), MaxScaleStep)
      BY <1>1, <1>5 DEF CalculateScaleUpDelta
  <2>. HIDE DEF quotient
  <2>. QED
      BY <2>2, <2>3, <1>1 DEF AtMost, AtLeast
<1>. QED
    BY <1>3, <1>4, <1>5

(* What asks for a scale-up still does for a busier sample, and what asks  *)
(* for a scale-down did so for a less busy one.                            *)
LEMMA RulesAreMonotone ==
    ASSUME NEW a \in Analyzed, NEW b \in Analyzed, Busier(b, a), NEW p, NEW s
    PROVE  /\ ShouldScaleUp(a, p, s) => ShouldScaleUp(b, p, s)
           /\ ShouldScaleDown(b, p, s) => ShouldScaleDown(a, p, s)
<1>1. /\ a.avgCPU \in Nat /\ b.avgCPU \in Nat
      /\ a.highFor \in Int /\ b.highFor \in Int /\ a.lowFor \in Int /\ b.lowFor \in Int
      /\ CPUHighThreshold \in Nat /\ CPULowThreshold \in Nat
      /\ SustainedHighDuration \in Nat /\ SustainedLowDuration \in Nat
  <2>1. ASSUME NEW c \in Analyzed PROVE c.avgCPU \in Nat /\ c.highFor \in Int /\ c.lowFor \in Int
    <3>1. /\ c.avgCPU \in CPULevels
          /\ c.highFor \in {NotTracked} \cup 0..SustainedHighDuration
          /\ c.lowFor \in {NotTracked} \cup 0..SustainedLowDuration
        BY DEF Analyzed
    <3>2. NotTracked \in Int
        BY DEF NotTracked
    <3>3. c.avgCPU \in Nat
        BY <3>1, InputAssumption
    <3>4. c.highFor \in Int
        BY <3>1, <3>2
    <3>5. c.lowFor \in Int
        BY <3>1, <3>2
    <3>. QED
        BY <3>3, <3>4, <3>5
  <2>. QED
      BY <2>1, ConfigAssumption
<1>2. /\ CPUStatus(a.avgCPU) = "critical" => CPUStatus(b.avgCPU) = "critical"
      /\ CPUStatus(a.avgCPU) = "warning" => CPUStatus(b.avgCPU) \in {"critical", "warning"}
    BY <1>1 DEF CPUStatus, CriticalCPU, Busier
<1>3. ShouldScaleUp(a, p, s) => ShouldScaleUp(b, p, s)
    BY <1>1, <1>2 DEF ShouldScaleUp, Busier
<1>4. ShouldScaleDown(b, p, s) => ShouldScaleDown(a, p, s)
    BY <1>1 DEF ShouldScaleDown, Busier
<1>. QED
    BY <1>3, <1>4

(* The busier sample never gets the smaller target, but for an emergency   *)
(* that gets its fixed 3 servers (engine.go:76-295), for every             *)
(* configuration.                                                          *)
THEOREM MoreLoadNeverTargetsLessHolds == EngineSpec => []MoreLoadNeverTargetsLess
<1>1. MoreLoadNeverTargetsLess
  <2>. SUFFICES ASSUME NEW a \in Analyzed, NEW b \in Analyzed, Busier(b, a),
                       NEW s \in ClusterState, s.active <= MaxServers
                PROVE  Decide(b, NoPrediction, s).target >=
                           IF IsEmergency(b) /\ ~IsEmergency(a)
                           THEN AtMost(Decide(a, NoPrediction, s).target, s.active + 3)
                           ELSE Decide(a, NoPrediction, s).target
      BY DEF MoreLoadNeverTargetsLess
  <2>. DEFINE ta == Decide(a, NoPrediction, s).target
              tb == Decide(b, NoPrediction, s).target
              da == CalculateScaleUpDelta(a, s)
              db == CalculateScaleUpDelta(b, s)
  <2>1. /\ s.active \in Nat /\ a.avgCPU \in Nat /\ b.avgCPU \in Nat /\ a.avgCPU <= b.avgCPU
        /\ MinServers \in Nat /\ MaxServers \in Nat /\ EmergencyCPUThreshold \in Nat
      BY InputAssumption, ConfigAssumption DEF Analyzed, ClusterState, Busier
  <2>2. da \in Nat \ {0} /\ db \in Nat \ {0} /\ da <= db
      BY <2>1, ScaleUpDeltaInRange, StepIsMonotone, ConfigAssumption
  <2>3. /\ ShouldScaleUp(a, NoPrediction, s) => ShouldScaleUp(b, NoPrediction, s)
        /\ ShouldScaleDown(b, NoPrediction, s) => ShouldScaleDown(a, NoPrediction, s)
      BY RulesAreMonotone
  <2>4. ShouldScaleDown(a, NoPrediction, s) => s.active > MinServers
      BY DEF ShouldScaleDown
  <2>5. \/ /\ b.avgCPU >= EmergencyCPUThreshold
           /\ tb = AtMost(s.active + 3, MaxServers)
        \/ /\ ~(b.avgCPU >= EmergencyCPUThreshold) /\ ShouldScaleUp(b, NoPrediction, s)
           /\ tb = IF InScaleUpCooldown THEN s.active ELSE AtMost(s.active + db, MaxServers)
        \/ /\ ~(b.avgCPU >= EmergencyCPUThreshold) /\ ~ShouldScaleUp(b, NoPrediction, s)
           /\ tb = IF ShouldScaleDown(b, NoPrediction, s) /\ ~InScaleDownCooldown
                   THEN AtLeast(s.active - 1, MinServers) ELSE s.active
      BY DecideCases
  <2>6. \/ /\ a.avgCPU >= EmergencyCPUThreshold
           /\ ta = AtMost(s.active + 3, MaxServers)
        \/ /\ ~(a.avgCPU >= EmergencyCPUThreshold) /\ ShouldScaleUp(a, NoPrediction, s)
           /\ ta = IF InScaleUpCooldown THEN s.active ELSE AtMost(s.active + da, MaxServers)
        \/ /\ ~(a.avgCPU >= EmergencyCPUThreshold) /\ ~ShouldScaleUp(a, NoPrediction, s)
           /\ ta = IF ShouldScaleDown(a, NoPrediction, s) /\ ~InScaleDownCooldown
                   THEN AtLeast(s.active - 1, MinServers) ELSE s.active
      BY DecideCases
  <2>. HIDE DEF ta, tb, da, db
  <2>7. CASE IsEmergency(a)
    <3>1. b.avgCPU >= EmergencyCPUThreshold
        BY <2>1, <2>7 DEF IsEmergency
    <3>2. tb = ta
        BY <2>5, <2>6, <2>7, <3>1 DEF IsEmergency
    <3>. QED
        BY <2>6, <2>7, <2>1, <3>2 DEF ta, tb, IsEmergency, AtMost
  <2>8. CASE IsEmergency(b) /\ ~IsEmergency(a)
    <3>1. ta \in Int /\ (ta <= MaxServers \/ ta <= s.active)
        BY <2>1, <2>2, <2>4, <2>6 DEF AtMost, AtLeast
    <3>2. tb = AtMost(s.active + 3, MaxServers)
        BY <2>5, <2>8 DEF IsEmergency
    <3>3. tb >= AtMost(ta, s.active + 3)
        BY <2>1, <3>1, <3>2 DEF AtMost
    <3>. QED
        BY <2>8, <3>3 DEF ta, tb
  <2>9. CASE ~IsEmergency(b)
    <3>1. tb >= ta
        BY <2>1, <2>2, <2>3, <2>4, <2>5, <2>6, <2>9 DEF IsEmergency, AtMost, AtLeast
    <3>. QED
        BY <2>9, <3>1 DEF ta, tb
  <2>. QED
      BY <2>7, <2>8, <2>9
<1>. QED
    BY <1>1, PTL
=============================================================================
