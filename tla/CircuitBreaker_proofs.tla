----------------------- MODULE CircuitBreaker_proofs -----------------------
(***************************************************************************)
(* Proofs about the circuit breaker, for any set of callers and any        *)
(* thresholds, and about the resilient collector that runs its retries     *)
(* inside it, for any number of attempts, any delay and any budget.        *)
(***************************************************************************)
EXTENDS ResilientCollector, TLAPS

(* The histories never lag behind what the breaker counts: its failures    *)
(* are among the last failures in a row, its successes among the last      *)
(* successes in a row, and no failure is older than the opening.           *)
HistoryCovers ==
    /\ state = "closed" => failures <= failedInARow
    /\ state = "halfOpen" => successes <= passedInARow
    /\ state = "open" => sinceFailure <= sinceOpened

BreakerInv == BreakerTypeOK /\ CountersMatchState /\ HistoryCovers

(* Cap keeps a natural number within its bound, and is exact below it. *)
LEMMA CapBounds ==
    ASSUME NEW n \in Nat, NEW bound \in Nat
    PROVE  /\ Cap(n, bound) \in 0..bound
           /\ n <= bound => Cap(n, bound) = n
           /\ n >= bound => Cap(n, bound) = bound
BY DEF Cap

LEMMA InitBreakerInv == BreakerInit => BreakerInv
BY BreakerAssumption
   DEF BreakerInit, BreakerInv, BreakerTypeOK, CountersMatchState, HistoryCovers, Expired

(* Letting a caller through, half-opening if need be. *)
LEMMA AdmitKeepsInv ==
    ASSUME BreakerInv, NEW c \in Caller, Admit(c)
    PROVE  BreakerInv'
<1>1. CASE state = "open"
    BY <1>1, BreakerAssumption
       DEF Admit, TransitionTo, BreakerInv, BreakerTypeOK, CountersMatchState, HistoryCovers, Expired
<1>2. CASE state # "open"
    BY <1>2, BreakerAssumption
       DEF Admit, BreakerInv, BreakerTypeOK, CountersMatchState, HistoryCovers, Expired
<1>. QED
    BY <1>1, <1>2

(* A success in any state, late ones included. *)
LEMMA SuccessKeepsInv ==
    ASSUME BreakerInv, NEW c \in Caller, RecordSuccess(c)
    PROVE  BreakerInv'
<1>1. /\ passedInARow' \in 0..HalfOpenMax
      /\ passedInARow < HalfOpenMax => passedInARow' = passedInARow + 1
      /\ passedInARow = HalfOpenMax => passedInARow' = HalfOpenMax
    BY BreakerAssumption DEF RecordSuccess, BreakerInv, BreakerTypeOK, Cap
<1>2. CASE state = "closed"
    BY <1>1, <1>2, BreakerAssumption
       DEF RecordSuccess, SuccessWhenClosed, SuccessWhenHalfOpen, LateSuccess,
           BreakerInv, BreakerTypeOK, CountersMatchState, HistoryCovers, Expired
<1>3. CASE state = "halfOpen"
    BY <1>1, <1>3, BreakerAssumption
       DEF RecordSuccess, SuccessWhenClosed, SuccessWhenHalfOpen, LateSuccess, TransitionTo, BreakerInv, BreakerTypeOK, CountersMatchState, HistoryCovers, Expired
<1>4. CASE state = "open"
    BY <1>1, <1>4, BreakerAssumption
       DEF RecordSuccess, SuccessWhenClosed, SuccessWhenHalfOpen, LateSuccess,
           BreakerInv, BreakerTypeOK, CountersMatchState, HistoryCovers, Expired
<1>. QED
    BY <1>2, <1>3, <1>4 DEF BreakerInv, BreakerTypeOK

(* A failure in any state, late ones included. *)
LEMMA FailureKeepsInv ==
    ASSUME BreakerInv, NEW c \in Caller, RecordFailure(c)
    PROVE  BreakerInv'
<1>1. /\ failedInARow' \in 0..MaxFailures
      /\ failedInARow < MaxFailures => failedInARow' = failedInARow + 1
      /\ failedInARow = MaxFailures => failedInARow' = MaxFailures
    BY BreakerAssumption DEF RecordFailure, BreakerInv, BreakerTypeOK, Cap
<1>2. CASE state = "closed"
    BY <1>1, <1>2, BreakerAssumption
       DEF RecordFailure, StampFailure, FailureWhenClosed, FailureWhenHalfOpen, LateFailure,
           TransitionTo, BreakerInv, BreakerTypeOK, CountersMatchState, HistoryCovers, Expired
<1>3. CASE state = "halfOpen"
    BY <1>1, <1>3, BreakerAssumption
       DEF RecordFailure, StampFailure, FailureWhenClosed, FailureWhenHalfOpen, LateFailure,
           TransitionTo, BreakerInv, BreakerTypeOK, CountersMatchState, HistoryCovers, Expired
<1>4. CASE state = "open"
    BY <1>1, <1>4, BreakerAssumption
       DEF RecordFailure, StampFailure, FailureWhenClosed, FailureWhenHalfOpen, LateFailure,
           BreakerInv, BreakerTypeOK, CountersMatchState, HistoryCovers, Expired
<1>. QED
    BY <1>2, <1>3, <1>4 DEF BreakerInv, BreakerTypeOK

LEMMA ResetKeepsInv ==
    ASSUME BreakerInv, Reset
    PROVE  BreakerInv'
BY BreakerAssumption
   DEF Reset, history, BreakerInv, BreakerTypeOK, CountersMatchState, HistoryCovers

LEMMA TickKeepsInv ==
    ASSUME BreakerInv, BreakerTick
    PROVE  BreakerInv'
BY BreakerAssumption
   DEF BreakerTick, Cap, Expired, BreakerInv, BreakerTypeOK, CountersMatchState, HistoryCovers

LEMMA NextBreakerInv == BreakerInv /\ [BreakerNext]_breakerVars => BreakerInv'
<1>. SUFFICES ASSUME BreakerInv, [BreakerNext]_breakerVars PROVE BreakerInv'
    OBVIOUS
<1>1. ASSUME NEW c \in Caller, Admit(c) PROVE BreakerInv'
    BY <1>1, AdmitKeepsInv
<1>2. ASSUME NEW c \in Caller, RecordSuccess(c) PROVE BreakerInv'
    BY <1>2, SuccessKeepsInv
<1>3. ASSUME NEW c \in Caller, RecordFailure(c) PROVE BreakerInv'
    BY <1>3, FailureKeepsInv
<1>4. CASE Reset
    BY <1>4, ResetKeepsInv
<1>5. CASE BreakerTick
    BY <1>5, TickKeepsInv
<1>6. CASE UNCHANGED breakerVars
    BY <1>6
       DEF breakerVars, breakerState, history, BreakerInv, BreakerTypeOK, CountersMatchState, HistoryCovers
<1>. QED
    BY <1>1, <1>2, <1>3, <1>4, <1>5, <1>6 DEF BreakerNext

(* The strengthened invariant holds in every reachable state. *)
THEOREM BreakerInvariant == BreakerSpec => []BreakerInv
BY InitBreakerInv, NextBreakerInv, PTL DEF BreakerSpec

(* Every variable of the breaker keeps its type, for any set of callers.   *)
THEOREM BreakerTypeCorrect == BreakerSpec => []BreakerTypeOK
BY BreakerInvariant, PTL DEF BreakerInv

(* No order of overlapping results leaves a counter over from another      *)
(* state or lets it reach its threshold (circuit_breaker.go:115-158).      *)
THEOREM CountersMatchStateHolds == BreakerSpec => []CountersMatchState
BY BreakerInvariant, PTL DEF BreakerInv

(* A breaker that opened half-opens only after more than OpenTimeout       *)
(* (circuit_breaker.go:101-106), late failures notwithstanding.            *)
THEOREM StaysOpenHolds == BreakerSpec => StaysOpen
<1>1. BreakerInv /\ [BreakerNext]_breakerVars
        => [state = "open" /\ state' = "halfOpen" => sinceOpened > OpenTimeout]_breakerVars
    BY BreakerAssumption
       DEF BreakerInv, BreakerTypeOK, HistoryCovers, Expired, BreakerNext, Admit, RecordSuccess,
           SuccessWhenClosed, SuccessWhenHalfOpen, LateSuccess, RecordFailure,
           StampFailure, FailureWhenClosed, FailureWhenHalfOpen, LateFailure, Reset, BreakerTick, TransitionTo, breakerVars, breakerState, history
<1>. QED
    BY <1>1, BreakerInvariant, PTL DEF BreakerSpec, StaysOpen

(* The breaker opens only when MaxFailures results in a row were failures  *)
(* (circuit_breaker.go:138-142).                                           *)
THEOREM OpensAfterFailuresInARowHolds == BreakerSpec => OpensAfterFailuresInARow
<1>1. BreakerInv /\ [BreakerNext]_breakerVars
        => [state = "closed" /\ state' = "open" => failedInARow' = MaxFailures]_breakerVars
  <2>. SUFFICES ASSUME BreakerInv, BreakerNext, state = "closed", state' = "open"
                PROVE  failedInARow' = MaxFailures
      OBVIOUS
  <2>1. PICK c \in Caller : RecordFailure(c)
      BY DEF BreakerNext, Admit, RecordSuccess, SuccessWhenClosed, SuccessWhenHalfOpen, LateSuccess, Reset,
             BreakerTick, TransitionTo
  <2>2. failures + 1 >= MaxFailures /\ failures <= failedInARow
      BY <2>1
         DEF RecordFailure, FailureWhenClosed, FailureWhenHalfOpen, LateFailure, BreakerInv, HistoryCovers
  <2>. QED
      BY <2>1, <2>2, BreakerAssumption DEF RecordFailure, Cap, BreakerInv, BreakerTypeOK
<1>. QED
    BY <1>1, BreakerInvariant, PTL DEF BreakerSpec, OpensAfterFailuresInARow

(* The breaker closes by itself only when HalfOpenMax results in a row     *)
(* were successes (circuit_breaker.go:123-127).                            *)
THEOREM ClosesAfterSuccessesInARowHolds == BreakerSpec => ClosesAfterSuccessesInARow
<1>1. BreakerInv /\ [BreakerNext]_breakerVars
        => [state = "halfOpen" /\ state' = "closed" /\ ~Reset
              => passedInARow' = HalfOpenMax]_breakerVars
  <2>. SUFFICES ASSUME BreakerInv, BreakerNext, state = "halfOpen", state' = "closed", ~Reset
                PROVE  passedInARow' = HalfOpenMax
      OBVIOUS
  <2>1. PICK c \in Caller : RecordSuccess(c)
      BY DEF BreakerNext, Admit, RecordFailure, FailureWhenClosed, FailureWhenHalfOpen, LateFailure,
             BreakerTick, TransitionTo
  <2>2. successes + 1 >= HalfOpenMax /\ successes <= passedInARow
      BY <2>1 DEF RecordSuccess, SuccessWhenClosed, SuccessWhenHalfOpen, LateSuccess, BreakerInv, HistoryCovers
  <2>. QED
      BY <2>1, <2>2, BreakerAssumption DEF RecordSuccess, Cap, BreakerInv, BreakerTypeOK
<1>. QED
    BY <1>1, BreakerInvariant, PTL DEF BreakerSpec, ClosesAfterSuccessesInARow
-----------------------------------------------------------------------------
(* The resilient collector.                                                *)

(* The attempts of the Collect under way whose failure has been seen. *)
FailedAttempts ==
    CASE phase = "idle"    -> 0
      [] phase = "waiting" -> attempt
      [] OTHER             -> attempt - 1

(* A Collect is inside the breaker, with an attempt to make, exactly while *)
(* it is under way.                                                        *)
AttemptsMatchPhase ==
    /\ phase = "idle" => executing = {} /\ attempt = 0
    /\ phase # "idle" => executing = {pipeline} /\ attempt \in 1..RetryAttempts
    /\ phase = "waiting" => attempt < RetryAttempts

(* Every contact belongs to a counted failure or to a failed attempt of    *)
(* the Collect under way.                                                  *)
ContactsAccounted == contacts <= RetryAttempts * failures + FailedAttempts

CollectorInv ==
    /\ TypeOK
    /\ BreakerInv
    /\ AttemptsMatchPhase
    /\ NoContactWhileOpen
    /\ ContactsAccounted

LEMMA PipelineCalls == pipeline \in Caller
BY SomeCaller DEF pipeline

(* One more counted failure pays for all attempts of a Collect. *)
LEMMA FailurePays ==
    ASSUME NEW f \in Nat
    PROVE  /\ RetryAttempts * f \in Nat
           /\ RetryAttempts * (f + 1) = RetryAttempts * f + RetryAttempts
BY CollectorAssumption

LEMMA InitCollectorInv == Init => CollectorInv
<1>. SUFFICES ASSUME Init PROVE CollectorInv
    OBVIOUS
<1>1. BreakerInv
    BY InitBreakerInv DEF Init
<1>2. cancelled \in BOOLEAN
    BY DEF Init
<1>3. TypeOK /\ AttemptsMatchPhase /\ NoContactWhileOpen
    BY <1>1, <1>2, CollectorAssumption
       DEF Init, BreakerInit, BreakerInv, TypeOK, AttemptsMatchPhase, NoContactWhileOpen
<1>4. ContactsAccounted
    BY CollectorAssumption DEF Init, BreakerInit, ContactsAccounted, FailedAttempts
<1>. QED
    BY <1>1, <1>3, <1>4 DEF CollectorInv

LEMMA BeginCollectKeepsInv ==
    ASSUME CollectorInv, BeginCollect
    PROVE  CollectorInv'
<1>1. BreakerInv'
    BY PipelineCalls, AdmitKeepsInv DEF CollectorInv, BeginCollect
<1>2. TypeOK' /\ AttemptsMatchPhase'
    BY <1>1, CollectorAssumption
       DEF CollectorInv, BreakerInv, BeginCollect, Admit, TypeOK, AttemptsMatchPhase
<1>3. NoContactWhileOpen'
    BY DEF BeginCollect, Admit, TransitionTo, NoContactWhileOpen
<1>4. ContactsAccounted'
  <2>1. CASE state = "open"
      BY <2>1, <1>2, CollectorAssumption
         DEF CollectorInv, BeginCollect, Admit, TransitionTo, TypeOK, ContactsAccounted, FailedAttempts
  <2>2. CASE state # "open"
      BY <2>2, FailurePays
         DEF CollectorInv, BeginCollect, Admit, TypeOK, BreakerTypeOK, ContactsAccounted, FailedAttempts
  <2>. QED
      BY <2>1, <2>2
<1>. QED
    BY <1>1, <1>2, <1>3, <1>4 DEF CollectorInv

(* A Collect that fails, however it comes to that: seen says how many of   *)
(* its attempts have failed.                                               *)
LEMMA FailureIsAccounted ==
    ASSUME CollectorInv, phase # "idle", RecordFailure(pipeline),
           NEW seen \in 0..RetryAttempts,
           NEW total \in Nat, total <= RetryAttempts * failures + seen,
           contacts' = IF state' = state THEN total ELSE 0,
           Finish
    PROVE  CollectorInv'
<1>1. BreakerInv'
    BY PipelineCalls, FailureKeepsInv DEF CollectorInv
<1>2. TypeOK' /\ AttemptsMatchPhase'
    BY <1>1, CollectorAssumption
       DEF CollectorInv, BreakerInv, Finish, RecordFailure, TypeOK, AttemptsMatchPhase
<1>3. NoContactWhileOpen'
    BY DEF Finish, NoContactWhileOpen
<1>4. ContactsAccounted'
  <2>1. failures \in Nat /\ failures' \in Nat
      BY <1>1 DEF CollectorInv, BreakerInv, BreakerTypeOK
  <2>2. CASE state' = state
    <3>1. failures' = failures + 1
        BY <2>2
           DEF CollectorInv, NoContactWhileOpen, RecordFailure, FailureWhenClosed, FailureWhenHalfOpen,
               LateFailure, TransitionTo
    <3>. QED
        BY <2>1, <2>2, <3>1, FailurePays, CollectorAssumption
           DEF Finish, ContactsAccounted, FailedAttempts
  <2>3. CASE state' # state
      BY <2>1, <2>3, FailurePays DEF Finish, ContactsAccounted, FailedAttempts
  <2>. QED
      BY <2>2, <2>3
<1>. QED
    BY <1>1, <1>2, <1>3, <1>4 DEF CollectorInv

LEMMA FinishFailedKeepsInv ==
    ASSUME CollectorInv, phase # "idle", FinishFailed
    PROVE  CollectorInv'
<1>1. /\ FailedAttempts \in 0..RetryAttempts
      /\ contacts \in Nat
      /\ contacts <= RetryAttempts * failures + FailedAttempts
    BY CollectorAssumption
       DEF CollectorInv, TypeOK, AttemptsMatchPhase, ContactsAccounted, FailedAttempts
<1>. QED
    BY <1>1, FailureIsAccounted DEF FinishFailed

LEMMA LastAttemptFailsKeepsInv ==
    ASSUME CollectorInv, LastAttemptFails
    PROVE  CollectorInv'
<1>1. attempt = RetryAttempts /\ RetryAttempts \in 0..RetryAttempts
    BY CollectorAssumption DEF CollectorInv, AttemptsMatchPhase, LastAttemptFails
<1>2. contacts + 1 \in Nat /\ contacts + 1 <= RetryAttempts * failures + RetryAttempts
    BY <1>1, FailurePays, CollectorAssumption
       DEF CollectorInv, TypeOK, BreakerTypeOK, ContactsAccounted, FailedAttempts, LastAttemptFails
<1>. QED
    BY <1>1, <1>2, FailureIsAccounted DEF LastAttemptFails

LEMMA AttemptSucceedsKeepsInv ==
    ASSUME CollectorInv, AttemptSucceeds
    PROVE  CollectorInv'
<1>1. BreakerInv'
    BY PipelineCalls, SuccessKeepsInv DEF CollectorInv, AttemptSucceeds
<1>2. TypeOK' /\ AttemptsMatchPhase'
    BY <1>1, CollectorAssumption
       DEF CollectorInv, BreakerInv, AttemptSucceeds, Finish, RecordSuccess, TypeOK, AttemptsMatchPhase
<1>3. NoContactWhileOpen' /\ ContactsAccounted'
    BY <1>1, FailurePays
       DEF BreakerInv, BreakerTypeOK, AttemptSucceeds, Finish, NoContactWhileOpen, ContactsAccounted, FailedAttempts
<1>. QED
    BY <1>1, <1>2, <1>3 DEF CollectorInv

(* The steps of Collect that leave the breaker alone. *)
LEMMA QuietStepKeepsInv ==
    ASSUME CollectorInv, UNCHANGED breakerVars,
           \/ phase = "check" /\ phase' = "calling" /\ UNCHANGED <<attempt, delayLeft, budgetLeft, cancelled, contacts>>
           \/ AttemptFails
           \/ RetryAfterDelay
           \/ Cancel
           \/ UNCHANGED collectVars
    PROVE  CollectorInv'
<1>1. BreakerInv'
    BY NextBreakerInv DEF CollectorInv
<1>2. TypeOK' /\ AttemptsMatchPhase'
  <2>1. cancelled' \in BOOLEAN
      BY DEF CollectorInv, TypeOK, AttemptFails, RetryAfterDelay, Cancel, collectVars
  <2>. QED
      BY <1>1, <2>1, CollectorAssumption
         DEF CollectorInv, BreakerInv, breakerVars, AttemptFails, RetryAfterDelay, Cancel, collectVars,
             TypeOK, AttemptsMatchPhase
<1>3. NoContactWhileOpen'
    BY DEF CollectorInv, breakerVars, breakerState, AttemptFails, RetryAfterDelay, Cancel, collectVars,
           NoContactWhileOpen
<1>4. ContactsAccounted'
  <2>1. RetryAttempts * failures' = RetryAttempts * failures /\ RetryAttempts * failures \in Nat
      BY FailurePays DEF CollectorInv, TypeOK, BreakerTypeOK, breakerVars, breakerState
  <2>2. contacts' - contacts <= FailedAttempts' - FailedAttempts
      BY DEF CollectorInv, AttemptFails, RetryAfterDelay, Cancel, collectVars, TypeOK, AttemptsMatchPhase,
             FailedAttempts
  <2>3. /\ contacts \in Nat /\ contacts' \in Nat
        /\ FailedAttempts \in Int /\ FailedAttempts' \in Int
      BY <1>2 DEF CollectorInv, TypeOK, AttemptsMatchPhase, FailedAttempts
  <2>4. ASSUME NEW paid \in Nat, NEW made \in Int, NEW made2 \in Int, NEW c \in Nat, NEW c2 \in Nat,
               c <= paid + made, c2 - c <= made2 - made
        PROVE  c2 <= paid + made2
      BY <2>4
  <2>5. contacts' <= RetryAttempts * failures + FailedAttempts'
      BY <2>1, <2>2, <2>3, <2>4 DEF CollectorInv, ContactsAccounted
  <2>. QED
      BY <2>1, <2>5 DEF ContactsAccounted
<1>. QED
    BY <1>1, <1>2, <1>3, <1>4 DEF CollectorInv

LEMMA CollectorTickKeepsInv ==
    ASSUME CollectorInv, Tick
    PROVE  CollectorInv'
<1>1. BreakerInv'
    BY TickKeepsInv DEF CollectorInv, Tick
<1>2. TypeOK'
    BY <1>1, CollectorAssumption DEF CollectorInv, BreakerInv, Tick, TypeOK
<1>3. AttemptsMatchPhase' /\ NoContactWhileOpen' /\ ContactsAccounted'
    BY DEF CollectorInv, Tick, BreakerTick, AttemptsMatchPhase, NoContactWhileOpen, ContactsAccounted,
           FailedAttempts
<1>. QED
    BY <1>1, <1>2, <1>3 DEF CollectorInv

LEMMA NextCollectorInv == CollectorInv /\ [Next]_vars => CollectorInv'
<1>. SUFFICES ASSUME CollectorInv, [Next]_vars PROVE CollectorInv'
    OBVIOUS
<1>1. CASE BeginCollect
    BY <1>1, BeginCollectKeepsInv
<1>2. CASE CheckContext
  <2>1. CASE CtxDone
      BY <1>2, <2>1, FinishFailedKeepsInv DEF CheckContext
  <2>2. CASE ~CtxDone
      BY <1>2, <2>2, QuietStepKeepsInv DEF CheckContext
  <2>. QED
      BY <2>1, <2>2
<1>3. CASE AttemptSucceeds
    BY <1>3, AttemptSucceedsKeepsInv
<1>4. CASE AttemptFails
    BY <1>4, QuietStepKeepsInv DEF AttemptFails
<1>5. CASE LastAttemptFails
    BY <1>5, LastAttemptFailsKeepsInv
<1>6. CASE GiveUpWaiting
    BY <1>6, FinishFailedKeepsInv DEF GiveUpWaiting
<1>7. CASE RetryAfterDelay
    BY <1>7, QuietStepKeepsInv DEF RetryAfterDelay
<1>8. CASE Cancel
    BY <1>8, QuietStepKeepsInv DEF Cancel
<1>9. CASE Tick
    BY <1>9, CollectorTickKeepsInv
<1>10. CASE UNCHANGED vars
    BY <1>10, QuietStepKeepsInv DEF vars
<1>. QED
    BY <1>1, <1>2, <1>3, <1>4, <1>5, <1>6, <1>7, <1>8, <1>9, <1>10 DEF Next, CollectStep

THEOREM CollectorInvariant == Spec => []CollectorInv
BY InitCollectorInv, NextCollectorInv, PTL DEF Spec

(* The collector and the breaker under it keep their types. *)
THEOREM CollectorTypeCorrect == Spec => []TypeOK
BY CollectorInvariant, PTL DEF CollectorInv

(* No attempt is made while the breaker is open (resilient_collector.go:   *)
(* 52-89), for any number of attempts, delays and deadlines.               *)
THEOREM NoContactWhileOpenHolds == Spec => []NoContactWhileOpen
BY CollectorInvariant, PTL DEF CollectorInv

(* The attempts that a dead endpoint sees are bounded by the failures that *)
(* the breaker counts (resilient_collector.go:56-88).                      *)
THEOREM OutageBudgetHolds == Spec => []OutageBudget
<1>1. CollectorInv => OutageBudget
  <2>. SUFFICES ASSUME CollectorInv PROVE OutageBudget
      OBVIOUS
  <2>1. failures \in Nat
      BY DEF CollectorInv, TypeOK, BreakerTypeOK
  <2>. QED
      BY <2>1, FailurePays, CollectorAssumption
         DEF CollectorInv, TypeOK, AttemptsMatchPhase, ContactsAccounted, FailedAttempts, OutageBudget
<1>. QED
    BY <1>1, CollectorInvariant, PTL

(* The collector uses the breaker as the breaker's own specification says: *)
(* what it does to the breaker is a step of one caller, or time passing.   *)
LEMMA CollectorStepsBreaker == [Next]_vars => [BreakerNext]_breakerVars
<1>. SUFFICES ASSUME [Next]_vars PROVE BreakerNext \/ UNCHANGED breakerVars
    OBVIOUS
<1>1. CASE BeginCollect
    BY <1>1, PipelineCalls DEF BeginCollect, BreakerNext
<1>2. CASE FinishFailed
    BY <1>2, PipelineCalls DEF FinishFailed, BreakerNext
<1>3. CASE CheckContext \/ GiveUpWaiting
    BY <1>2, <1>3 DEF CheckContext, GiveUpWaiting
<1>4. CASE AttemptSucceeds \/ LastAttemptFails
    BY <1>4, PipelineCalls DEF AttemptSucceeds, LastAttemptFails, BreakerNext
<1>5. CASE AttemptFails \/ RetryAfterDelay \/ Cancel \/ UNCHANGED vars
    BY <1>5 DEF AttemptFails, RetryAfterDelay, Cancel, vars
<1>6. CASE Tick
    BY <1>6 DEF Tick, BreakerNext
<1>. QED
    BY <1>1, <1>3, <1>4, <1>5, <1>6 DEF Next, CollectStep

THEOREM CollectorImplementsBreaker == Spec => BreakerSpec
BY CollectorStepsBreaker, PTL DEF Spec, BreakerSpec, Init

(* So the collector's breaker opens after MaxFailures Collects in a row    *)
(* that failed with all their retries, closes after HalfOpenMax in a row   *)
(* that succeeded, and stays open for OpenTimeout                          *)
(* (resilient_collector.go:51-91).                                         *)
THEOREM CollectorKeepsBreakerPromises ==
    Spec => OpensAfterFailuresInARow /\ ClosesAfterSuccessesInARow /\ StaysOpen
BY CollectorImplementsBreaker, OpensAfterFailuresInARowHolds, ClosesAfterSuccessesInARowHolds,
   StaysOpenHolds, PTL
=============================================================================
