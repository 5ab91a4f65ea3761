--------------------------- MODULE CircuitBreaker ---------------------------
(***************************************************************************)
(* The circuit breaker (internal/resilience/circuit_breaker.go).           *)
(*                                                                         *)
(* Execute is three steps: canExecute under the mutex, the protected       *)
(* function without it, and recordSuccess or recordFailure under it again. *)
(* Callers overlap, so a result can be recorded in another state than the  *)
(* one its call was admitted in.  The onStateChange callback runs in a     *)
(* goroutine of its own, only logs and raises an alert, and is left out.   *)
(***************************************************************************)
EXTENDS Integers

CONSTANTS
    Caller,         \* the goroutines that call Execute
    MaxFailures,    \* consecutive failures that open the breaker
    HalfOpenMax,    \* successes in half-open that close it
    OpenTimeout     \* ticks the breaker rejects after the last failure

(* NewCircuitBreaker replaces anything else by a default. *)
ASSUME BreakerAssumption ==
    /\ MaxFailures \in Nat \ {0}
    /\ HalfOpenMax \in Nat \ {0}
    /\ OpenTimeout \in Nat \ {0}

VARIABLES
    state,          \* "closed", "open" or "halfOpen"
    failures,
    successes,
    sinceFailure,   \* age of lastFailTime, up to the first tick past the timeout
    executing,      \* the callers between canExecute and the recording
    sinceOpened,    \* history: age of the last step into "open"
    failedInARow,   \* history: results since the last success, up to MaxFailures
    passedInARow    \* history: results since the last failure, up to HalfOpenMax

breakerState == <<state, failures, successes, sinceFailure>>
history == <<sinceOpened, failedInARow, passedInARow>>
breakerVars == <<breakerState, executing, history>>

Cap(n, bound) == IF n > bound THEN bound ELSE n

Expired == OpenTimeout + 1

BreakerInit ==
    /\ state = "closed"
    /\ failures = 0 /\ successes = 0
    /\ sinceFailure = Expired      \* the zero time
    /\ executing = {}
    /\ sinceOpened = Expired /\ failedInARow = 0 /\ passedInARow = 0

(* transitionTo: both counters start over. *)
TransitionTo(st) ==
    /\ state' = st
    /\ failures' = 0 /\ successes' = 0
    /\ sinceOpened' = IF st = "open" THEN 0 ELSE sinceOpened

-----------------------------------------------------------------------------

(* Mutant: an open breaker never half-opens. *)
AdmitUnlessOpen(c) ==
    /\ c \notin executing /\ state # "open"
    /\ executing' = executing \cup {c}
    /\ UNCHANGED <<breakerState, history>>

(* canExecute lets the caller through.  An open breaker does so when the   *)
(* last failure is more than OpenTimeout ago, and half-opens; a half-open  *)
(* one lets everybody through.                                             *)
Admit(c) ==
    /\ c \notin executing
    /\ \/ state \in {"closed", "halfOpen"}
          /\ UNCHANGED <<state, failures, successes, sinceOpened>>
       \/ state = "open" /\ sinceFailure > OpenTimeout
          /\ TransitionTo("halfOpen")
    /\ executing' = executing \cup {c}
    /\ UNCHANGED <<sinceFailure, failedInARow, passedInARow>>

(* ErrCircuitOpen: nothing changes. *)
Rejected == state = "open" /\ sinceFailure <= OpenTimeout

(* Mutant: a success leaves the count of failures. *)
SuccessWhenClosedForgotten ==
    /\ state = "closed"
    /\ UNCHANGED <<state, failures, successes, sinceOpened>>

SuccessWhenClosed ==
    /\ state = "closed"
    /\ failures' = 0
    /\ UNCHANGED <<state, successes, sinceOpened>>

(* Mutant: a success in half-open is not counted. *)
SuccessWhenHalfOpenUncounted ==
    /\ state = "halfOpen"
    /\ UNCHANGED <<state, failures, successes, sinceOpened>>

SuccessWhenHalfOpen ==
    /\ state = "halfOpen"
    /\ IF successes + 1 >= HalfOpenMax
       THEN TransitionTo("closed")
       ELSE successes' = successes + 1 /\ UNCHANGED <<state, failures, sinceOpened>>

(* A success that was admitted earlier arrives when the breaker is open. *)
LateSuccess ==
    /\ state = "open"
    /\ UNCHANGED <<state, failures, successes, sinceOpened>>

RecordSuccess(c) ==
    /\ c \in executing
    /\ executing' = executing \ {c}
    /\ SuccessWhenClosed \/ SuccessWhenHalfOpen \/ LateSuccess
    /\ failedInARow' = 0
    /\ passedInARow' = Cap(passedInARow + 1, HalfOpenMax)
    /\ UNCHANGED sinceFailure

(* Mutant: the time of the failure is not stored. *)
NoStamp == UNCHANGED sinceFailure

(* The failure time moves in every state: a late failure keeps an open     *)
(* breaker open for another OpenTimeout.                                   *)
StampFailure == sinceFailure' = 0

FailureWhenClosed ==
    /\ state = "closed"
    /\ IF failures + 1 >= MaxFailures
       THEN TransitionTo("open")
       ELSE failures' = failures + 1 /\ UNCHANGED <<state, successes, sinceOpened>>

(* Mutant: a failure in half-open is ignored. *)
FailureWhenHalfOpenIgnored ==
    /\ state = "halfOpen"
    /\ UNCHANGED <<state, failures, successes, sinceOpened>>

FailureWhenHalfOpen ==
    /\ state = "halfOpen"
    /\ TransitionTo("open")

LateFailure ==
    /\ state = "open"
    /\ UNCHANGED <<state, failures, successes, sinceOpened>>

RecordFailure(c) ==
    /\ c \in executing
    /\ executing' = executing \ {c}
    /\ StampFailure
    /\ FailureWhenClosed \/ FailureWhenHalfOpen \/ LateFailure
    /\ failedInARow' = Cap(failedInARow + 1, MaxFailures)
    /\ passedInARow' = 0

(* Reset closes the breaker by hand; lastFailTime stays. *)
Reset ==
    /\ state' = "closed"
    /\ failures' = 0 /\ successes' = 0
    /\ UNCHANGED <<sinceFailure, executing, history>>

BreakerTick ==
    /\ sinceFailure' = Cap(sinceFailure + 1, Expired)
    /\ sinceOpened' = Cap(sinceOpened + 1, Expired)
    /\ UNCHANGED <<state, failures, successes, executing, failedInARow, passedInARow>>

BreakerNext ==
    \/ \E c \in Caller : Admit(c) \/ RecordSuccess(c) \/ RecordFailure(c)
    \/ Reset
    \/ BreakerTick

BreakerSpec == BreakerInit /\ [][BreakerNext]_breakerVars

(* Every caller calls again and again and every call ends; time goes on. *)
BreakerFairness ==
    /\ \A c \in Caller : /\ WF_breakerVars(Admit(c))
                         /\ WF_breakerVars(RecordSuccess(c) \/ RecordFailure(c))
    /\ WF_breakerVars(BreakerTick)

BreakerFairSpec == BreakerSpec /\ BreakerFairness

-----------------------------------------------------------------------------
(* Properties. *)

BreakerTypeOK ==
    /\ state \in {"closed", "open", "halfOpen"}
    /\ failures \in Nat /\ successes \in Nat
    /\ sinceFailure \in 0..Expired
    /\ executing \subseteq Caller
    /\ sinceOpened \in 0..Expired
    /\ failedInARow \in 0..MaxFailures
    /\ passedInARow \in 0..HalfOpenMax

(* Each counter counts in its own state only and stays short of its        *)
(* threshold: no result is left over from an earlier state, whatever the   *)
(* order in which overlapping calls finish.                                *)
CountersMatchState ==
    /\ failures < MaxFailures /\ successes < HalfOpenMax
    /\ state # "closed" => failures = 0
    /\ state # "halfOpen" => successes = 0

(* The breaker goes from closed to open only after MaxFailures results in  *)
(* a row were failures, and closes by itself only after HalfOpenMax        *)
(* results in a row were successes.                                        *)
OpensAfterFailuresInARow ==
    [][state = "closed" /\ state' = "open" => failedInARow' = MaxFailures]_breakerVars

ClosesAfterSuccessesInARow ==
    [][state = "halfOpen" /\ state' = "closed" /\ ~Reset => passedInARow' = HalfOpenMax]_breakerVars

(* An open breaker rejects for more than OpenTimeout after it opened.      *)
StaysOpen ==
    [][state = "open" /\ state' = "halfOpen" => sinceOpened > OpenTimeout]_breakerVars

(* If from some point on no call fails any more, the breaker closes and    *)
(* stays closed, whatever calls were under way when it opened.             *)
RecoversWhenCallsSucceed ==
    <>[][~\E c \in Caller : RecordFailure(c)]_breakerVars => <>[](state = "closed")
=============================================================================
