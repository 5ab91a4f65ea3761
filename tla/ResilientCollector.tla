------------------------- MODULE ResilientCollector -------------------------
(***************************************************************************)
(* The resilient collector of one pipeline                                 *)
(* (internal/collector/resilient_collector.go): Collect runs a retry loop  *)
(* inside the circuit breaker, so the breaker sees one result per Collect  *)
(* however many attempts it took, and a cancelled or expired context is a  *)
(* failure to it like any other.  The pipeline is the only caller.         *)
(***************************************************************************)
EXTENDS CircuitBreaker

CONSTANTS
    RetryAttempts,   \* attempts per Collect
    RetryDelay,      \* ticks between two attempts
    CycleBudget      \* ticks the cycle's context lives

ASSUME CollectorAssumption ==
    /\ RetryAttempts \in Nat \ {0}
    /\ RetryDelay \in Nat
    /\ CycleBudget \in Nat

VARIABLES
    phase,        \* where Collect is
    attempt,      \* the loop variable
    delayLeft,    \* ticks left of time.After(retryDelay)
    budgetLeft,   \* ticks to the deadline of the cycle's context
    cancelled,    \* the pipeline's context was cancelled
    contacts      \* history: attempts since a Collect last succeeded or the
                  \* breaker last changed its state

collectVars == <<phase, attempt, delayLeft, budgetLeft, cancelled, contacts>>
vars == <<collectVars, breakerVars>>

pipeline == CHOOSE c \in Caller : TRUE

ASSUME SomeCaller == Caller # {}

Init ==
    /\ BreakerInit
    /\ phase = "idle" /\ attempt = 0
    /\ delayLeft = 0 /\ budgetLeft = 0
    /\ cancelled = FALSE
    /\ contacts = 0

CtxDone == cancelled \/ budgetLeft = 0

(* A new cycle calls Collect with a new context, the breaker lets it in.   *)
(* A rejected Collect returns ErrCircuitOpen and changes nothing.          *)
BeginCollect ==
    /\ phase = "idle"
    /\ Admit(pipeline)
    /\ phase' = "check" /\ attempt' = 1
    /\ budgetLeft' = CycleBudget
    /\ contacts' = IF state' = state THEN contacts ELSE 0
    /\ UNCHANGED <<delayLeft, cancelled>>

(* Collect returns and the breaker records its result. *)
Finish ==
    /\ phase' = "idle" /\ attempt' = 0
    /\ delayLeft' = 0 /\ budgetLeft' = 0
    /\ UNCHANGED cancelled

FinishFailed ==
    /\ RecordFailure(pipeline)
    /\ contacts' = IF state' = state THEN contacts ELSE 0
    /\ Finish

(* The check of the context before an attempt. *)
CheckContext ==
    /\ phase = "check"
    /\ IF CtxDone
       THEN FinishFailed
       ELSE /\ phase' = "calling"
            /\ UNCHANGED <<attempt, delayLeft, budgetLeft, cancelled, contacts, breakerVars>>

AttemptSucceeds ==
    /\ phase = "calling"
    /\ RecordSuccess(pipeline)
    /\ contacts' = 0
    /\ Finish

(* Mutant: every attempt counts for the breaker. *)
AttemptFailsCounted ==
    /\ phase = "calling"
    /\ attempt < RetryAttempts
    /\ RecordFailure(pipeline)
    /\ phase' = "waiting" /\ delayLeft' = RetryDelay
    /\ contacts' = contacts + 1
    /\ UNCHANGED <<attempt, budgetLeft, cancelled>>

(* An attempt fails, by itself or because its context ended: wait for the  *)
(* next one, or give up after the last.                                    *)
AttemptFails ==
    /\ phase = "calling"
    /\ attempt < RetryAttempts
    /\ phase' = "waiting" /\ delayLeft' = RetryDelay
    /\ contacts' = contacts + 1
    /\ UNCHANGED <<attempt, budgetLeft, cancelled, breakerVars>>

LastAttemptFails ==
    /\ phase = "calling"
    /\ attempt >= RetryAttempts
    /\ RecordFailure(pipeline)
    /\ contacts' = IF state' = state THEN contacts + 1 ELSE 0
    /\ Finish

(* The select between the context and the retry delay. *)
GiveUpWaiting == phase = "waiting" /\ CtxDone /\ FinishFailed

(* Mutant: the attempts are not counted. *)
RetryAfterDelayUncounted ==
    /\ phase = "waiting" /\ delayLeft = 0
    /\ phase' = "check"
    /\ UNCHANGED <<attempt, delayLeft, budgetLeft, cancelled, contacts, breakerVars>>

RetryAfterDelay ==
    /\ phase = "waiting" /\ delayLeft = 0
    /\ phase' = "check" /\ attempt' = attempt + 1
    /\ UNCHANGED <<delayLeft, budgetLeft, cancelled, contacts, breakerVars>>

(* The pipeline is stopped. *)
Cancel ==
    /\ ~cancelled
    /\ cancelled' = TRUE
    /\ UNCHANGED <<phase, attempt, delayLeft, budgetLeft, contacts, breakerVars>>

(* Time passes; a call under way does not outlive its context. *)
Tick ==
    /\ phase = "calling" => ~CtxDone
    /\ BreakerTick
    /\ delayLeft' = IF delayLeft > 0 THEN delayLeft - 1 ELSE 0
    /\ budgetLeft' = IF budgetLeft > 0 THEN budgetLeft - 1 ELSE 0
    /\ UNCHANGED <<phase, attempt, cancelled, contacts>>

CollectStep ==
    \/ CheckContext
    \/ AttemptSucceeds
    \/ AttemptFails
    \/ LastAttemptFails
    \/ GiveUpWaiting
    \/ RetryAfterDelay

Next == BeginCollect \/ CollectStep \/ Cancel \/ Tick

(* The goroutine runs, time goes on, and until the pipeline is cancelled   *)
(* the ticker brings the next cycle.                                       *)
Fairness ==
    /\ WF_vars(CollectStep)
    /\ WF_vars(~cancelled /\ BeginCollect)
    /\ WF_vars(Tick)

Spec == Init /\ [][Next]_vars

FairSpec == Spec /\ Fairness

-----------------------------------------------------------------------------
(* Properties. *)

TypeOK ==
    /\ BreakerTypeOK
    /\ phase \in {"idle", "check", "calling", "waiting"}
    /\ attempt \in 0..RetryAttempts
    /\ delayLeft \in 0..RetryDelay
    /\ budgetLeft \in 0..CycleBudget
    /\ cancelled \in BOOLEAN
    /\ contacts \in Nat

(* The endpoint is left alone while the breaker is open: with one caller   *)
(* no Collect is between its attempts when the breaker opens.              *)
NoContactWhileOpen == phase # "idle" => state # "open"

(* An endpoint that never answers is contacted at most RetryAttempts times *)
(* for every failure the breaker has counted and for the Collect under     *)
(* way, so MaxFailures * RetryAttempts times at most until it opens.       *)
OutageBudget ==
    contacts + (IF phase = "idle" THEN 0 ELSE RetryAttempts - attempt) <=
        RetryAttempts * (failures + (IF phase = "idle" THEN 0 ELSE 1))

(* However long an outage lasts, a Collect gets past the breaker again and *)
(* again until the pipeline is cancelled: the breaker never locks its only *)
(* caller out.                                                             *)
KeepsProbing == []<>(phase # "idle" \/ cancelled)
=============================================================================
