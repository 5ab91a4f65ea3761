# Verification of the cloud autoscaler

TLA+ models of this repository's concurrent and stateful parts, TLC runs that check them on small
instances, and TLAPS proofs that hold for every value of the constants. Paths below are relative
to the repository's root; `PROJECT.json` maps every definition to the lines it models.

To check: `tlc -workers 2 -config <Run>.cfg <MC module>` for a run, `tlapm <Module>_proofs.tla` for
the proofs of a module.

## 1. The system

The autoscaler watches clusters of servers. For each monitored cluster a *pipeline* collects CPU
and memory samples every few seconds, analyses them, decides, and scales. An HTTP API with a
WebSocket feed manages the clusters and shows what happens. A second program, the *simulator*,
stands in for the cloud: it makes up the samples and is told of every scaling.

```
 api/handlers ──StartCluster/StopCluster──▶ orchestrator ──Start/Stop──▶ pipeline (1 goroutine/cluster)
      │  rows                                   │                          │ collect → analyze → read
      ▼                                         │ Stop: logger, bus        │ state → decide → execute
  clusters table ◀──── boot reads ─── main      ▼                          ▼
                                   event bus ◀── publisher ── resilient collector ─▶ circuit breaker
                                    │      │                          │  decision engine
                              event logger  bridge → hub → clients    │  simulator scaler → state tracker
                                    │                                 ▼       │
                                  database                       simulator ◀──┘ (HTTP, errors ignored)
```

| Component (source) | State | Operations | What is hard about it | What makes it correct |
|---|---|---|---|---|
| Control loop (`internal/orchestrator/pipeline.go`) | running flag, context, the cycle's locals, sustained streaks | Start, Stop, ticker loop, `runCycle` | acts on a snapshot read earlier; one tick may be pending; Stop cancels in the middle of a cycle | minimum kept, changes a cooldown apart, nothing after Stop, Stop returns, lasting load is served |
| Decision engine (`internal/decision/engine.go`) | two timestamps per cluster | Decide, RecordScaleUp/Down, RecordScaling, ResetCooldown | overlapping rules, truncation, clamps | bounded steps and targets, no reversal, monotone in the load but for the emergency's fixed step |
| Server fleet (`internal/scaler/`) | state of each server, sleeping goroutines, mutex | ScaleUp, ScaleDown, transitions | goroutines overwrite states without a check; victims are chosen before an HTTP call | life cycle, one sleeper per transition, victims stay active |
| Circuit breaker (`internal/resilience/`) | state, counters, time of the last failure | Execute in three steps, Reset | two counters and a time stamp over three states; callers may overlap (here each breaker has one) | opens and closes for the documented reasons, stays open, recovers |
| Resilient collector (`internal/collector/resilient_collector.go`) | the attempt under way | Collect: retries in a breaker | deadline, cancellation, delay and breaker race | always returns, spares a dead endpoint, keeps probing |
| Cluster lifecycle (`api/handlers/clusters.go`, `pkg/database/queries/clusters.go`, `orchestrator.go`, `cmd/autoscaler/main.go`) | the table; the map of pipelines, its mutex | Create, Update, Delete, StartCluster, StopCluster, boot, shutdown | handlers interleave between database calls; crash and restart; waiting with a mutex held | table and pipelines agree but for four named causes, deletion ends the monitoring, requests and shutdown end |
| Event delivery (`internal/events/`, `api/websocket/`) | bounded channels, hub's clients, each client's subscription and two pumps | Publish, Close, broadcast, subscribe, leave | closing channels others send on; drops; two publishers per cluster; unsynchronised subscription | no send on a closed channel, order of what is published one after the other, at most one stale event, no blocking, no leak |
| Simulator (`internal/simulator/`, `cmd/simulator/`) | table of clusters, servers, spike; two levels of RWMutex | metrics, list, get, create, update, delete, spike, pattern | recursive read lock, write under a read lock, objects in use after deletion | one state per answer, spikes not lost, every request answered |
| Analyzer (`internal/analyzer/`) | bounded history of samples, streaks of high and low load | Analyze, SustainedTracker.Update | timestamps of another clock; the bound against the trend's window and the spike's minute; a surge stays a spike for a minute; failed and empty collections | samples fit the engine, the bound is invisible, streaks are backed by answers, one surge scales up a bounded number of times |
| Rate limiting (`api/middleware/`) | request times per client, two limiters in a row, a cleanup goroutine each | Allow, cleanup | two prunings of one table, clients that go on while refused | an exact sliding window, idle clients forgotten |
| HTTP collector, auth, config, database setup, migrations, logging, Prometheus, validation, read-only handlers | none that a protocol depends on | – | – | not modelled, see section 7 |

The hazards that the properties are aimed at are listed with their lines in `PROJECT.json`.

## 2. The modules

| Module | Models | Proofs |
|---|---|---|
| `DecisionEngine` | Decide and the cooldowns | `DecisionEngine_proofs` |
| `ServerFleet` | SimulatorScaler and StateTracker | in `Autoscaler_proofs` |
| `Autoscaler` | the pipeline's goroutine, EXTENDS the two above | `Autoscaler_proofs` |
| `ElasticFleet` | what a cluster promises; `Autoscaler` implements it | – |
| `Analyzer` | history, trend, spikes, streaks, EXTENDS `DecisionEngine` | `Analyzer_proofs` |
| `CircuitBreaker` | canExecute / recordSuccess / recordFailure / Reset | `CircuitBreaker_proofs` |
| `ResilientCollector` | Collect, EXTENDS `CircuitBreaker` | in `CircuitBreaker_proofs` |
| `ClusterLifecycle` | handlers, table, orchestrator, process | `ClusterLifecycle_proofs` |
| `ClusterConsistency` | what drives table and pipelines apart, EXTENDS `ClusterLifecycle` | in `ClusterLifecycle_proofs` |
| `RateLimiter` | both limiters and their cleanups | `RateLimiter_proofs` |
| `SlidingWindow` | what a rate limiter promises; `RateLimiter` implements it | – |
| `EventDelivery` | bus, logger, bridge, hub, clients | `EventDelivery_proofs` |
| `Simulator` | the simulator's handlers and locks | `Simulator_proofs` |

`MC*` modules give the constants that a `.cfg` cannot express. Definitions marked `Mutant:` are
plausible wrong versions of a definition of the code; `PROJECT.json` pairs each checked property
with one of them that violates it. They are not part of any specification.

Time, where it matters, is a discrete tick; an age stops counting once it cannot be told from a
larger one, so the state space is finite without losing behaviours. "History" variables record what
a property needs and influence nothing.

### DecisionEngine
`Decide` is one function of the sample, the prediction, the cluster's counts and the two ages;
`sinceScaleUp`/`sinceScaleDown` are the ages of the entries in the engine's two maps (engine.go
keys them by cluster and each pipeline owns its engine). `Analyzed` contains exactly the samples the
analyzer and the sustained tracker can hand out: a spike needs a rise from an average that was not
zero, a streak is present while the average is on its side. CPU values are whole percentages; the
code multiplies floats and truncates, and the two agree below 35 active servers at the default
target. The prediction branch is modelled although the pipeline passes none today.

### ServerFleet
`server` is the tracker's map; an id that is terminated (and never read again) or not yet drawn is
`gone`. `timers` are the sleeping `simulateProvisioning` / `simulateTermination` goroutines, `call`
the scaling that holds the scaler's mutex while it talks to the simulator. `ScaleUpBegin` …
`ScaleDownReturn` are the two halves of each call; `Wake` is UpdateState, which overwrites whatever
it finds. Which active servers a scale-down takes is left open (the code takes the oldest).

### Autoscaler
`pc` walks through `run` and `runCycle`: select → begin → collecting → read → decide → execute →
scaling → record. Between these points other goroutines run: servers change state, the ticker
fires, Stop cancels. With goroutines on time (`TimelyWakeups`) a sleeper wakes in the tick its sleep
ends and the loop decides in the tick in which it has read the state. Collection is the resilient
collector as the pipeline sees it: within the cycle's deadline it fails or yields a sample.
`sinceApplied` is a history variable.
`ElasticFleet` knows only three counts: Grow, Activate, Shrink, Terminate.

### Analyzer
One tick is one collect interval. `history` is the bounded list that `RecordSnapshot` cuts; a sample
is its age and its average CPU. Timestamps come from the source, whose clock may be `lag` intervals
behind or ahead of this process; the streaks use the local clock. `CalculateTrend` compares the sums
of the window's two halves without dividing; `IsBaseline` is the sample that detectSpike compares
with; `EntriesAt` is the filtering loop over the window. A cycle is `Analyze` (or `AnalyzeNoServers`, or `CollectFails`), then `Execute` or `DoNothing`,
then `NextInterval`; the engine's ages are the engine module's own. The history variables are
`samples` (every sample ever recorded), `answers` (every answer ever analysed) and `surge`: how long ago
a spike alone began to scale up, the least load since, and how often such scale-ups have followed each
other without a rise over a sample taken in between.

### CircuitBreaker and ResilientCollector
`Admit` is canExecute, `RecordSuccess`/`RecordFailure` the other half of Execute; `executing` are
the calls in between. The history variables count results in a row over all states.
`ResilientCollector` runs the retry loop between the two halves with the single caller the code
has, its context's deadline and cancellation.

### ClusterLifecycle
Each handler is cut at its database calls and at the orchestrator's mutex: `CreateInsert`,
`CreateStart`; `UpdateRead`, `UpdateWrite`; `DeleteRead`, `StopMissing` / `StopRunning` +
`StopReturns` / `StopStopped`, `DeleteRow`. The table survives `Crash` and `ServerShutdown`, the rest
does not. Database writes may fail; failed simulator calls are ignored by the code and have no
effect here. The pipeline is reduced to running → cancelled → ended; that it ends is what the
`AutoscalerLive` run shows (`StopCompletes`). `GetAll`, `GetByID`, `InsertRow`, `UpdateRow` and
`RemoveRow` are the repository's queries.

`ClusterConsistency` adds two history variables: `apart`, the clusters whose row and pipeline one of
four causes has driven apart (a boot that could not read the table, a status written by Update, a
deletion that overtakes the creation, a deletion whose last step fails), and `late`, the pipelines
started after Orchestrator.Stop.

### RateLimiter
`Allow` and `Cleanup` hold the limiter's mutex from their first line to their last, so each is one
step. `requests` is the table of both limiters, `passing` the logins that the first has let
through and the second has not seen yet; `admitted`, the history variable that `SlidingWindow` takes
for its log, forgets what leaves the window. A limiter decides on its table, which the cleanup prunes
too, and the refinement shows that the decisions are those made on the admissions alone.

### EventDelivery
A cluster has several publishers: its pipeline, and an alert for each opening of its breaker, which the
breaker's callback publishes from a goroutine of its own (circuit_breaker.go:156, orchestrator.go:173–185).
`publishing` has, for each of them, the Publish under the bus's read lock between its subscribers, so any
of them overlap; `queue`, `hand` the two
subscriber channels and the event each has taken; `todo`, `target` the bridge inside
BroadcastToCluster, which holds the hub's lock for reading (`HubLocks` is what the hub waits for).
`clusterID` is written by ReadPump and read by the bridge with no lock: `Seen` is either value, and
`VisitTorn` the torn read of a string of which one value is empty, which ends the process.
`Running` guards every step with that. History: `prior` (what had been published when an event was
begun), `got` (who has received which events), `stale`.

### Simulator
`at` is where a request is in its handler. A lock is a set of `readers` and a `writer` that waits
for, or holds, the lock: a waiting writer keeps new readers out, which is how Go's RWMutex works.
`LockBegin` announces a writer; `MayWrite` is the grant. A write section is one step once the lock
is granted; CollectMetrics and Status read the spike several times under the read lock and are cut
there, because ApplySpike clears it under that same read lock. `Panic` is the nil dereference that
follows when it does so under another reader; net/http recovers after the deferred unlock. An
object is forgotten (and its identity free again) when neither the table nor a request refers to
it. Adding or removing any number of servers is one server here. `CanGoOn` says
which locks keep a request from its next step (it is the enabledness of the handler, as long as there
is an object for a new cluster), and `LocksMakeNoCircle` that the waiting does not go in circles.

## 3. The runs

| Run | Question | Result |
|---|---|---|
| `DecisionEngine` | Are Decide's answers bounded, stable and monotone for every input and pair of cooldown ages? | holds |
| `Autoscaler` | With stale snapshots, pending ticks, slow calls, oversleeping goroutines, emergencies and Stop at any time: are the minimum, the spacing, the servers' life cycle and ElasticFleet's promise kept? | holds |
| `AutoscalerLive` | With goroutines on time and no emergencies: is the maximum kept, does Stop return, is a lasting load served and a lasting idleness used, is what was begun carried through? | holds |
| `AutoscalerEmergency` | Do emergencies respect max_servers? | **violated** |
| `CircuitBreaker` | Three overlapping callers, late results in every state | holds |
| `ResilientCollector` | Retries, deadline, cancellation and breaker together | holds |
| `ClusterLifecycle` | Two overlapping requests over two clusters, failing writes, shutdown, crash, restart: do table and pipelines agree? | holds |
| `Analyzer` | Every order of samples, empty answers, failures and scalings, with a source clock that is right, behind or ahead | holds |
| `RateLimiter` | Two clients before two limiters: are the limiters exact, and do the tables shrink? | holds |
| `EventDelivery` | Events, subscription changes, slow and dying peers, and the shutdown | holds |
| `Simulator` | Overlapping requests of every kind: one state per answer, no spike lost, and no request hangs except in Status | holds |
| `SimulatorStatus` | Is a status request always answered? | **violated** |

Properties by run:

* **DecisionEngine** – `OrdinaryDecisionsAreBounded`: an ordinary scale-up is by 1..MaxScaleStep and
  within MaxServers, a scale-down by exactly one and not below MinServers. `NoReversal`: the cluster
  a decision leaves behind is not scaled back on the same sample (spikes excepted: at MaxServers a
  spike falls through to the scale-down rule). `MoreLoadNeverTargetsLess`: of two samples that
  differ in load only, the busier never gets the smaller target, while the cluster is within its
  maximum; excepted is an emergency against an ordinary load, which is only sure of its fixed 3
  servers (see section 6).
* **Autoscaler** – `MinServersKept`; `VictimsStayActive`; `ScalingsAreSpaced` (measured when the
  servers change, not when the decision is made); `NothingAfterStop`: no cycle after the one that the
  cancellation met changes anything, though the select may still take a pending tick, and after Stop
  has returned the loop does not move; `KeepsPromise` (refinement of ElasticFleet).
* **AutoscalerLive** – `WithinMaxServers`, `StopCompletes`, `OverloadServed`, `IdleReleased`,
  `KeepsPromiseFairly` (the refinement with ElasticFleet's fairness: what is begun is carried through).
* **Analyzer** – `SamplesFitEngine`: what reaches the engine is an input for which its theorems are
  stated. `BoundIsInvisible`: trend and spike are what an unbounded history would give.
  `StreaksAreBacked`: the single timestamp of a streak is the age of the first answer of the latest
  run of answers on its side. `SurgeScaleUpsBounded`: as long as the load has
  not risen over a sample taken since, the n-th further scale-up that only a spike asks for comes at
  least n cooldowns after the first and within the minute (by the source's clock) in which the surge
  counts as a spike. A cooldown that outlasts the minute thus leaves one scale-up per surge, one of a
  minute (config.prod.yaml:41) two, one of 30 s (config.dev.yaml:41) three.
* **CircuitBreaker** – `OpensAfterFailuresInARow`, `ClosesAfterSuccessesInARow`, `StaysOpen`,
  `RecoversWhenCallsSucceed`.
* **ResilientCollector** – `NoContactWhileOpen`, `OutageBudget` (an endpoint that never answers is
  contacted at most MaxFailures × RetryAttempts times before it is left alone), `KeepsProbing`.
* **ClusterLifecycle** – `MonitoredIffActive`: while the process serves and no request has the cluster
  in hand, its loop runs and can be stopped exactly if its row is active, but for the four causes
  above. `OnlyLateStartsSurviveStop`: Orchestrator.Stop stops everything that was not started after
  it. `DeletionStopsLoop`: when a deletion comes to its row, the loop has returned from its last cycle; only
  if the shutdown had cancelled it first does the deletion not wait (Pipeline.Stop returns at once to its
  second caller), and then the shutdown's goroutine still does (for clusters whose creation had been
  answered when the deletion found them). `DeletedStaysDeleted`, `RequestsComplete`, `ShutdownCompletes`.
* **RateLimiter** – `ImplementsSlidingWindow` (refinement: a request is admitted exactly when fewer
  than the limit were admitted in the window that ends with it, whatever was refused or cleaned up
  in between), `IdleClientsForgotten`.
* **EventDelivery** – `NoSendOnClosed`; `InOrder`: nobody receives an event after one whose publication
  began when its own had returned, and nobody receives one twice (events published at once may arrive in
  different orders); `AtMostOneStale`, `BridgeKeepsUp`, `ClientsLeave`.
* **Simulator** – `ReadersSeeOneState`, `RunningSpikeKept`, `OnlyStatusHangs`.

### Bounds, and why they are enough

* *DecisionEngine*: CPU levels on both sides of every threshold the rules compare with, server
  counts 0–3, in the middle, at 20 and around MaxServers, every trend, spike, streak and prediction class;
  the scale step is the production configuration's 5, larger than an emergency's 3.
  The rules compare and clamp, so an input between two levels behaves like one of them, except in
  the quotient, for which the theorem covers all values.
* *Autoscaler*: one to three servers with five ids (four in `AutoscalerLive`), cooldowns of 3 and 2
  ticks, provisioning and draining shorter than both, an HTTP timeout as long as the collect interval
  (so that a tick becomes pending during a call). Steps of 1, 2 and (in an emergency) 3 all occur. Ids beyond the initial ones are interchangeable (symmetry); no symmetry
  in the run with liveness properties. The id set bounds how many servers can exist at a time:
  `ScaleUpBegin` is disabled when no ids are left. The safety properties are proved without that
  bound.
* *Analyzer*: loads of 0, 50 and 90 % lie below, between and above the thresholds and rise by nothing,
  by less and by more than the spike's 50 %. A history of five just covers a window of three and a
  minute of two intervals with a clock one interval off; one sample less is visible (the mutant). The
  cooldown is as long as that minute, as in production, so that a surge does scale up twice, as late
  as the bound allows.
* *RateLimiter*: two clients, a window of two units, limits of 2 and 1, one login of a client in
  flight: every limit is reached in every window, and a cleanup can fall on either side of any request.
* *CircuitBreaker*: the module's callers overlap, as its mutex and its public interface allow; that is
  more than the program does, where each breaker has its collector as the only caller, the case of
  *ResilientCollector*, whose breaker is shown to be this one. Three callers suffice for a result to arrive after the breaker has opened *and*
  half-opened; thresholds 3 and 2 differ. *ResilientCollector*: three attempts and a
  budget that can end before any of them.
* *ClusterLifecycle*: two clusters and two requests: a creation and a deletion of the same cluster,
  or of two clusters that compete for the mutex. An id is created once, so restarts and
  crashes need no bound.
* *EventDelivery*: one cluster with an event of its pipeline and an alert, published one after the other
  in either order or overlapping; one client, channels of 1: full channels, reordering, repetition and a
  stale event are all possible. `InOrderHolds` covers any number of events and publishers. A second client would only be visited
  before or after the first. Deadlock is not checked: the model ends when its events are used up.
* *Simulator*: two requests, one name, three objects (the one in the table and one held by each
  request), up to one server, a body that adds and removes. Two requests suffice for the deadlock
  of Status; that a listing then holds the table while it waits, and so stops requests for all
  clusters, needs a third one, and `LocksMakeNoCircleHolds` covers any number. Deadlock is not checked
  because this program has one (`SimulatorStatus`); `OnlyStatusHangs` says it has no other.

### Fairness, and why the code justifies it

* Goroutines that can run are run (weak fairness) – everywhere. Time goes on (weak fairness of the
  ticks); the ticks are disabled only while something the code bounds by a timeout is overdue.
* `Autoscaler`: the select between the cancelled context and a pending tick is uniformly random, so
  a loop that finds both ready again and again leaves in the end: strong fairness of `SelectDone`.
  Nobody is made to call Stop, and no collection is made to succeed: `OverloadServed` and
  `IdleReleased` assume that samples keep coming.
* `CircuitBreaker`: callers call again and calls end. `ResilientCollector`: the ticker brings the
  next cycle until the pipeline is cancelled.
* `ClusterLifecycle`: handlers, stopper goroutines, the shutdown. Weak fairness suffices for the
  mutex because each pipeline is stopped once in the life of a process (`StoppedOnceHolds`).
* `Analyzer` states no fairness. `RateLimiter`: time and the cleanup goroutines; clients owe nothing.
* `EventDelivery`: bridge, readers, writers (writes have a deadline). A closed connection yields
  what it has buffered and then an error: strong fairness of `ReadFails` after the writer ended.
  Publishers, the database and peers owe nothing.
* `Simulator`: strong fairness per handler: Unlock lets the waiting readers in before the next
  writer, and writers queue on a sync.Mutex, whose starvation mode is first come first served.
  Clients owe nothing.

## 4. What is proved

Every theorem below holds for all values of the constants that satisfy the named assumptions of the
modules: `ConfigAssumption`, `InputAssumption` (what the validator and the table's CHECK constraints
accept), `FleetAssumption`, `LoopAssumption`, `InitialAssumption` (a cluster starts at its minimum),
`AnalyzerAssumption`, `BreakerAssumption`, `CollectorAssumption`, `SomeCaller`, `FreeIsNoRequest`,
`BuffersAssumption`, `NoneAssumption`, `NamesAssumption`, `WindowPositive`, `LimitsPositive` and
`InFlightNatural`. TLC evaluates each in the runs of its module. Some theorems have a hypothesis
about the configuration of their own: `NoReversalHolds` and `CycleKeepsEnginePromises` need a low threshold that is not above the
analyzer's fixed critical one (`LowIsNotCritical`; the validator accepts thresholds up to 100),
`WithinMaxServersHolds` goroutines on time, a cooldown longer than the provisioning and no emergencies
(`TimelyConfig`), `BoundIsInvisibleHolds`
a history that covers window and minute with the source's lag added (`HistoryCovers`; the defaults, 30
samples 10 s apart for a window of 5 minutes, satisfy it exactly, and not when the source's clock is
ahead by an interval), and `LoopImplementsFleet` and `LoopKeepsFleetPromises` a `MaxRequest`, the
bound of the fleet's own model, that is not below the largest step of the loop (`FleetServesLoop`).
`AutoscalerLive` satisfies `TimelyConfig`, and the runs of each other hypothesis' module satisfy it.

| Theorem | Statement |
|---|---|
| `EngineTypeCorrect`, `OrdinaryDecisionsAreBoundedHolds`, `NoReversalHolds`, `MoreLoadNeverTargetsLessHolds` | for every configuration, sample, prediction and cluster state |
| `FleetTypeCorrect`, `SleepersMatchStatesHolds`, `VictimsStayActiveHolds`, `LifecycleHolds` | for any finite set of servers and any delays |
| `LoopTypeCorrect`, `MinServersKeptHolds`, `ScalingsAreSpacedHolds`, `NothingAfterStopHolds`, `KeepsPromiseHolds` | for the composed loop; the last is the refinement of ElasticFleet |
| `LoopImplementsEngine`, `LoopImplementsFleet`, `LoopKeepsFleetPromises` | every step of the loop is a step of the engine and of the fleet or leaves them alone, so what is proved of them holds in the loop |
| `WithinMaxServersHolds` | changes do not overlap: active and provisioning servers stay within the maximum under `TimelyConfig` |
| `AnalyzerTypeCorrect`, `SamplesFitEngineHolds`, `StreaksAreBackedHolds`, `BoundIsInvisibleHolds`, `SurgeScaleUpsBoundedHolds` | for any loads, windows, bounds and lags |
| `CycleImplementsEngine`, `CycleKeepsEnginePromises` | the analyzer's cycle uses the engine as specified, so its decisions are bounded and not undone |
| `BreakerTypeCorrect`, `CountersMatchStateHolds`, `StaysOpenHolds`, `OpensAfterFailuresInARowHolds`, `ClosesAfterSuccessesInARowHolds` | for any set of callers and any thresholds |
| `CollectorTypeCorrect`, `NoContactWhileOpenHolds`, `OutageBudgetHolds` | for any attempts, delays, deadlines and thresholds |
| `CollectorImplementsBreaker`, `CollectorKeepsBreakerPromises` | the collector's breaker is the breaker: it opens, closes and stays open as promised |
| `LifecycleTypeCorrect`, `NoLostLoopHolds`, `DeletionStopsLoopHolds`, `DeletedStaysDeletedHolds`, `MonitoredIffActiveHolds`, `OnlyLateStartsSurviveStopHolds` | for any number of clusters and concurrent requests, with crashes |
| `NobodyStuckHolds`, `StoppedOnceHolds` | nobody waits for ever on the orchestrator's mutex, and it is taken at most once for each pipeline of a process |
| `LimiterTypeCorrect`, `NeverOverLimitHolds`, `RefinesSlidingWindow` | for any clients, limits and window; the last is the refinement of SlidingWindow |
| `DeliveryTypeCorrect`, `NoSendOnClosedHolds`, `InOrderHolds`, `AtMostOneStaleHolds` | for any clusters, alerts, clients, numbers of events and buffer sizes |
| `SimulatorTypeCorrect`, `ReadersSeeOneStateHolds`, `RunningSpikeKeptHolds`, `LocksMakeNoCircleHolds` | for any number of requests, names and objects |

None of the invariants is inductive by itself. The strengthenings, each in its proof module:

* **Fleet** (`FleetInv`): sleepers and states correspond, a call's victims are active, and a call is
  either none or complete. The lemmas are per action, so the loop's proof cites them.
* **Loop** (`IInv`): a scale-down removes a server counted two steps before. `SnapshotIsLowerBound`
  and `DecisionStands` say what of a snapshot and of a decision still holds at each place of the loop
  (active servers are only added between reading and the end of the call, and only the loop starts a
  call); `CooldownsCoverChanges` relates the engine's clocks, set when a change is recorded, to
  `sinceApplied`, set when it happens, which is what `ScalingsAreSpaced` is about. The refinement
  proof shows for each action that the counts of active, provisioning and draining servers make
  a step of ElasticFleet or stay as they are. For the maximum (`MaxInv`), sleep and cooldown pass
  together, so outside the cooldown nobody provisions, the snapshot is exact and the target of a
  scale-up counts every server.
* **Breaker** (`BreakerInv`): `HistoryCovers` relates the breaker's counters and `lastFailTime` to the
  results in a row and to the time since it opened.
* **Engine**: `DecideCases` names the answer of each rule; `RulesExclude` shows that no sample without a
  spike asks for both directions, whatever the counts are; `StepIsMonotone` and `RulesAreMonotone` carry
  an order of two samples through the quotient and through the rules.
* **Analyzer** (`SurgeInv`): `FloorCovers`: some tail of the history, which reaches back to the first
  sample after the surge began or is the whole history, is nowhere below the surge's `floor`. A further
  scale-up without a rise needs a baseline before that tail, which the rules look for at most a minute
  back. `ScaleUpsAreApart`: the scale-ups of a surge fit into its age, one cooldown each, since the
  engine's clock starts anew with every one of them. `AnswersInv`: each streak is `Backed` by the run of answers on its
  side, of which the log forgets only answers that are older than any duration. `HistoryInv`: history
  and log are the same from their ends backwards, samples are an interval apart, and what one of them
  lacks is older than window and minute; `SameView` then says that trend and spike agree. The
  window's entries are picked by rank (`EntriesAt`), so that the proof needs bijections between finite
  sets (`ShiftedCardinality`, `RankExists`) and no induction.
* **Collector** (`CollectorInv`): `BreakerInv`, `AttemptsMatchPhase` (how many attempts a call has made
  at each place of the retry loop) and `ContactsAccounted` (the contacts since the last success are
  paid for by the breaker's failures and the attempts of the call under way).
* **Rate limiter** (`LimiterInv`): `TableIsAdmitted`: inside the window the table holds exactly the
  admissions, so pruning changes no decision.
* **Lifecycle** (`StopInv`): a loop that has been told to end and has not ended is waited for by the
  shutdown or by the one deletion that has the mutex (`CancelledIsAwaited`), so a deletion past its stop
  has seen it end or met the shutdown. `IInv`: `DownMeansEmpty` (no process, no memory), `OnlyCreated` (rows and
  requests concern ids that were created), `NotOvertaken` (a request that stops a cluster and was not early
  cannot be overtaken by its start). For `ClusterConsistency`: `AgreesOn` (the agreement, weakened for
  the clusters that a request has in hand by what the request has done so far), `WaiterHoldsMutex` and
  `StopCovers` (what Orchestrator.Stop collected covers every pipeline that is not late). For the mutex:
  `MutexInv` (who waits for a pipeline holds it, and nobody else does, and that pipeline has been told to
  end) and `StartedOnce` (a creation under way is the only one of its cluster, whose pipeline has never
  been started, so StartCluster's error is unreachable).
* **Delivery** (`IInv`): `BusHeldOpen` and `HubHeld` (a publisher under way keeps the bus open, a
  broadcast under way keeps its clients in the hub), `ReadersRegistered` (a client whose ReadPump runs is registered), `StaleOnce` (a
  client already sent a stale event is not the target of another). `OrderInv`: each place on an event's
  way, channel, bridge, client's channel, log, holds only events that may come after those of the place
  behind it, and only events that their publishers have already offered to that subscriber. An event that
  is yet to be offered is therefore behind none that was begun after it had been published.
* **Simulator** (`IInv`): `ReadersInside` and `ReadersHeld` (the readers of a lock are exactly the
  requests inside its read sections), `JobsFit` (a request carries its cluster wherever it needs it),
  `SpikesReachable` (an object nothing refers to has no spike) and `OverStaysOver`: a spike that a
  collection found to be over does not run again until the collection has cleared it, because
  InjectSpike needs the write lock. That is why clearing under a read lock loses no spike. For the
  locks, `LockInv`: a writer of the table is about to write it, a writer of a cluster is changing it,
  and the only request that holds the table while it waits is a listing. So whoever waits for a
  cluster waits for a request that waits for nothing, or that Status has caught (`ClusterClears`), and
  whoever waits for the table waits for at most one listing in between (`NoCircle`).
* **Loop, cycle and collector as refinements** (`LoopStepsEngine`, `LoopStepsFleet`, `CycleStepsEngine`,
  `CollectorStepsBreaker`): action by action, with the composed module's invariant where an action's
  inputs have to be among those the component's own model enumerates.

## 5. What is only model-checked

Liveness under fairness is beyond the prover: `StopCompletes`, `OverloadServed`, `IdleReleased`,
`KeepsPromiseFairly`, `RecoversWhenCallsSucceed`, `KeepsProbing`, `RequestsComplete`,
`ShutdownCompletes`, `BridgeKeepsUp`, `ClientsLeave`, `OnlyStatusHangs`, `IdleClientsForgotten`.
Of three of them the safety half is proved: `NobodyStuckHolds` and `StoppedOnceHolds` (for
`RequestsComplete` and `ShutdownCompletes`: there is always somebody who can go on, and the mutex comes
free for good) and `LocksMakeNoCircleHolds` (for `OnlyStatusHangs`). What is left to TLC is that who
can go on does. `CanGoOn` stands for ENABLED, which the prover does not know either; on small
instances of the two modules the two agree in every reachable state.

Conversely `SleepersMatchStates`, `Lifecycle`, `CountersMatchState`, `NoLostLoop`, `NeverOverLimit`,
`NobodyStuck`, `StoppedOnce`, `LocksMakeNoCircle` and the modules' type invariants are proved and, being
either implied by what is proved with them or half of a property that is run, listed in no run.

## 6. Disagreements between the code and what the repository says

1. **`AutoscalerEmergency` / `WithinMaxServers`.** README.md:246 promises "Min/max server limits and
   maximum scale step size". An emergency does not ask for room (engine.go:90) and its target is
   clamped against the *active* servers, so a second emergency before the first's servers are up takes
   the cluster above max_servers. 2. **`SimulatorStatus` / `StatusAnswered`.** Status holds the cluster's read lock and asks for it again
   in ServerCount (cluster.go:286, 319, 273). A writer that waits in between blocks it for ever.

Three sentences of README.md are contradicted where a property has an exception or a bound, without a
run that shows a violation:

* README.md:244, "Emergency Scaling: Rapid scale-up when emergency thresholds are breached". An emergency
  adds a fixed 3 servers (engine.go:92), whatever max_scale_step says; an ordinary step may be larger.
  With max_scale_step 5 (config.prod.yaml:48) and 20 servers, 94 % asks for 5 more and 95 % for 3.
  `MoreLoadNeverTargetsLess` excepts exactly this, and the `DecisionEngine` run contains it.
* README.md:245, "Cooldown Periods: Prevent flapping with configurable cooldown between actions". One
  surge counts as a spike for a minute (analyzer.go:216), so a cooldown that is not longer lets it scale
  up again with no further rise: up to three times with the 30 s of config.dev.yaml:41, twice with the
  60 s of config.prod.yaml:41. `SurgeScaleUpsBounded` is that bound.
* README.md:243, "Sustained Pattern: Require sustained high/low usage before scaling". A low average with
  a stable or falling trend scales down at once (engine.go:203–206), as a spike scales up at once.

Met while modelling, without a document that says otherwise: a creation and a deletion that overlap
can leave a pipeline for a cluster that does not exist (clusters.go:267, 387; `DeletionStopsLoop`
excludes exactly this case); a failed deletion of the row leaves an active cluster unmonitored until
the next boot (393); pausing a cluster or changing its limits does not reach its pipeline (337);
of two overlapping updates one is lost (298, 349); StopCluster waits with the orchestrator's mutex
held (orchestrator.go:226–234), so Orchestrator.Stop's timeout does not cover its own wait for the
mutex; a second caller of Pipeline.Stop returns without waiting (pipeline.go:73–76); the events
of a pipeline and the alerts of its breaker are published concurrently (circuit_breaker.go:156), so the
database and the clients may get two of them in opposite orders; a client can be sent one event against its subscription (hub.go:88);
the unsynchronised `clusterID` can crash the process (`VisitTorn`); `websocket.max_connections` is
configured and enforced nowhere; a stopped event logger leaves what it has buffered; nothing
calls CleanupTerminated, so terminated servers stay in the tracker (state_tracker.go:187); the
validator accepts every positive collector interval (validator.go:41–43), but pipeline.go:111 takes
one second off it for the cycle's deadline, so an interval of one second or less never collects;
main.go:143 says that shutting down the orchestrator "stops all pipelines", but the API still serves
then and StartCluster does not ask whether the orchestrator has stopped (orchestrator.go:159;
`OnlyLateStartsSurviveStop` allows exactly this); samples carry the source's
timestamps but are compared with the local clock (analyzer.go:155); cpu_low = 0 means 0 for the
sustained tracker and the default of 30 for analyzer and engine; nothing writes the `servers` table, so
the counts of GetStatus are those of the seed data; migrations 001 and 002 cannot be repeated;
docker-compose.yml:97 starts the program with `-migrate` to "Run migrations on startup", with which
main returns after migrating; in the simulator
a metrics request re-creates a deleted cluster with default settings, and clearing a spike under
the read lock makes overlapping readers panic (recovered by net/http).

## 7. What is not modelled, and why

* *No state or protocol*: HTTP collector and mock (one call, its outcomes are in
  `ResilientCollector`), authentication, CORS and security headers, configuration loading (its rules are
  the assumptions), database connection and migrations, logging, Prometheus, validation, the
  read-only handlers, the simulator's load formulas (floating point without state).
* *Never called by the program*: RemoveServer, CleanupTerminated, WaitForActivation,
  StartAllClusters, Subscribe by type, Hub.Broadcast, memory spikes and SetMemoryCorrelation, the
  analyzer's GetHistory, ClearHistory, Reset and durations, and EndpointRateLimiter.
* *Abstracted*: contents of samples beyond CPU, trend and spike; formats; the event kinds; the
  cluster row beyond its status; the simulator's calls from the scaler and the handlers (their
  failures are ignored by the code, so nothing the autoscaler tracks depends on them).
* *Without effect*: a PUT to the simulator whose body cannot be parsed (answered with an error before
  anything is changed).
* *Not composed*: the fleet with the simulator. The scaler ignores the failure of its calls
  (simulator_scaler.go:70), so the two counts can drift apart and nothing in the code compares them.

## 8. Plan

Done, in this order: the engine, the fleet, the loop and its promise; breaker and collector; the
cluster lifecycle; event delivery; the simulator; the analyzer before the engine; the agreement of
table and pipelines; the rate limiters; the proofs of the engine's, the collector's and the order
properties and of the maximum; the proofs about streaks and history, about the locks and the mutex, and
that loop, cycle and collector implement engine, fleet and breaker. Every invariant and every action
property of a passing run is now a theorem. The order followed how much depends on a component and how many actors meet in
it. What could follow:

1. `ClusterLifecycle` with the pipeline's phases in place of the three loop states, so that the two
   callers of Pipeline.Stop and the wait with the mutex are seen together with a slow scaling call.
2. `Drift`: `ServerFleet` and the simulator's counts composed over lossy calls: what failed and late
   calls make of the two counts, and whether anything brings them together again.
3. The safety halves of `BridgeKeepsUp`, `ClientsLeave` and `StopCompletes`, as for the mutex and the
   locks: who holds the hub's lock needs nobody, and a cancelled loop is never disabled for good.
4. The migrator, whose scripts run one by one without a transaction around them all.
