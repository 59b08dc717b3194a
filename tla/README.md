# Argo CD Autoscaler: a verification project

TLA+ models of the controllers of this repository, checked with TLC on small
instances, and theorems about them proved with TLAPS for every instance.
Paths in this file are relative to the root of the repository;
`CTRL` stands for `src/internal/controller/autoscaler`.

## 1. The system

The operator decides how many replicas the Argo CD application controller
should have and which replica takes care of which cluster. It is a pipeline of
Kubernetes controllers that never call one another: each reads the `status` of
the one before it (through the informer cache) and writes its own, and a watch
on the object before it enqueues it. The last two close the loop: the scaler
writes the `spec` of the shard manager, whose `status` is what the poll starts
from.

```
   SecretTypeClusterShardManager  <---------------- spec.replicas ----------------+
        | status.shards                                                           |
        v                                                                         |
   PrometheusPoll -> RobustScalingNormalizer -> WeightedPNormLoadIndex            |
        values            values                     values                       |
                                                       v                          |
   ReplicaSetScaler <- MostWantedTwoPhaseHysteresisEvaluation <- LongestProcessingTimePartition
        |                 status.replicas                          status.replicas
        |  spec.replicas and ARGOCD_CONTROLLER_REPLICAS of the StatefulSet
        v
   StatefulSet argocd-application-controller --> pods
```

Every `Reconcile` reads a cache that lags behind the API server, is refused any
write whose copy is outdated (optimistic locking), may be interrupted by a
crash of the process, and runs at most once at a time for one object. All are
rate limited to one call in `GlobalRateLimit` (5 s, in memory), and all use
`GenerationChangedPredicate` on their own object: a change of their own status
does not wake them. But for the end of the rate limit only the poll and the
scaler ever ask to be called again after a while; the other stages and the
shard manager depend on events and returned errors alone.

### Components, their state and what makes them correct

| Component | State | Operations | Correct when |
|---|---|---|---|
| Secret Type Cluster Shard Manager (`CTRL/secrettypeclustershardmanager_controller.go`) | secrets' `data.shard`; `status.replicas`, `status.shards`, Ready | `Reconcile` (list, plan, update one secret after the other, report), `mapClusterSecrets` | it reports a plan only when the secrets hold it; it never goes to sleep on an outdated secret or report; whatever fails, it arrives |
| Replica Set Scaler (`CTRL/replicasetscaler_controller.go`) | `status.replicas` (the plan adopted), Ready; writes the manager's `spec` and the StatefulSet | `Reconcile` in modes default, rollout restart, X-0-Y; pause; `scaleTo`, `restart`, enforcement; three map functions | the plan published is in place in the end; in X-0-Y no two pods disagree on the number of replicas and the shards move while nothing runs; otherwise shards first, replicas second |
| Most Wanted Two-Phase Hysteresis Evaluation (`CTRL/mostwantedtwophasehysteresisevaluation_controller.go`) | `history`, `projection`, `replicas`, `lastEvaluationTimestamp`, Ready; `lastReconciled` in memory | `Reconcile` (sample, trim, count, project, elect) | elections keep the stabilization periods and elect plans wanted recently; a plan wanted steadily is published |
| Longest Processing Time partitioner (`src/partitioners/longestprocessingtime`) | none; a pure function | `LoadIndexesDesc.Sort`, `Partition` | each shard is assigned once, limits hold, no replica is wasted |
| Prometheus Poll (`CTRL/prometheuspoll_controller.go`, `src/pollers/prometheus`) | `status.values`, `lastPollingTime`, Ready; `lastReconciled` in memory | `Reconcile` (poll, or wait for the rest of the period) | values of every shard and metric, not older than a period; no poll is repeated without need |
| Robust Scaling Normalizer (`CTRL/robustscalingnormalizer_controller.go`, `src/normalizers/robustscaling`) | `status.values`, Ready | `Reconcile`; median, quartiles, positive offset | the status is the function of the provider's, in the end; values compare across metrics, whatever their units |
| Weighted p-Norm Load Index (`CTRL/weightedpnormloadindex_controller.go`, `src/loadindexers/weightedpnorm`) | `status.values`, Ready | `Reconcile`; weighted p-norm | the same; more work is more load |
| Longest Processing Time partition controller (`CTRL/longestprocessingtimepartition_controller.go`) | `status.replicas`, Ready | `Reconcile` | the status is the function of the provider's, in the end |
| References (`CTRL/ref_finder.go`: `findByRef`) | none | lookup by kind | - |
| Process start-up (`src/cmd/main.go`) | none kept | start, stop, leader election | a restart loses nothing |
| Generated code, manifests, dashboards, tests | - | - | - |

### What is hard to test here

`PROJECT.json` lists the hazards at their lines. The ones that shaped the
models: copies older than the server's objects; one secret of several refused;
a plan replaced while the previous one is being carried out; the phase of the
X-0-Y transition being inferred at each call from four objects, none of which
stores it; each early return needing either an error, a delay or an event to
come; answers lost after the call took effect; `status.replicas` of a
StatefulSet lagging behind its pods; trimming, counting and electing acting on
one another; a history of hashes of which only two plans are known in full; a
single delayed entry per object in the work queue, which the rate limit, the
retry and the period of the poll share and a restart forgets; queries that run
while the shards change; lookups that fail for a moment and are taken for an
object that does not exist; map functions that fail for a moment and lose the
event; totals that are rounded and compared again; median and quartiles of very
short lists.

## 2. The modules

| Module | Models | Lines |
|---|---|---|
| `ShardAssignment` | the contract of a shard manager towards its readers | abstract |
| `ShardManager` | the Secret Type Cluster Shard Manager | `Reconcile`, watches, cache, API server, crashes |
| `ShardManagerProofs` | theorems | |
| `ReplicaSetScaler` | the Replica Set Scaler, composed with `ShardAssignment` as the manager, a StatefulSet controller and users | `Reconcile` in its three modes |
| `ReplicaSetScalerProofs` | theorems | |
| `StabilizedElection` | what an evaluator promises to the scaler | abstract |
| `MostWantedEvaluation` | the hysteresis evaluation | `Reconcile`, rate limit, restarts |
| `MostWantedEvaluationProofs` | theorems | |
| `LongestProcessingTime` | the partitioner | `Sort` with its binary search, `Partition` |
| `LongestProcessingTimeProofs` | theorems | |
| `FoldTheorems` | facts about sums and products over finite sets, which two modules' proofs rest on | |
| `PrometheusPoll` | the poll | `Reconcile`, its clocks and work queue, the queries |
| `PrometheusPollProofs` | theorems | |
| `PipelineStages` | normalizer, load index and partition controllers, composed along their references | `Reconcile` of each, watches, cache, crashes |
| `PipelineStagesProofs` | theorems | |
| `LoadIndexing` | what the normalizer and the load index compute | `Normalize`, `Calculate` |
| `LoadIndexingProofs` | theorems | |
| `MC...` | constants for TLC | |

`PROJECT.json` maps each definition to the lines it stands for. In all modules:

* A *plan* (list of replicas with their shards) is one value; a constant gives
  its size. In `ShardManager` it is a relation of shards and replica numbers,
  so that a plan which gives one shard two numbers can be expressed: the code
  refuses it.
* The API server's version numbers are abstracted to what they decide: whether
  a copy is still the server's (`lagging`, `managerLag`, `current`, and the
  fields `stale` and `fresh` of a Reconcile under way). A write from an
  outdated copy is refused; that is not a fault and not bounded.
* A fault (failed call, lost answer, crash) takes one of `MaxFaults`. A lost
  answer is a call that took effect and returned an error.
* Labels, conditions' messages, events, metrics and logs are left out. Of the
  Ready condition the status is kept, and in `ShardManager` its reason.

**ShardManager.** `BeginReconcile` is everything up to the first update: get,
list, check, compute `secretsToUpdate`. Since the client reads the cache and
nothing else, those reads are one step on the cached copies. `WriteSecret` and
`WriteSecretFails` are the loop of updates, `Report` and `ReportFails` the
status updates on each of the paths. The order of the updates is that of a
list from the cache, therefore any. `DeliverSecret` and `DeliverManager` are
the watches with their predicates; `LoseSecretEvent` is a watch event whose
`mapClusterSecrets` could not list the managers (lines 297-300): the cache has the
secret, nobody is enqueued. `ReadsAs` is the number as the code reads it, cut to
32 bits; `Wide` are numbers that this changes.

**ReplicaSetScaler.** A `View` is what one Reconcile has read. The phases
(`Zeroing`, `Reviving`, `Proceeding`, ...) are the conditions of the code in
their order; each action named after a phase does the writes of that branch.
There are two writes to other objects in a call at most (the manager's `spec`,
then the StatefulSet), so a Reconcile is `Begin`, possibly
`ContinueAssigned`, and `Report`. Other actors act between these.
The manager is the contract `ShardAssignment`, which `ShardManager` is shown to
implement. `Notify` is one of the three map functions, which may fail to list the
scalers (lines 829-833, 867-871, 905-909). Kubernetes creates, deletes and counts pods one at a time;
replicas of a StatefulSet start in any order (that is more than the default
`OrderedReady` policy allows).

**MostWantedEvaluation.** Time passes in units of the rate limit, which lets
one sample be taken in a unit, save after a restart. `sampledAt` and
`steadySince` are what an observer notes, for the properties; no action of the
controller reads them. A report of the partition may fail to ask for a sample
(`Notify`, lines 487-491).

**LongestProcessingTime.** A state is the partition so far; `Place` is one
iteration. `Descending` is what the unstable `sort.Sort` may give on a list
that came in any order. Loads are natural numbers of the smallest unit of a
`resource.Quantity` (10^-9), and the p-norm of a positive offset
(`src/DESIGN.md:218-224`) is not negative. Totals are added in floating point, so
a sum may be off, by less than half a unit as long as it is below about a
million: `FloatSum` takes it, in halves of a unit, for any of those that compare
and round differently (`Errors`). `Joined` then rounds it up to a whole unit, as
`ParseQuantity` does.

**PrometheusPoll.** Time is relative: the age of the last poll, what is left of
the one delayed entry of the work queue (`timer`; `Earlier` is `AddAfter`, which
keeps the earlier time) and of the rate limit (`cool`). A Reconcile is one step
on the cached copies, and if it polls, a `Query` whose `Answer` comes later,
while shards and metrics may change, and `Report`. Shard lists and
configurations are abstract values; what the code compares are the UIDs and the
IDs in them (`ObservedAgain`), so that a list can differ from another in the
names only. `outpaced` is noted by an observer: the last Reconcile began before
the watch had shown the status written by the one before it. `DeliverManager`
loses the event if its map function cannot list the polls (lines 329-333).

**PipelineStages.** Any graph of references between polls and the three kinds
of stages; one action per step of each stage's Reconcile. The kinds differ in
what they watch (`Watches`: the registries of `CTRL/controllers.go`) and in the
order of their tests (`Verdict`); what they compute is a constant function that
may fail. A status that is written again with equal contents may or may not be
a new version, because the values come in the order of a Go map. A lookup that
fails for a moment is an action of its own (`BeginWithFailedLookup`), and so is
an event that one kind's map function fails to map (`DeliverUnmapped`): the other
kinds hear of it.

`missed`, in four modules, is noted by an observer: an event was lost to a map
function and there has been no Reconcile since. No action of a controller
reads it; the properties use it to say what is claimed all the same.

**LoadIndexing.** Exact fractions: whole numbers over a common `unit`. A load is
kept as its p-th power, which orders shards in the same way. The two actions,
`Normalize` and `Calculate` or the second alone, are checked against what the
numbers are for rather than against a second copy of the formulas.

## 3. What the runs check

Eight runs pass; each of the other four checks one statement of the
repository's documents, comments and tests, which the code does not keep
(section 5). Every property of a passing run has a mutant in `PROJECT.json`: a
plausible mistake in the code (an error swallowed, a test on `spec` in place of
`status`, a limit off by one, ...) with which TLC finds it violated under the
same configuration. The mutated operators stand beside the right ones, marked
"Mutant:".

| Run | Bounds | Shows |
|---|---|---|
| `shard_manager` | 2 secrets, 2 replicas, 4 plans (empty, two that swap the replicas, one malformed), 2 edits by others, one number wider than 32 bits, 1 fault, a lost event among them | the manager sleeps only on the truth, but for a secret whose event was lost (`SettledIsTruthful`), reports Ready only when done (`ReportedMeansApplied`), implements `ShardAssignment` (`ImplementsContract`), and arrives (`EventuallyTruthful`) |
| `scaler_x0y` | X-0-Y; plans of 0, 1 and 2 replicas; 2 publications or pauses, 2 faults, failed lookups and lost events among them; any age of the copies, the scaler's own status included; a partition is published when the last is in place | pods that run together agree (`NoMixedEnv`), shards move only when there are no pods (`ShardsMoveAtZero`), pods start under the plan that is applied (`PodsStartUnderTheirPlan`), the scaler sleeps only when the plan is in place or a lookup has failed or an event was lost (`SettledIsInPlace`) |
| `scaler_converges` | all three modes; plans of 0, 1 and 1 replicas; 1 publication, pause or edit of the StatefulSet at any moment, upon any partition in place or not; 2 faults, failed lookups and lost events among them | the last plan is in place in the end (`EventuallyInPlace`), in rollout restart mode with each pod replaced since the last restart asked for, and the scaler sleeps only then |
| `evaluation` | 4 plans (empty, two of one size, one larger), periods of 2 and 3 units; either samples up to 3 units apart to time 5 with 1 fault, or a sample in every unit to time 9 | it implements `StabilizedElection` (`ImplementsElection`); with a sample in every unit, a plan wanted for more than two retention periods is published (`UpToDate`) and the leader of the count is always known in full (`NeverAwaitsProjection`) |
| `partition` | all lists of up to 5 shards with loads 0 to 3, all orders of equal loads, all inexact sums, limits -1 to 3 | `EachShardOnce`, `WithinLimits`, `NoNeedlessReplica`, and a bound on waste (`AtLeastHalfFull`) |
| `poll` | 3 shard lists (one shard, the same under another name, none), 3 configurations (one metric, two, malformed), period 3, rate limit 1, 2 changes of either, 1 fault, a lost event among them | at rest the poll has the values of what is there and the timer for the next ones (`SettledIsCurrent`), replaces values neither early nor by older ones (`NotPolledTwice`), arrives at values of the present shards and queries (`EventuallyCurrent`) and goes on for ever (`KeepsPolling`) |
| `pipeline` | poll, normalizer, load index, partition; 2 publications or edits, 1 fault, a lost event among them; one of the two polls makes the load index fail | no stage sleeps on values that are not its provider's (`SettledIsDerived`); in the end each has what the chain makes of the last poll (`EventuallyDerived`) |
| `load_index` | up to 7 shards with one metric of 0 to 3, 2 to 4 shards with two; offset none, 0 or 1/2; p of 1 to 3; 3 weightings, one of a metric not polled | `MoreIsHeavier`, `OffsetSuffices`, `UnitsDoNotMatter`, `IgnoredOnlyIfHalfAgree`, `OutliersDoNotSkew` |
| `scaler_x0y_mixed_env`, `scaler_default_order`, `poll_stuck`, `partition_in_cluster_first` | no faults, 2 changes; loads 0 to 2 | the four findings of section 5 |

### Why these bounds are enough

Two secrets and two replicas are the least with which an update can fail in the
middle and a swap leaves one secret right and the other wrong. Two edits let a
plan change while another is being carried out and a secret change beneath
either; one fault lands at each of the steps of each Reconcile, and conflicts
come without bound on top. The theorems of section 4 lift these bounds
altogether for safety.

For the scaler, two sizes above zero tell scaling up from scaling down, and two
plans of one size a mere change of the assignment. Two changes put a change of
plan, or a pause, into the midst of a transition caused by the other; the first
transition needs no change, since the initial partition need not be in place.
That is why the run with liveness, in which the graph has to stay small, makes do
with one change and one replica and spends its bound on a second fault.

For the evaluation, a retention period of 3 units with time to 5 contains an
election, a change of leader, trimming of the former, and a second election;
regular samples need 2 x 3 units of one wish and some before it, hence 9. The
two plans of one size are interchangeable. For the partitioner, with five shards,
one of them in-cluster, the binary search hits and misses at several places, and
a replica can be given three shards before it is full by its limit or by load.
Loads of a few units are where an error of a fraction of one matters most.

For the poll, a period of three rate limits leaves room for an event in the
rate limit, one after it and one at the end of the period; two changes make the
manager go away and come back, or change shards during a query begun for the
others. For the pipeline, the partition is two stages from the first that
computes, and the second change may overtake the first anywhere in the chain;
its values carry the history of how they came about, so that no two are equal
by accident. Seven shards have distinct quartiles and median, with an odd
number in each half; two metrics show that scaling one leaves the other alone.

### Fairness

* `WF(Reconcile)`: the work queue is served, and a Reconcile that has begun
  goes on. Which requests are in the queue is not assumed but computed: from
  the errors and delays the code returns and the events its predicates let
  through (`requested`). This is what the liveness properties are about.
* `WF(Deliver...)`: informers deliver what happened, some time. Several changes
  of one object may be delivered as one.
* `WF(StatefulSetController)`: Kubernetes works. `WF(ManagerFulfils)`: the
  manager does what it is asked for, which is what `EventuallyTruthful` shows
  of it for well-formed plans.
* In the poll, `WF(Reconcile)` includes `Answer`: Prometheus answers each query
  or its connection breaks. The client sets no timeout; without this one poll
  that hangs stops all polls, since the controller has one worker. `WF(Tick)`:
  time passes.
* In the pipeline, each stage and each object's watch has its own fairness; no
  order between controllers is assumed.
* Faults are finitely many; conflicts are not bounded.
* A lookup that fails for a moment is taken for an object that does not exist,
  and nothing tries it again. The poll, the stages and the scaler then do sleep
  with a wrong status. The properties name this exception
  (`ErrorFindingShardManager`, `ErrorFindingProvider`, `scaler.lost`) and claim
  nothing for it. In the shard manager the list of secrets may fail, but that is
  returned as an error and retried.
* A map function that cannot list the objects to enqueue logs it and enqueues
  none: the event is lost, and is not repeated. Every controller has one (shard
  manager 297-300; scaler 829, 867, 905; poll 329; robust scaling 261; load index
  and partition 281; evaluation 487). It counts as a fault. The exception is
  `missed`, until the next Reconcile, and it is no wider than that: in the shard
  manager it concerns the secret in question and no other; in the poll, the
  values but not the timer, which makes up for the event, unless the poll had
  given up on its manager; in the pipeline, the stages of that controller, while
  those behind them still agree with them. The evaluation's elections keep to
  their periods whatever is lost; `UpToDate` and `NeverAwaitsProjection` speak of a
  sample in every unit, and no report is lost at that pace.
* `RateLimited`: in the run with liveness the watch of the scaler's own status
  is quicker than the 5 s between two Reconciles. Without it `EventuallyInPlace`
  fails: from its old status the scaler takes a transition that it completed
  for a pending one and takes the replicas to zero again, for ever if the
  watch is always late. The safety of X-0-Y is checked without this assumption
  (`scaler_x0y`).

## 4. What is proved

For all values of the constants that satisfy the modules' assumptions: any
sets of secrets, replicas and plans (`ManagerAssumption`: the four contents of
a secret that are not numbers differ from numbers and from each other, the
empty plan is a plan), any plans, sizes and modes (`ScalerAssumption`), any
stabilization periods (`EvaluationAssumption`), any finite set of shards with
natural loads (`PartitionerAssumption`), any shard lists, configurations, period
and rate limit (`PollAssumption`), any graph of references in which no stage
refers to itself (`PipelineAssumption`), any finite sets of shards and metrics
with natural values, weights, offsets and powers (`LoadIndexAssumption`), and
any numbers of edits and faults. Five theorems have a hypothesis on top, named
in the table and explained below; the runs that check the same properties
satisfy it. Each safety property that a run checks is the subject of a theorem.

| Theorem | States |
|---|---|
| `ShardManagerProofs!TypeCorrect` | `Spec => []TypeOK` |
| `ShardManagerProofs!NeverAsleepOnFalsehood` | `Spec => []SettledIsTruthful` |
| `ShardManagerProofs!ReadinessIsEarned` | `Spec => ReportedMeansApplied` |
| `ShardManagerProofs!ManagerImplementsContract` | `Spec => ImplementsContract` |
| `ReplicaSetScalerProofs!TypeCorrect` | `Spec => []TypeOK` |
| `ReplicaSetScalerProofs!NeverAsleepOutOfPlace` | `Spec => []SettledIsInPlace` |
| `ReplicaSetScalerProofs!ShardsNeverMoveUnderPods` | with `X0YAlone`: `Spec => ShardsMoveAtZero` |
| `ReplicaSetScalerProofs!PodsStartRight` | with `X0YAlone`: `Spec => PodsStartUnderTheirPlan` |
| `ReplicaSetScalerProofs!NeverMixed` | with `X0YAlone`: `Spec => []NoMixedEnv` |
| `MostWantedEvaluationProofs!TypeCorrect` | `Spec => []TypeOK` |
| `MostWantedEvaluationProofs!EvaluationImplementsElection` | `Spec => ImplementsElection` |
| `MostWantedEvaluationProofs!RegularSamplesKnowTheLeader` | with `RegularPaces`: `Spec => NeverAwaitsProjection` |
| `MostWantedEvaluationProofs!RegularSamplesKeepUp` | with `RegularPaces`: `Spec => []UpToDate` |
| `LongestProcessingTimeProofs!TypeCorrect` | `Spec => []TypeOK` |
| `LongestProcessingTimeProofs!LimitsRespected` | `Spec => []WithinLimits` |
| `LongestProcessingTimeProofs!ReplicasNeeded` | `Spec => []NoNeedlessReplica` |
| `LongestProcessingTimeProofs!NoneLostNoneTwice` | `Spec => []EachShardOnce` |
| `LongestProcessingTimeProofs!HalfFull` | `Spec => []AtLeastHalfFull` |
| `PrometheusPollProofs!TypeCorrect` | `Spec => []TypeOK` |
| `PrometheusPollProofs!NeverAsleepOnOldValues` | `Spec => []SettledIsCurrent` |
| `PrometheusPollProofs!PollsAreNotRepeated` | `Spec => NotPolledTwice` |
| `PipelineStagesProofs!TypeCorrect` | `Spec => []TypeOK` |
| `PipelineStagesProofs!NeverAsleepOnForeignValues` | `Spec => []SettledIsDerived` |
| `LoadIndexingProofs!TypeCorrect` | `Spec => []TypeOK` |
| `LoadIndexingProofs!HeavierWhereMore` | `Spec => []MoreIsHeavier` |
| `LoadIndexingProofs!OffsetIsEnough` | `Spec => []OffsetSuffices` |
| `LoadIndexingProofs!OnlyHalfAgreeing` | `Spec => []IgnoredOnlyIfHalfAgree` |
| `LoadIndexingProofs!OutliersAside` | `Spec => []OutliersDoNotSkew`, and the same for any amount |
| `LoadIndexingProofs!AnyUnit` | `Spec => []UnitsDoNotMatter`, and the same for any factor and shift |

**The shard manager.** `SettledIsTruthful` speaks of quiet states only and is
not inductive: whether the last step before the quiet wrote the truth depends
on what was read long before. The inductive invariant says how each copy
relates to the server's object: a copy in the cache is the server's or its
event is to come (`CacheInv`); a manager object that the server will take a
status for is the current one, plan included (`FreshInv`); what changed beneath
a Reconcile that will not be retried has an event to come, or lost it
(`StaleInv`); the
secrets that did not change are in order or in the list of those to write
(`WriteInv`); a complaint about to be written was justified when read and is
so still, or an event is to come (`ReportInv`). The step that matters is a
status update after which the manager may sleep (`ReportSettles`): the report is
true of all secrets but those aside (`Truthful(lagging \cup missed)`). From the
same invariant follow readiness and the refinement: a Ready status is taken
only for the plan in the specification at that moment, and only a plan with
one replica for each shard.

**The scaler.** `Awake` is the inductive invariant: a copy of the manager or the
StatefulSet that no event will correct is the object (`CopiesAreCurrent`), and a
Reconcile that has nothing left but its status, or has gone to sleep, will be
followed by another, or an event was lost (`Due`), or what it says is so
(`WorkIsSettled`). The step that
matters is `BeginSettles`: of all the ways out of Reconcile, only two neither
requeue nor wait for an event of their own write: not ready, taken on a copy
that is current or whose event is to come, and done. Mode and order of the phases
play no part, so the theorem holds in each. That the right number of pods in
the right state are the right pods needs that no two have one ordinal
(`OnePodEach`, `PodsCount`); the type of `status.replicas` rests on that too.

**X-0-Y.** How far a transition has come is stored nowhere; each Reconcile
infers it from four objects, in copies of any age. The hypothesis `X0YAlone`
is what the mode needs: a plan is published only when the last is in place
(`scaler_x0y_mixed_env` shows what happens otherwise) and nobody else writes
the StatefulSet; users may pause, and crashes, refusals, lost answers and failed
lookups are as many as one likes. The invariant `IInv` adds four parts to
`Awake`. The plan published reaches the manager's specification, then what it
has applied, then the scaler's status, and no copy is ahead of this order
(`OrderInv`). The scaler's status, if its copy passes for current, or if the
scaler is asleep, is what the copy shows (`NotedInv`): no plan of an earlier
transition is mistaken for adopted. Between the request to the manager and its
fulfilment nothing runs, and before the request a count of zero pods, old as it
may be, means that there are none (`ZeroInv`): pods come back only after the
plan is applied. And what runs belongs to the plan applied, or was there, all
of it, from the start (`PodsInv`).

**The poll.** `IInv` says that a copy is the server's or its event is to come
(`CacheInv`), that what a running Reconcile has read is still so or the poll is
excused (`WorkInv`), and that a status will be taken only from a Reconcile that
had a reason to poll (`FreshInv`, which gives `NotPolledTwice`). Excused
(`Excused`) is who will run again (`Woken`), has an event to come, or has lost
one. To be woken is more than requested: a timer that ends with the rate limit
counts, because `PutOff` turns a request into one. What a lost event spares and
what not are two parts: a poll that has not given up has its timer, whatever
became of its manager (`TimerInv`); without an excuse it has the values, too
(`RestInv`). So a poll that loses an event keeps its timer, because it had one
before.

**The pipeline.** The same shape as for the scaler, for each stage by itself (a
lost event counts as `Due`, too): nothing is assumed of the graph but that no stage is its own provider, so
cycles and several subscribers of one stage are covered.

**The evaluation.** That a plan elected was sampled less than a retention
period ago is not evident: `Elect` stamps the winner's record with the time of
the election, though another plan may have been sampled then, so a record may
be younger than the last sample of its plan. The invariant (`IInv`) tells the two
kinds of records apart: one is of a sample at that time (`Genuine`), or it is
the single record that its election has left, of a plan that was recent then
(`Renewed`). A record of the second kind counts one sample and the plan just
sampled counts one too, later; so it leads only if it was made at this very
time (`LeaderIsRecent`), and then what was recent is recent. Periods may be
zero and samples any time apart; the pace plays no part.

`NeverAwaitsProjection` and `UpToDate` are about a sample in every unit of the
rate limit. `RegularPaces` also asks that at this pace nothing is restarted or
refused, and for a retention period: TLC finds that after a restart two samples
may be taken at one time, and of two records with the same count and time the
code may know neither in full; with no retention at all even the record just
made is trimmed. Regular samples leave a record for each of the last units
(`RecordsInv`), of which those of a plan wanted throughout outnumber all the
others once the election that might have renewed another plan's record is out of
the window (`SteadyInv`, `ElectionInv`); the leader is elected, sampled now or
projected (`LeaderKnown`).

**The partitioner.** `WithinLimits` and `NoNeedlessReplica` are inductive together
with `TotalsCover`: a total, rounded up as it may be, is never less than the load
of the shards behind it, and the one comparison that decides is off by less than
half a unit on whole units (`Comparison`), so what seems to fit does fit. The
total of a replica only grows, so what did not fit never will.
What is needed besides is that `bucket` is the biggest load, which rests on
the sorted order (`FirstIsBiggest`), and that bringing the in-cluster shard to
the front yields shards of the list (`SortedType`). For `EachShardOnce` that
rearrangement is a permutation (`SortedShape`, `SortedPermutes`), wherever the
search ended, and from then on each shard is in one place, of those pending or
of those on the replicas (`Placement`).

Appending a shard adds its load to the true sum (`LoadAppend`). For
`AtLeastHalfFull` the totals and what is left to place come to no more than the
sum of all loads and a unit for each shard that joined another (`Ledger`,
`Rounded`). Any two replicas fill a bucket together
(`TwoFillABucket`, from `NoNeedlessReplica`), and of numbers that do so in pairs, if
there are two at least, the sum is half a bucket for each (`PairsAddUp`); a single
replica holds the shard with the biggest load, that is a bucket.

**Folds.** Sums, products and powers are folds of the community modules, which
take the elements in an order chosen by `CHOOSE`. `FoldTheorems` shows that the
order does not matter: there is one function on the subsets of the set that
satisfies the recursion for every element, and it is the one that the fold
chooses. The library's induction theorems, which take an operator, are not of
use to the provers; in their place stands a least counterexample: a nonempty
set of natural numbers has a least one (`LeastNat`), so among the sets of which a
claim fails there is one that fails with no element less (`FewestElements`).

**Scaling and load.** The `rank`-th of the sorted values is the one with fewer than
`rank` values below it and at least `rank` not above it. There is one
(`RankExists`), and no other, since ranks ascend (`RanksAscend`). From this comes all that
is said of the normalizer: a list of six or more does not look at its last rank for
median and quartiles (`SameButTheLast`), and the other ranks keep their values
however far the greatest goes (`OthersKeepTheirRanks`); where first and third
quartile coincide, all ranks between have one value, half of the shards
(`QuartilesAgree`); another unit and zero move each rank with its value
(`OtherUnit`). The invariant `LoadInv` says that at every stage values keep the
order of those polled, metric by metric, and are not negative once an offset is
given. Powers of such values keep that order, odd powers of any
(`PowerMonotone`, `OddPowerMonotone`), and so does the weighted sum (`SumOrdered`).

**Model-checked only.** Liveness (`EventuallyTruthful`, `EventuallyInPlace`,
`EventuallyCurrent`, `KeepsPolling`, `EventuallyDerived`), since TLAPS 1.4.5
proves no fairness, and the four findings of section 5, which are
counterexamples.

## 5. Where code and documents part

* `scaler_x0y_mixed_env`: X-0-Y "effectively guarantees" that no two replicas
  have different values of `ARGOCD_CONTROLLER_REPLICAS`. The code takes
  `status.replicas = 0` for "nothing runs". With the plan changing after
  `spec.replicas` was raised and before the new pods are counted, the way
  through zero is skipped.
* `scaler_default_order`: outside X-0-Y a StatefulSet at zero is scaled before
  the shard manager has been asked, though shards are said to come first.
* `poll_stuck`: "We should get a new event when shard manager changes", says
  the poll when its manager is not ready. The event of the recovery comes, but
  with the same shards and metrics and a recent poll Reconcile returns before it
  writes anything: the poll, and the pipeline behind it, stay not ready until the
  period ends.
* `partition_in_cluster_first`: a test says that the in-cluster shard comes
  first; it does so when the binary search, whose condition is not monotone,
  happens to probe its place.

Met while modelling and not counted as disagreements: with irregular samples the
leader of the evaluation's count may be known by its hash only, and the
evaluation goes not ready (a comment calls this a bug, `src/DESIGN.md:342-350`
expects some of it); a spread of zero does not mean that all values are equal
(`IgnoredOnlyIfHalfAgree`); with fewer than six shards an outlier does shift the
quartiles; even powers without an offset turn a load below the median into one
above it (the condition of `MoreIsHeavier`).

## 6. What is not modelled

* Scaler: a change of mode, a specification with two modes, a reference to an
  unsupported kind, a StatefulSet without the container or variable expected,
  objects referred to that are deleted.
* Shard manager: label selectors, secrets without any data.
* Evaluation: edits of its periods; a provider that cannot be found (it behaves
  as one that is not ready).
* Poll: edits of the period and of the address; the text and templates of
  queries; that a query may have a timeout.
* Pipeline: the rate limit of the stages, which only delays; a reference that
  is changed to another object.
* Arithmetic: in the normalizer and the load index, rounding of floating-point
  numbers and of `resource.Quantity`, powers below 1 and negative weights (not
  excluded by the schema); in the partitioner, negative loads and totals beyond
  about a million, where a floating-point sum may be off by half of the smallest
  unit and more.
* `AsApproximateFloat64` itself: loads compare as floating-point numbers as they
  do as Quantities.
* Everywhere: deletion of a controller's own object; two shards with one UID;
  the informers' resync after 10 hours, which would in the end wake what
  sleeps (the properties do without it); leader election; log messages,
  events and metrics; reflection in `findByRef`. Start-up is seen only as
  restarts. Generated code and manifests have no behaviour of their own.

## 7. The plan

Order, the most important behaviour first; done: 1 to 9.

1. `ShardAssignment`, `ShardManager`, proofs of its safety and refinement.
2. `ReplicaSetScaler` over `ShardAssignment`.
3. `StabilizedElection`, `MostWantedEvaluation`, proof of the refinement.
4. `LongestProcessingTime` with proofs.
5. `PrometheusPoll` with proofs.
6. `PipelineStages` with proofs.
7. `LoadIndexing`.
8. Proofs of `SettledIsInPlace` for the scaler and of `EachShardOnce`.
9. Proofs of the X-0-Y properties, of regular samples, of the partitioner's waste
   and of `LoadIndexing`.
10. Left: `ShardManager` in place of its contract under the scaler (the refinement
   proved makes this redundant for safety); the poll in place of the abstract
   source of the pipeline; an abstract specification of the poll and of a stage.

Runs are kept few: a new question is asked in a combined run rather than in
one of its own.

## 8. Running it

`tlc -config ShardManager.cfg MCShardManager` and so on, as `PROJECT.json`
lists them; `tlapm ShardManagerProofs.tla`. Deadlock is not checked where the
system may rest: nothing requested and nothing on its way, the clock of the
evaluation at its bound, the partitioner done.
