---------------------------- MODULE PrometheusPoll ----------------------------
(***************************************************************************)
(* The Prometheus Poll: the reconciler that asks Prometheus for the value  *)
(* of every metric of every shard, once in a period and whenever the       *)
(* shards or the metrics have changed.                                     *)
(*                                                                         *)
(* Time is relative: the age of the last poll, the time left to the one    *)
(* waiting entry of the work queue, and to the end of the rate limit.      *)
(* A shard list is abstract; what Reconcile compares are the UIDs in it,   *)
(* and of a configuration of metrics the IDs.                              *)
(***************************************************************************)
EXTENDS Integers

CONSTANTS Lists, Uids,     \* the lists of shards, and the UIDs in each
          Configs, Ids,    \* the configurations of metrics, and the IDs in each
          Malformed,       \* the one that gives two metrics the same ID
          None,            \* no values, no timer
          Period, RateLimit,
          MaxEdits,        \* bound: changes of the shard manager and of spec.metrics
          MaxFaults        \* bound: crashes, and calls that fail or whose answer is lost

ASSUME PollAssumption ==
    /\ Period \in Nat \ {0}
    /\ RateLimit \in Nat
    /\ Malformed \in Configs
    /\ None \notin Int /\ None \notin Lists /\ None \notin [list : Lists, config : Configs]
    /\ MaxEdits \in Nat /\ MaxFaults \in Nat

Conditions == {"Unknown", "Ready", "MalformedResource", "ErrorFindingShardManager",
               "ShardManagerNotReady", "PollingError"}

VARIABLES
    manager,      \* the shard manager's object: its phase and status.shards
    managerSeen,  \* the cache's copy of it
    managerEvent, \* an event of it is on its way to the cache
    spec,         \* spec.metrics of the poll
    status,       \* its status: values, time since lastPollingTime, condition
    pollSeen,     \* the cache's copy of the two
    pollLag,      \* which of them it has not seen in their latest version
    work,         \* the running Reconcile
    requested,    \* the work queue holds a request
    missed,       \* observer: the manager's last event, since the last look, asked for none
    timer,        \* the time until it gets the one it was asked to add later, or None
    cool,         \* the rest of GlobalRateLimit since the last Reconcile
    edits, faults,
    outpaced      \* observer: the last Reconcile was quicker than the watch of the status

server == <<manager, spec, status>>
cache  == <<managerSeen, managerEvent, pollSeen, pollLag>>
clocks == <<timer, cool>>
vars   == <<manager, managerSeen, managerEvent, spec, status, pollSeen, pollLag, work, requested,
            missed, timer, cool, edits, faults, outpaced>>

Phases == {"Missing", "NotReady", "Ready"}

(* Of an object that is missing the list is None. *)
Managers == {object \in [phase : Phases, list : Lists \cup {None}] :
                object.phase = "Missing" <=> object.list = None}
Polled   == [list : Lists, config : Configs]
Statuses == [values : Polled \cup {None}, age : 0..Period, condition : Conditions]

(* A Reconcile waits for its request, for the answers of Prometheus, or has *)
(* only its status left to write.                                           *)
Idle  == [pc |-> "idle", asked |-> None, outcome |-> "Unknown", fresh |-> FALSE]
Works == [pc : {"idle", "query", "report"},
          asked : Polled \cup {None},  \* the shards and metrics it reads, or has read
          outcome : Conditions,
          fresh : BOOLEAN]             \* the object read is still the server's

TypeOK == /\ manager \in Managers /\ managerSeen \in Managers /\ managerEvent \in BOOLEAN
          /\ spec \in Configs
          /\ status \in Statuses
          /\ pollSeen \in [spec : Configs, status : Statuses]
          /\ pollLag \subseteq {"status", "spec"}
          /\ work \in Works
          /\ requested \in BOOLEAN /\ missed \in BOOLEAN
          /\ timer \in 1..Period \cup 1..RateLimit \cup {None}
          /\ cool \in 0..RateLimit
          /\ edits \in 0..MaxEdits /\ faults \in 0..MaxFaults
          /\ outpaced \in BOOLEAN

Init == /\ manager \in Managers /\ managerSeen = manager /\ managerEvent = FALSE
        /\ spec \in Configs
        /\ status = [values |-> None, age |-> Period, condition |-> "Unknown"]
        /\ pollSeen = [spec |-> spec, status |-> status]
        /\ pollLag = {}
        /\ work = Idle
        /\ requested = TRUE /\ missed = FALSE /\ timer = None /\ cool = 0
        /\ edits = 0 /\ faults = 0
        /\ outpaced = FALSE

------------------------------------------------------------------------------
(* What the values in a status show of the shards and metrics they are of: *)
(* nothing, when there were no shards or no metrics.                       *)

Pairs(asked) == IF asked = None THEN {} ELSE Uids[asked.list] \X Ids[asked.config]

(* Mutant: only the shards are compared. *)
SameShards(values, asked) ==
    {pair[1] : pair \in Pairs(values)} = Uids[asked.list]

ObservedAgain(values, asked) ==
    /\ {pair[1] : pair \in Pairs(values)} = Uids[asked.list]
    /\ {pair[2] : pair \in Pairs(values)} = Ids[asked.config]

(* AddAfter of a request that is waiting already keeps the earlier time. *)
Earlier(t) == IF timer = None \/ t < timer THEN t ELSE timer

Fault == faults < MaxFaults /\ faults' = faults + 1

------------------------------------------------------------------------------
(* The cache. Every event of the shard manager enqueues the poll, unless   *)
(* its map function cannot list the polls: that is logged, and the event   *)
(* is lost. Of the poll's own events GenerationChangedPredicate drops      *)
(* those of the status.                                                    *)

DeliverManager ==
    /\ managerEvent
    /\ managerEvent' = FALSE
    /\ managerSeen' = manager
    /\ \/ requested' = TRUE /\ UNCHANGED <<missed, faults>>
       \/ missed' = TRUE /\ Fault /\ UNCHANGED requested
    /\ UNCHANGED <<server, pollSeen, pollLag, work, clocks, edits, outpaced>>

DeliverPoll ==
    /\ pollLag # {}
    /\ pollLag' = {}
    /\ pollSeen' = [spec |-> spec, status |-> status]
    /\ requested' = (requested \/ "spec" \in pollLag)
    /\ UNCHANGED <<server, managerSeen, managerEvent, work, missed, clocks, edits, faults, outpaced>>

------------------------------------------------------------------------------
(* Reconcile. *)

Take == /\ work.pc = "idle"
        /\ requested /\ requested' = FALSE
        /\ UNCHANGED <<server, cache, edits>>

(* Too early: the request is put off to the end of the rate limit. *)
PutOff == /\ Take
          /\ cool > 0
          /\ timer' = Earlier(cool)
          /\ UNCHANGED <<work, missed, cool, faults, outpaced>>

(* The rate limit has passed, and starts anew. *)
Start == /\ Take
         /\ cool = 0 /\ cool' = RateLimit
         /\ missed' = FALSE
         /\ outpaced' = ("status" \in pollLag)

Asked == [list |-> managerSeen.list, config |-> pollSeen.spec]

ReportNext(asked, outcome, fresh) ==
    work' = [pc |-> "report", asked |-> asked, outcome |-> outcome, fresh |-> fresh]

(* The configuration is malformed, or the shard manager is not found (a    *)
(* failing lookup is taken for that) or not ready.                         *)
GiveUp == /\ Start
          /\ \E outcome \in Conditions :
               /\ ReportNext(None, outcome, pollLag = {})
               /\ \/ /\ pollSeen.spec = Malformed
                     /\ outcome = "MalformedResource" /\ UNCHANGED faults
                  \/ /\ pollSeen.spec # Malformed
                     /\ outcome = "ErrorFindingShardManager"
                     /\ IF managerSeen.phase = "Missing" THEN UNCHANGED faults ELSE Fault
                  \/ /\ pollSeen.spec # Malformed /\ managerSeen.phase = "NotReady"
                     /\ outcome = "ShardManagerNotReady" /\ UNCHANGED faults
          /\ UNCHANGED timer

Pollable(phase, config) == phase = "Ready" /\ config # Malformed

(* Mutant: the values are never too old. *)
UnlessObserved == ObservedAgain(pollSeen.status.values, Asked)

(* The values are recent, and of the same shards and metrics. *)
UpToDate == /\ pollSeen.status.age < Period
            /\ ObservedAgain(pollSeen.status.values, Asked)

(* Mutant: nothing asks for a look at the end of the period. *)
WaitForEvents == /\ Start
                 /\ Pollable(managerSeen.phase, pollSeen.spec) /\ UpToDate
                 /\ UNCHANGED <<work, timer, faults>>

(* Nothing is written; the next look is at the end of the period. *)
Wait == /\ Start
        /\ Pollable(managerSeen.phase, pollSeen.spec) /\ UpToDate
        /\ timer' = Earlier(Period - pollSeen.status.age)
        /\ UNCHANGED <<work, faults>>

Query == /\ Start
         /\ Pollable(managerSeen.phase, pollSeen.spec) /\ ~UpToDate
         /\ work' = [Idle EXCEPT !.pc = "query", !.asked = Asked, !.fresh = (pollLag = {})]
         /\ UNCHANGED <<timer, faults>>

(* Every query has answered with one sample (or, where that is configured, *)
(* with none), or one of them has not and there are no values at all.      *)
Answer == /\ work.pc = "query"
          /\ \/ ReportNext(work.asked, "Ready", work.fresh) /\ UNCHANGED faults
             \/ ReportNext(work.asked, "PollingError", work.fresh) /\ Fault
          /\ UNCHANGED <<server, cache, requested, missed, clocks, edits, outpaced>>

NewStatus == IF work.outcome = "Ready"
             THEN [values |-> work.asked, age |-> 0, condition |-> "Ready"]
             ELSE [status EXCEPT !.condition = work.outcome]

(* Mutant: the status is patched, without a check of the version read. *)
PatchStatus == /\ status' = NewStatus
               /\ pollLag' = IF NewStatus # status THEN pollLag \cup {"status"} ELSE pollLag

(* Taken if the object read is still the server's; an update that changes  *)
(* nothing makes no new version.                                           *)
PutStatus == /\ work.fresh
             /\ status' = NewStatus
             /\ pollLag' = IF NewStatus # status THEN {"status"} ELSE pollLag

(* Mutant: a failed poll is left to the next event. *)
RetriedNever == {}

(* Outcomes that Reconcile returns as errors. *)
Retried == {"PollingError"}

Report == /\ work.pc = "report"
          /\ PutStatus
          /\ work' = Idle
          /\ requested' = (requested \/ work.outcome \in Retried)
          /\ timer' = IF work.outcome = "Ready" THEN Earlier(Period) ELSE timer
          /\ UNCHANGED <<manager, spec, managerSeen, managerEvent, pollSeen, missed, cool, edits,
                         faults, outpaced>>

(* The object read was outdated, or the call failed, its effect possibly   *)
(* in place: an error, and the request is retried.                         *)
ReportFails == /\ work.pc = "report"
               /\ \/ ~work.fresh /\ UNCHANGED <<status, pollLag, faults>>
                  \/ Fault /\ UNCHANGED <<status, pollLag>>
                  \/ Fault /\ PutStatus
               /\ work' = Idle
               /\ requested' = TRUE
               /\ UNCHANGED <<manager, spec, managerSeen, managerEvent, pollSeen, missed, clocks,
                              edits, outpaced>>

(* The process stops anywhere; the next one lists everything anew and has  *)
(* neither timers nor a memory of the last Reconcile.                      *)
Crash == /\ Fault
         /\ work' = Idle
         /\ requested' = TRUE /\ missed' = FALSE /\ timer' = None /\ cool' = 0
         /\ managerSeen' = manager /\ managerEvent' = FALSE
         /\ pollSeen' = [spec |-> spec, status |-> status] /\ pollLag' = {}
         /\ UNCHANGED <<server, edits, outpaced>>

------------------------------------------------------------------------------
(* Time, and the others. *)

Aged(st) == [st EXCEPT !.age = IF @ < Period THEN @ + 1 ELSE @]

Tick == /\ status' = Aged(status)
        /\ pollSeen' = [pollSeen EXCEPT !.status = Aged(@)]
        /\ cool' = IF cool > 0 THEN cool - 1 ELSE cool
        /\ IF timer = None THEN UNCHANGED <<timer, requested>>
           ELSE IF timer = 1 THEN timer' = None /\ requested' = TRUE
           ELSE timer' = timer - 1 /\ UNCHANGED requested
        /\ UNCHANGED <<manager, spec, managerSeen, managerEvent, pollLag, work, missed, edits,
                       faults, outpaced>>

(* The shard manager reports other shards, stops or begins to be ready, is *)
(* deleted or created.                                                     *)
ChangeManager(new) ==
    /\ edits < MaxEdits /\ edits' = edits + 1
    /\ new # manager
    /\ manager' = new
    /\ managerEvent' = TRUE
    /\ UNCHANGED <<spec, status, managerSeen, pollSeen, pollLag, work, requested, missed, clocks,
                   faults, outpaced>>

SetMetrics(config) ==
    /\ edits < MaxEdits /\ edits' = edits + 1
    /\ config # spec
    /\ spec' = config
    /\ pollLag' = pollLag \cup {"spec"}
    /\ work' = IF work.pc = "idle" THEN work ELSE [work EXCEPT !.fresh = FALSE]
    /\ UNCHANGED <<manager, status, managerSeen, managerEvent, pollSeen, requested, missed,
                   clocks, faults, outpaced>>

------------------------------------------------------------------------------
Reconcile == PutOff \/ GiveUp \/ Wait \/ Query \/ Answer \/ Report \/ ReportFails

Next == \/ Reconcile
        \/ DeliverManager \/ DeliverPoll
        \/ Crash
        \/ Tick
        \/ \E new \in Managers : ChangeManager(new)
        \/ \E config \in Configs : SetMetrics(config)

Spec == Init /\ [][Next]_vars

(* The work queue is served, Prometheus answers or its client gives up, the *)
(* watches deliver, and time passes.                                        *)
Fairness == /\ WF_vars(Reconcile)
            /\ WF_vars(DeliverManager) /\ WF_vars(DeliverPoll)
            /\ WF_vars(Tick)

FairSpec == Spec /\ Fairness

------------------------------------------------------------------------------
(* Nothing is left that would make the poll run again, but the timer, for  *)
(* more than the end of the rate limit.                                    *)
Quiet == /\ ~requested /\ work.pc = "idle" /\ ~managerEvent /\ "spec" \notin pollLag
         /\ timer # None => timer > cool

(* There is something to poll, and it is not one of the two cases in which *)
(* the code does fall asleep. The poll holds that its shard manager cannot *)
(* be found: a lookup that fails for a moment is taken for the absence of  *)
(* the object and not tried again, whatever the poll holds. Or it holds    *)
(* that the manager is not ready, and the event that said otherwise was    *)
(* lost, because the polls could not be listed (lines 329-333).            *)
Expected == /\ Pollable(manager.phase, spec)
            /\ status.condition # "ErrorFindingShardManager"
            /\ ~(missed /\ status.condition = "ShardManagerNotReady")

(* The poll never falls asleep: at rest, the values are of the shards and  *)
(* the metrics there are now, and the timer will bring the next poll when  *)
(* they are a period old (or sooner). The timer is the only wake-up there  *)
(* is; the queue keeps one entry per poll, and the rate limit, an outage   *)
(* of the shard manager or of Prometheus, a conflict and a restart each    *)
(* replace, use up or forget it (lines 92-99, 160-180, 226-280). Only a    *)
(* Reconcile that read its own object without the status written by the    *)
(* one before, more than the rate limit ago, may take other values for it. *)
(* A lost event of the manager's leaves the values of the shards that were *)
(* there before; the timer is there all the same, and brings the others.   *)
SettledIsCurrent ==
    Quiet /\ Expected =>
        /\ timer # None /\ timer <= Period - status.age
        /\ status.values # None
        /\ ~outpaced /\ ~missed => Pairs(status.values) = Uids[manager.list] \X Ids[spec]

(* Values are replaced only when they are a period old or of other shards  *)
(* or metrics than those that were asked for: not by a Reconcile that read *)
(* an outdated copy of them, as after a restart or a lost answer.          *)
NotPolledTwice ==
    [][status'.age < status.age =>
         \/ status.age = Period
         \/ ~ObservedAgain(status.values, work.asked)]_vars

(* Once the others leave it alone, the poll is ready, with values of the   *)
(* shards as they are described now and of the queries as they are now: a  *)
(* lost event of the manager's is made up for at the end of the period.    *)
EventuallyCurrent ==
    <>[](Expected => /\ status.values = [list |-> manager.list, config |-> spec]
                     /\ status.condition = "Ready")

(* And it goes on polling: values are again and again less than a period old. *)
KeepsPolling == []<>(Expected => status.age < Period)

(* "We should get a new event when shard manager changes" (line 176): the  *)
(* poll gives up when its shard manager is not ready and counts on the     *)
(* event of its recovery; so a poll at rest does not hold it for not ready *)
(* ("Check the status of shard manager") when it is.                       *)
RecoversWithTheManager ==
    Quiet /\ ~missed /\ Pollable(manager.phase, spec) =>
        status.condition # "ShardManagerNotReady"
=============================================================================
