--------------------------- MODULE ReplicaSetScaler ---------------------------
(***************************************************************************)
(* The Replica Set Scaler: it takes the plan elected for the shards, has   *)
(* the shard manager assign it, and scales the application controller's    *)
(* StatefulSet to as many replicas, telling each pod in an environment     *)
(* variable how many there are.                                            *)
(*                                                                         *)
(* Every decision of Reconcile is taken on copies that may be older than   *)
(* the API server's objects; every write is refused when the copy it was   *)
(* made from is.  Around it: the partition provider, the shard manager     *)
(* (its contract, ShardAssignment) and Kubernetes' StatefulSet controller. *)
(***************************************************************************)
EXTENDS Integers, FiniteSets

CONSTANTS Plans,       \* the partitions the provider may publish
          EmptyPlan,   \* the one of no shards
          Size,        \* the number of replicas of each
          MaxReplicas,
          Modes,       \* those the scaler may be in: "default", "rollout-restart", "x0y"
          Overlap,     \* may a partition be published before the previous one is in place?
          RateLimited, \* is the watch quicker than the 5 s between two Reconciles?
          UserActs,    \* what users may do: "pause", "drift" (edit the StatefulSet)
          FailingLookups, \* may a lookup fail for a moment, of a reference or of the scalers?
          MaxChanges,  \* bound: partitions published and user acts
          MaxFaults    \* bound: crashes, failed and unanswered calls

ASSUME ScalerAssumption ==
    /\ EmptyPlan \in Plans
    /\ MaxReplicas \in Nat
    /\ Size \in [Plans -> 0..MaxReplicas]
    /\ Size[EmptyPlan] = 0
    /\ Modes \subseteq {"default", "rollout-restart", "x0y"}
    /\ Overlap \in BOOLEAN /\ RateLimited \in BOOLEAN
    /\ FailingLookups \in BOOLEAN
    /\ UserActs \subseteq {"pause", "drift"}
    /\ MaxChanges \in Nat /\ MaxFaults \in Nat

VARIABLES
    partition,  \* the partition provider's status, as the cache shows it
    managerSpec, managerApplied, managerReady,  \* the shard manager's object
    sts,        \* the StatefulSet: spec.replicas, the variable in its template, status.replicas
    pods,       \* its pods: ordinal, variable they started with, started since the last restart
    scaler,     \* the scaler's object: spec.mode and paused, status.replicas, Ready, and
                \* whether it is not ready because a reference could not be resolved
    seen,       \* the cache's copies of the three objects the scaler writes
    current,    \* those of them whose copy is the server's version
    work,       \* the running Reconcile
    requested,  \* the work queue holds a request, or will after a delay
    missed,     \* observer: an event since the last Reconcile began asked for none
    changes, faults

manager == <<managerSpec, managerApplied, managerReady>>
vars == <<partition, managerSpec, managerApplied, managerReady, sts, pods, scaler, seen, current,
          work, requested, missed, changes, faults>>

Objects   == {"manager", "sts", "scaler"}
Counts    == 0..MaxReplicas
Pods      == [ordinal : 1..MaxReplicas, env : Counts, restarted : BOOLEAN]
Managers  == [spec : Plans, applied : Plans, ready : BOOLEAN]
StatefulSets == [replicas : Counts, env : Counts, status : Counts]
Scalers   == [mode : Modes, paused : BOOLEAN, replicas : Plans, ready : BOOLEAN, lost : BOOLEAN]

(* What a Reconcile has read, and which of it is still the server's version. *)
Views == [plan : Plans, planReady : BOOLEAN, manager : Managers, sts : StatefulSets,
          scaler : Scalers, fresh : SUBSET Objects]

(* A Reconcile waits for its request, has just written the shard manager's *)
(* specification, or has only its status left to write.                    *)
Idle  == [pc |-> "idle"]
Works == {Idle} \cup [pc : {"assigned"}, view : Views]
                \cup [pc : {"report"}, replicas : Plans, ready : BOOLEAN, retry : BOOLEAN,
                      lost : BOOLEAN, fresh : BOOLEAN]

TypeOK == /\ partition \in [plan : Plans, ready : BOOLEAN]
          /\ managerSpec \in Plans /\ managerApplied \in Plans /\ managerReady \in BOOLEAN
          /\ sts \in StatefulSets
          /\ pods \subseteq Pods
          /\ scaler \in Scalers
          /\ seen \in [manager : Managers, sts : StatefulSets, scaler : Scalers]
          /\ current \subseteq Objects
          /\ work \in Works
          /\ requested \in BOOLEAN /\ missed \in BOOLEAN
          /\ changes \in 0..MaxChanges
          /\ faults \in 0..MaxFaults

Manager == INSTANCE ShardAssignment
             WITH WellFormed <- Plans, NoPlan <- EmptyPlan, requestedPlan <- managerSpec,
                  reportedPlan <- managerApplied, ready <- managerReady

ManagerObject == [spec |-> managerSpec, applied |-> managerApplied, ready |-> managerReady]

(* The scaler is installed beside a running application controller, or     *)
(* starts again where a plan is in place.                                  *)
Init == /\ partition \in [plan : Plans, ready : BOOLEAN]
        /\ \E mode \in Modes, plan \in Plans, n \in Counts :
              /\ managerSpec = plan /\ managerApplied = plan
              /\ scaler = [mode |-> mode, paused |-> FALSE, replicas |-> plan, ready |-> FALSE,
                           lost |-> FALSE]
              /\ plan # EmptyPlan => n = Size[plan]
              /\ sts = [replicas |-> n, env |-> n, status |-> n]
              /\ pods = {[ordinal |-> i, env |-> n, restarted |-> TRUE] : i \in 1..n}
        /\ managerReady = FALSE
        /\ seen = [manager |-> ManagerObject, sts |-> sts, scaler |-> scaler]
        /\ current = Objects
        /\ work = Idle
        /\ requested = TRUE /\ missed = FALSE
        /\ changes = 0 /\ faults = 0

------------------------------------------------------------------------------
(* The API server and the cache. *)

Fault == faults < MaxFaults /\ faults' = faults + 1

(* Object o got a new version: the cache is behind, a copy in use outdated. *)
Outdated(w, o) == IF w.pc = "assigned" THEN [w EXCEPT !.view.fresh = @ \ {o}]
                  ELSE IF w.pc = "report" /\ o = "scaler" THEN [w EXCEPT !.fresh = FALSE]
                  ELSE w

NewVersion(o) == current' = current \ {o}

(* The map function of a kind of object asks for the scalers that refer to *)
(* it; if it cannot list them, it says so in the log and asks for none.    *)
Notify == \/ requested' = TRUE /\ UNCHANGED <<missed, faults>>
          \/ /\ FailingLookups /\ Fault
             /\ missed' = TRUE /\ UNCHANGED requested

(* A watch event reaches the cache and the map function. The scaler's own  *)
(* object has none, and only a change of its specification makes a request: *)
(* GenerationChangedPredicate drops the others.                            *)
Deliver(o) ==
    /\ o \notin current
    /\ current' = current \cup {o}
    /\ seen' = [seen EXCEPT ![o] = CASE o = "manager" -> ManagerObject
                                     [] o = "sts"     -> sts
                                     [] o = "scaler"  -> scaler]
    /\ \/ o # "scaler" /\ Notify
       \/ /\ o = "scaler"
          /\ requested' = (requested \/ scaler.paused # seen.scaler.paused)
          /\ UNCHANGED <<missed, faults>>
    /\ UNCHANGED <<partition, manager, sts, pods, scaler, work, changes>>

------------------------------------------------------------------------------
(* What Reconcile decides, from the copies in a view v. *)

View == [plan |-> partition.plan, planReady |-> partition.ready, manager |-> seen.manager,
         sts |-> seen.sts, scaler |-> seen.scaler, fresh |-> current]

(* Mutant: replicas are counted from the greatest ID, as if IDs began at 1. *)
DesiredOneMore(v) == Size[v.plan] + 1

Desired(v) == Size[v.plan]
Restart(v) == v.scaler.mode = "rollout-restart"

NotReady(v) == v.scaler.paused \/ ~v.planReady \/ ~v.manager.ready

(* Mutant: the replicas are taken to zero after the shard manager is asked. *)
X0YTransitionOnceAsked(v) ==
    v.scaler.mode = "x0y" /\ v.plan = v.manager.spec /\ v.plan # v.scaler.replicas

X0YTransitionPending(v) == v.scaler.mode = "x0y" /\ v.plan # v.scaler.replicas

IsZero(v) == v.sts.replicas = 0 \/ v.sts.status = 0

NeedsEnforcement(v) == \/ v.sts.replicas # Desired(v)
                       \/ Desired(v) > 0 /\ v.sts.status = 0
                       \/ v.sts.env # Desired(v)

(* Mutant: zero replicas asked for are taken for zero replicas running. *)
ZeroingUntilAsked(v) == ~NotReady(v) /\ X0YTransitionPending(v) /\ v.sts.replicas > 0

(* The phases, in the order in which Reconcile looks for them. *)
Zeroing(v)   == ~NotReady(v) /\ X0YTransitionPending(v) /\ v.sts.status > 0
Reviving(v)  == ~NotReady(v) /\ ~X0YTransitionPending(v) /\ Desired(v) > 0 /\ IsZero(v)
Proceeding(v) == ~NotReady(v) /\ ~Zeroing(v) /\ ~Reviving(v)

(* Mutant: the plan in the manager's specification is taken for carried out. *)
ScalingOnceAsked(v) == v.plan = v.manager.spec /\ v.scaler.replicas # v.plan

Scaling(v)   == v.plan = v.manager.applied /\ v.scaler.replicas # v.plan
Maintaining(v) == v.plan = v.manager.applied /\ v.scaler.replicas = v.plan

------------------------------------------------------------------------------
(* The writes of Reconcile. *)

(* Only the status is left to write: readiness, the plan it names, and     *)
(* whether Reconcile then returns an error or a delay to be called again.  *)
ReportNext(v, replicas, isReady, retry) ==
    work' = [pc |-> "report", replicas |-> replicas, ready |-> isReady, retry |-> retry,
             lost |-> FALSE, fresh |-> "scaler" \in v.fresh]

Conclude(v, isReady, retry) ==
    /\ ReportNext(v, v.scaler.replicas, isReady, retry)
    /\ UNCHANGED <<manager, sts, pods, current, faults>>

(* A call for object o returns an error, without effect. *)
Refused(o, v) == \/ o \notin v.fresh /\ UNCHANGED faults
                 \/ Fault

(* The API server takes the new replicas, variable and restart annotation. *)
PutStatefulSet(v, n, restart) ==
    /\ "sts" \in v.fresh
    /\ sts' = [sts EXCEPT !.replicas = n, !.env = n]
    /\ pods' = IF restart THEN {[p EXCEPT !.restarted = FALSE] : p \in pods} ELSE pods
    /\ IF sts' = sts /\ ~restart THEN UNCHANGED current ELSE NewVersion("sts")

(* ScaleTo: all its outcomes; the plan adopted is reported only on success. *)
ScaleTo(v, n, restart, adopted) ==
    /\ \/ /\ PutStatefulSet(v, n, restart)
          /\ ReportNext(v, adopted, FALSE, TRUE)
          /\ UNCHANGED faults
       \/ /\ PutStatefulSet(v, n, restart)
          /\ Fault
          /\ ReportNext(v, v.scaler.replicas, FALSE, TRUE)
       \/ /\ Refused("sts", v)
          /\ ReportNext(v, v.scaler.replicas, FALSE, TRUE)
          /\ UNCHANGED <<sts, pods, current>>
    /\ UNCHANGED manager

(* The steps once the shard manager's specification is the plan. *)
WaitForShardManager(v) == v.plan # v.manager.applied /\ Conclude(v, FALSE, TRUE)

(* Mutant: the plan is not noted with the restart that it needed. *)
ScaleWithoutAdopting(v) ==
    /\ Scaling(v)
    /\ Restart(v) \/ v.sts.status # Desired(v)
    /\ ScaleTo(v, Desired(v), Restart(v), v.scaler.replicas)

ScaleToPlan(v) == /\ Scaling(v)
                  /\ Restart(v) \/ v.sts.status # Desired(v)
                  /\ ScaleTo(v, Desired(v), Restart(v), v.plan)

(* Mutant: nothing asks for another look once the plan is noted. *)
AdoptAndSleep(v) == /\ Scaling(v)
                    /\ ~Restart(v) /\ v.sts.status = Desired(v)
                    /\ ReportNext(v, v.plan, FALSE, FALSE)
                    /\ UNCHANGED <<manager, sts, pods, current, faults>>

AdoptPlan(v) == /\ Scaling(v)
                /\ ~Restart(v) /\ v.sts.status = Desired(v)
                /\ ReportNext(v, v.plan, FALSE, TRUE)
                /\ UNCHANGED <<manager, sts, pods, current, faults>>

EnforceDesiredState(v) == /\ Maintaining(v) /\ NeedsEnforcement(v)
                          /\ ScaleTo(v, Desired(v), FALSE, v.scaler.replicas)

WaitForScale(v) == /\ Maintaining(v) /\ ~NeedsEnforcement(v)
                   /\ v.sts.status # Desired(v)
                   /\ Conclude(v, FALSE, TRUE)

Done(v) == /\ Maintaining(v) /\ ~NeedsEnforcement(v)
           /\ v.sts.status = Desired(v)
           /\ Conclude(v, TRUE, FALSE)

AfterAssignment(v) == \/ WaitForShardManager(v)
                      \/ ScaleToPlan(v)
                      \/ AdoptPlan(v)
                      \/ EnforceDesiredState(v)
                      \/ WaitForScale(v)
                      \/ Done(v)

(* A paused scaler looks again after a while; for the rest it waits for events. *)
StopNotReady(v) == NotReady(v) /\ Conclude(v, FALSE, v.scaler.paused)

(* A lookup fails, which is taken for the absence of the object: Reconcile *)
(* waits for the event of its creation.                                    *)
StopLookupFailed(v) ==
    /\ FailingLookups /\ ~v.scaler.paused
    /\ Fault
    /\ work' = [pc |-> "report", replicas |-> v.scaler.replicas, ready |-> FALSE,
                retry |-> FALSE, lost |-> TRUE, fresh |-> "scaler" \in v.fresh]
    /\ UNCHANGED <<manager, sts, pods, current>>

BeginScalingToZero(v) == /\ Zeroing(v) /\ v.sts.replicas > 0
                         /\ ScaleTo(v, 0, FALSE, v.scaler.replicas)

WaitForZero(v) == /\ Zeroing(v) /\ v.sts.replicas = 0
                  /\ Conclude(v, FALSE, TRUE)

EnforceFromZero(v) == /\ Reviving(v)
                      /\ ScaleTo(v, Desired(v), FALSE, v.scaler.replicas)

(* The shard manager is asked for the plan, and Reconcile goes on. *)
AssignShards(v) ==
    /\ Proceeding(v) /\ v.plan # v.manager.spec
    /\ \/ /\ "manager" \in v.fresh
          /\ Manager!Request(v.plan)
          /\ NewVersion("manager")
          /\ \/ /\ work' = [pc |-> "assigned", view |-> [v EXCEPT !.fresh = @ \ {"manager"}]]
                /\ UNCHANGED faults
             \/ Fault /\ ReportNext(v, v.scaler.replicas, FALSE, TRUE)
       \/ /\ Refused("manager", v)
          /\ ReportNext(v, v.scaler.replicas, FALSE, TRUE)
          /\ UNCHANGED <<manager, current>>
    /\ UNCHANGED <<sts, pods>>

KeepAssignment(v) == Proceeding(v) /\ v.plan = v.manager.spec /\ AfterAssignment(v)

(* A request is taken; those that come while it is served are kept. The    *)
(* rate limit (GlobalRateLimit) leaves the watch of the scaler's own object *)
(* time to show the status that the previous Reconcile wrote.              *)
Begin == /\ work.pc = "idle"
         /\ requested
         /\ RateLimited => "scaler" \in current
         /\ requested' = FALSE /\ missed' = FALSE
         /\ \/ StopNotReady(View)
            \/ StopLookupFailed(View)
            \/ BeginScalingToZero(View)
            \/ WaitForZero(View)
            \/ EnforceFromZero(View)
            \/ AssignShards(View)
            \/ KeepAssignment(View)
         /\ UNCHANGED <<partition, scaler, seen, changes>>

ContinueAssigned == /\ work.pc = "assigned"
                    /\ AfterAssignment(work.view)
                    /\ UNCHANGED <<partition, scaler, seen, requested, missed, changes>>

(* Status().Update: taken when the object read is still the server's. An   *)
(* update that changes nothing makes no version; the Ready condition's     *)
(* reason is not kept here, so an update of it alone may or may not.       *)
PutStatus == /\ work.fresh
             /\ scaler' = [scaler EXCEPT !.replicas = work.replicas, !.ready = work.ready,
                                         !.lost = work.lost]
             /\ \/ NewVersion("scaler")
                \/ scaler' = scaler /\ UNCHANGED current

Report == /\ work.pc = "report"
          /\ PutStatus
          /\ work' = Idle
          /\ requested' = (requested \/ work.retry)
          /\ UNCHANGED <<partition, manager, sts, pods, seen, missed, changes, faults>>

(* Mutant: the error of the status update is swallowed. *)
ReportFailsSilently ==
    /\ work.pc = "report"
    /\ \/ ~work.fresh /\ UNCHANGED <<scaler, current, faults>>
       \/ Fault /\ UNCHANGED <<scaler, current>>
       \/ Fault /\ PutStatus
    /\ work' = Idle
    /\ UNCHANGED <<partition, manager, sts, pods, seen, requested, missed, changes>>

(* The status is refused, lost, or taken without an answer: an error, retried. *)
ReportFails == /\ work.pc = "report"
               /\ \/ ~work.fresh /\ UNCHANGED <<scaler, current, faults>>
                  \/ Fault /\ UNCHANGED <<scaler, current>>
                  \/ Fault /\ PutStatus
               /\ work' = Idle
               /\ requested' = TRUE
               /\ UNCHANGED <<partition, manager, sts, pods, seen, missed, changes>>

(* The process stops anywhere; the next one lists everything anew. *)
Crash == /\ Fault
         /\ work' = Idle
         /\ requested' = TRUE /\ missed' = FALSE
         /\ seen' = [manager |-> ManagerObject, sts |-> sts, scaler |-> scaler]
         /\ current' = Objects
         /\ UNCHANGED <<partition, manager, sts, pods, scaler, changes>>

Reconcile == Begin \/ ContinueAssigned \/ Report \/ ReportFails

------------------------------------------------------------------------------
(* The others. *)

(* The published partition has been carried out by all three. *)
InPlace ==
    LET n == Size[partition.plan]
    IN /\ ManagerObject = [spec |-> partition.plan, applied |-> partition.plan, ready |-> TRUE]
       /\ sts = [replicas |-> n, env |-> n, status |-> n]
       /\ pods = {[ordinal |-> i, env |-> n, restarted |-> TRUE] : i \in 1..n}
       /\ scaler.replicas = partition.plan

(* Pods the StatefulSet controller replaces or removes. *)
Condemned(p) == p.ordinal > sts.replicas \/ p.env # sts.env \/ ~p.restarted

(* Nothing is under way that would make the scaler run again. *)
Quiet == /\ ~requested /\ work.pc = "idle"
         /\ {"manager", "sts"} \subseteq current
         /\ seen.scaler.paused = scaler.paused
         /\ managerApplied = managerSpec /\ managerReady
         /\ sts.status = sts.replicas /\ Cardinality(pods) = sts.replicas
         /\ \A p \in pods : ~Condemned(p)

(* The evaluator publishes the partition it has elected, or stops being ready. *)
Publish(plan, isReady) ==
    /\ changes < MaxChanges /\ changes' = changes + 1
    /\ partition # [plan |-> plan, ready |-> isReady]
    /\ Overlap \/ (Quiet /\ InPlace) \/ plan = partition.plan
    /\ partition' = [plan |-> plan, ready |-> isReady]
    /\ Notify
    /\ UNCHANGED <<manager, sts, pods, scaler, seen, current, work>>

ManagerFulfils ==
    /\ managerApplied # managerSpec \/ ~managerReady
    /\ Manager!Fulfil
    /\ NewVersion("manager") /\ work' = Outdated(work, "manager")
    /\ UNCHANGED <<partition, sts, pods, scaler, seen, requested, missed, changes, faults>>

ManagerRefuses ==
    /\ managerReady /\ Fault
    /\ Manager!Refuse
    /\ NewVersion("manager") /\ work' = Outdated(work, "manager")
    /\ UNCHANGED <<partition, sts, pods, scaler, seen, requested, missed, changes>>

(* Kubernetes creates the missing pods from the template, deletes those    *)
(* beyond the count or of another template, and counts them in the status. *)
CreatePod(i) ==
    /\ i <= sts.replicas
    /\ \A p \in pods : p.ordinal # i
    /\ pods' = pods \cup {[ordinal |-> i, env |-> sts.env, restarted |-> TRUE]}
    /\ UNCHANGED <<partition, manager, sts, scaler, seen, current, work, requested,
                   missed, changes, faults>>

DeletePod(p) ==
    /\ Condemned(p)
    /\ pods' = pods \ {p}
    /\ UNCHANGED <<partition, manager, sts, scaler, seen, current, work, requested,
                   missed, changes, faults>>

CountPods ==
    /\ sts.status # Cardinality(pods)
    /\ sts' = [sts EXCEPT !.status = Cardinality(pods)]
    /\ NewVersion("sts") /\ work' = Outdated(work, "sts")
    /\ UNCHANGED <<partition, manager, pods, scaler, seen, requested, missed, changes, faults>>

StatefulSetController == \/ \E i \in 1..MaxReplicas : CreatePod(i)
                         \/ \E p \in pods : DeletePod(p)
                         \/ CountPods

TogglePause ==
    /\ "pause" \in UserActs
    /\ changes < MaxChanges /\ changes' = changes + 1
    /\ scaler' = [scaler EXCEPT !.paused = ~@]
    /\ NewVersion("scaler") /\ work' = Outdated(work, "scaler")
    /\ UNCHANGED <<partition, manager, sts, pods, seen, requested, missed, faults>>

Drift(n, env) ==
    /\ "drift" \in UserActs
    /\ changes < MaxChanges /\ changes' = changes + 1
    /\ sts' = [sts EXCEPT !.replicas = n, !.env = env]
    /\ sts' # sts
    /\ NewVersion("sts") /\ work' = Outdated(work, "sts")
    /\ UNCHANGED <<partition, manager, pods, scaler, seen, requested, missed, faults>>

------------------------------------------------------------------------------
Next == \/ Reconcile
        \/ \E o \in Objects : Deliver(o)
        \/ Crash
        \/ \E plan \in Plans, isReady \in BOOLEAN : Publish(plan, isReady)
        \/ ManagerFulfils \/ ManagerRefuses
        \/ StatefulSetController
        \/ TogglePause
        \/ \E n, env \in Counts : Drift(n, env)

Spec == Init /\ [][Next]_vars

(* The work queue is served, watches deliver, Kubernetes and the shard     *)
(* manager (ShardManager!EventuallyTruthful) carry out what they are asked. *)
Fairness == /\ WF_vars(Reconcile)
            /\ \A o \in Objects : WF_vars(Deliver(o))
            /\ WF_vars(ManagerFulfils)
            /\ WF_vars(StatefulSetController)

FairSpec == Spec /\ Fairness

------------------------------------------------------------------------------
Honest == scaler.ready = partition.ready /\ (partition.ready => InPlace)

(* The scaler never falls asleep before the published partition is in      *)
(* place: with no request queued, no event on its way and Kubernetes and   *)
(* the shard manager at rest, the shards are assigned, every replica runs  *)
(* with the right count, and Ready is reported exactly when it should be.  *)
(* This rests on each early return of Reconcile either requeueing or       *)
(* having an event to come (lines 168-563). A lookup that fails for a       *)
(* moment has neither, and a map function that fails for a moment loses    *)
(* the event: the exceptions, until the next Reconcile.                    *)
SettledIsInPlace == Quiet => Honest \/ scaler.lost \/ missed

(* A published partition is eventually in place and stays so, once the     *)
(* others leave it alone, whatever crashed or was refused on the way.      *)
EventuallyInPlace == <>[](scaler.paused \/ scaler.lost \/ missed \/ Honest)

(* "This effectively guarantees that at no point in time there would be    *)
(* two or more replicas with different value" (DESIGN.md, X-0-Y): the      *)
(* pods that run together agree on how many they are.                      *)
NoMixedEnv == \A p, q \in pods : p.env = q.env

(* In X-0-Y mode the StatefulSet is at zero before the shard manager gets  *)
(* the change (replicasetscaler_types.go:37-41): the shards are not moved  *)
(* to other replicas while any replica is running.                         *)
ShardsMoveAtZero == [][managerApplied' # managerApplied => pods = {}]_vars

(* The shard manager is served first, then the StatefulSet: a replica that *)
(* starts is told the number of replicas that the shards are assigned to   *)
(* at that moment (replicasetscaler_types.go:31-41).                       *)
PodsStartUnderTheirPlan ==
    [][\A p \in pods' \ pods : p.env = Size[managerApplied] \/ ~p.restarted]_vars
=============================================================================
