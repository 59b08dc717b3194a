------------------------ MODULE ReplicaSetScalerProofs ------------------------
(***************************************************************************)
(* What TLAPS proves of the Replica Set Scaler, for every set of plans,    *)
(* any number of replicas, in each mode, whatever users and the others do. *)
(***************************************************************************)
EXTENDS ReplicaSetScaler, FiniteSetTheorems, TLAPS

------------------------------------------------------------------------------
(* Types. *)

(* What a Reconcile reads, and what it makes of it. *)
LEMMA ViewType == TypeOK => View \in Views
  BY DEF TypeOK, View, Views

LEMMA DesiredType ==
  ASSUME NEW v \in Views
  PROVE  Desired(v) \in Counts /\ Restart(v) \in BOOLEAN
  BY ScalerAssumption DEF Views, Desired, Restart, Counts

(* The object of the shard manager, of whichever version. *)
LEMMA ManagerType == TypeOK => ManagerObject \in Managers
  BY DEF TypeOK, ManagerObject, Managers

(* The record of a Reconcile that has only its status left to write. *)
LEMMA RecordType ==
  ASSUME NEW replicas \in Plans, NEW isReady \in BOOLEAN, NEW retry \in BOOLEAN,
         NEW lost \in BOOLEAN, NEW fresh \in BOOLEAN,
         work' = [pc |-> "report", replicas |-> replicas, ready |-> isReady, retry |-> retry,
                  lost |-> lost, fresh |-> fresh]
  PROVE  /\ work' \in Works
         /\ work'.pc = "report" /\ work'.replicas = replicas /\ work'.ready = isReady
         /\ work'.retry = retry /\ work'.lost = lost
  BY DEF Works

LEMMA ReportType ==
  ASSUME NEW v \in Views, NEW replicas \in Plans, NEW isReady \in BOOLEAN, NEW retry \in BOOLEAN,
         ReportNext(v, replicas, isReady, retry)
  PROVE  /\ work' \in Works
         /\ work'.pc = "report" /\ work'.replicas = replicas /\ work'.ready = isReady
         /\ work'.retry = retry /\ work'.lost = FALSE
<1> DEFINE fresh == "scaler" \in v.fresh
<1>1. fresh \in BOOLEAN
  OBVIOUS
<1>2. work' = [pc |-> "report", replicas |-> replicas, ready |-> isReady, retry |-> retry,
               lost |-> FALSE, fresh |-> fresh]
  BY DEF ReportNext
<1> HIDE DEF fresh
<1> QED  BY <1>1, <1>2, RecordType

(* The records of one that waits, and of one that goes on. *)
LEMMA IdleType == Idle \in Works /\ Idle.pc = "idle"
  BY DEF Idle, Works

(* A copy in use may become outdated; a Reconcile stays where it is. *)
LEMMA OutdatedType ==
  ASSUME NEW w \in Works, NEW o \in Objects
  PROVE  /\ Outdated(w, o) \in Works /\ Outdated(w, o).pc = w.pc
         /\ w.pc = "report" => /\ Outdated(w, o).retry = w.retry
                               /\ Outdated(w, o).lost = w.lost
                               /\ Outdated(w, o).ready = w.ready
                               /\ Outdated(w, o).replicas = w.replicas
<1>1. CASE w = Idle
  BY <1>1 DEF Outdated, Idle, Works
<1>2. CASE w \in [pc : {"assigned"}, view : Views]
  <2>1. [w EXCEPT !.view.fresh = @ \ {o}] \in [pc : {"assigned"}, view : Views]
    <3>1. [w.view EXCEPT !.fresh = @ \ {o}] \in Views
      BY <1>2 DEF Views
    <3> QED  BY <1>2, <3>1
  <2> QED  BY <1>2, <2>1 DEF Outdated, Works
<1>3. CASE w \in [pc : {"report"}, replicas : Plans, ready : BOOLEAN, retry : BOOLEAN,
                  lost : BOOLEAN, fresh : BOOLEAN]
  BY <1>3 DEF Outdated, Works
<1> QED  BY <1>1, <1>2, <1>3 DEF Works

(* All outcomes of an update of the StatefulSet. *)
LEMMA ScaleToType ==
  ASSUME TypeOK, NEW v \in Views, NEW n \in Counts, NEW restart \in BOOLEAN,
         NEW adopted \in Plans, ScaleTo(v, n, restart, adopted)
  PROVE  /\ sts' \in StatefulSets /\ pods' \subseteq Pods /\ current' \subseteq Objects
         /\ faults' \in 0..MaxFaults /\ UNCHANGED manager
         /\ work' \in Works /\ work'.pc = "report" /\ work'.retry = TRUE
<1>1. v.scaler.replicas \in Plans
  BY DEF Views, Scalers
<1>2. work' \in Works /\ work'.pc = "report" /\ work'.retry = TRUE
  BY <1>1, ReportType DEF ScaleTo
<1>3. faults' \in 0..MaxFaults
  <2>1. faults \in 0..MaxFaults
    BY DEF TypeOK
  <2>2. faults' = faults \/ Fault
    BY DEF ScaleTo, Refused
  <2> QED  BY <2>1, <2>2, ScalerAssumption DEF Fault
<1>4. ASSUME PutStatefulSet(v, n, restart)
      PROVE  sts' \in StatefulSets /\ pods' \subseteq Pods /\ current' \subseteq Objects
  <2>1. sts' \in StatefulSets
    BY <1>4 DEF PutStatefulSet, TypeOK, StatefulSets
  <2>2. pods' \subseteq Pods
    <3>1. pods' = pods \/ pods' = {[p EXCEPT !.restarted = FALSE] : p \in pods}
      BY <1>4 DEF PutStatefulSet
    <3>2. \A p \in pods : [p EXCEPT !.restarted = FALSE] \in Pods
      BY DEF TypeOK, Pods
    <3> QED  BY <3>1, <3>2 DEF TypeOK
  <2>3. current' \subseteq Objects
    BY <1>4 DEF PutStatefulSet, NewVersion, TypeOK
  <2> QED  BY <2>1, <2>2, <2>3
<1>5. sts' \in StatefulSets /\ pods' \subseteq Pods /\ current' \subseteq Objects
  BY <1>4 DEF ScaleTo, TypeOK
<1> QED  BY <1>2, <1>3, <1>5 DEF ScaleTo

(* Whatever comes after the shard manager's specification is the plan. *)
LEMMA AfterType ==
  ASSUME TypeOK, NEW v \in Views, AfterAssignment(v)
  PROVE  /\ sts' \in StatefulSets /\ pods' \subseteq Pods /\ current' \subseteq Objects
         /\ faults' \in 0..MaxFaults /\ UNCHANGED manager
         /\ work' \in Works /\ work'.pc = "report"
         /\ work'.retry = TRUE \/ Done(v)
<1> USE DEF TypeOK
<1>1. v.scaler.replicas \in Plans /\ v.plan \in Plans
  BY DEF Views, Scalers
<1>2. CASE WaitForShardManager(v) \/ WaitForScale(v)
  BY <1>1, <1>2, ReportType DEF WaitForShardManager, WaitForScale, Conclude
<1>3. CASE ScaleToPlan(v)
  BY <1>1, <1>3, DesiredType, ScaleToType DEF ScaleToPlan
<1>4. CASE AdoptPlan(v)
  BY <1>1, <1>4, ReportType DEF AdoptPlan
<1>5. CASE EnforceDesiredState(v)
  BY <1>1, <1>5, DesiredType, ScaleToType DEF EnforceDesiredState
<1>6. CASE Done(v)
  BY <1>1, <1>6, ReportType DEF Done, Conclude
<1> QED  BY <1>2, <1>3, <1>4, <1>5, <1>6 DEF AfterAssignment

(* What Begin leads to, in each phase. *)
LEMMA BeginType ==
  ASSUME TypeOK, Begin
  PROVE  /\ managerSpec' \in Plans /\ UNCHANGED <<managerApplied, managerReady>>
         /\ sts' \in StatefulSets /\ pods' \subseteq Pods /\ current' \subseteq Objects
         /\ faults' \in 0..MaxFaults
         /\ work' \in Works
         /\ \/ work'.pc = "report" /\ (work'.retry = TRUE \/ work'.lost = TRUE)
            \/ work'.pc = "assigned" /\ "manager" \notin current'
            \/ /\ StopNotReady(View) /\ ~View.scaler.paused
               /\ work'.pc = "report" /\ work'.ready = FALSE
            \/ KeepAssignment(View) /\ Done(View) /\ work'.pc = "report"
<1> DEFINE v == View
<1> USE DEF TypeOK
<1>1. v \in Views
  BY ViewType
<1> HIDE DEF v
<1>2. v.scaler.replicas \in Plans /\ v.plan \in Plans /\ v.scaler.paused \in BOOLEAN
  BY <1>1 DEF Views, Scalers
<1>3. faults' = faults \/ Fault => faults' \in 0..MaxFaults
  BY ScalerAssumption DEF Fault
<1>4. CASE StopNotReady(v)
  <2>1. ReportNext(v, v.scaler.replicas, FALSE, v.scaler.paused)
    BY <1>4 DEF StopNotReady, Conclude
  <2> DEFINE fresh == "scaler" \in v.fresh
  <2>2. /\ work' \in Works /\ work'.pc = "report" /\ work'.ready = FALSE
        /\ work'.retry = v.scaler.paused
    <3>1. work' = [pc |-> "report", replicas |-> v.scaler.replicas, ready |-> FALSE,
                   retry |-> v.scaler.paused, lost |-> FALSE, fresh |-> fresh]
      BY <2>1 DEF ReportNext
    <3>2. fresh \in BOOLEAN
      OBVIOUS
    <3> HIDE DEF fresh
    <3> QED  BY <1>2, <3>1, <3>2, RecordType
  <2>3. UNCHANGED <<manager, sts, pods, current, faults>>
    BY <1>4 DEF StopNotReady, Conclude
  <2>4. \/ work'.retry = TRUE
        \/ StopNotReady(View) /\ ~View.scaler.paused
    BY <1>2, <1>4, <2>2 DEF v
  <2> QED  BY <2>2, <2>3, <2>4 DEF manager
<1>5. CASE StopLookupFailed(v)
  <2> DEFINE fresh == "scaler" \in v.fresh
  <2>1. fresh \in BOOLEAN
    OBVIOUS
  <2>2. work' = [pc |-> "report", replicas |-> v.scaler.replicas, ready |-> FALSE,
                 retry |-> FALSE, lost |-> TRUE, fresh |-> fresh]
    BY <1>5 DEF StopLookupFailed
  <2> HIDE DEF fresh
  <2>3. work' \in Works /\ work'.pc = "report" /\ work'.lost = TRUE
    BY <1>2, <2>1, <2>2, RecordType
  <2> QED  BY <1>3, <1>5, <2>3 DEF StopLookupFailed, manager
<1>6. CASE BeginScalingToZero(v) \/ EnforceFromZero(v)
  <2>1. 0 \in Counts /\ Desired(v) \in Counts
    BY <1>1, DesiredType, ScalerAssumption DEF Counts
  <2>2. \E n \in Counts : ScaleTo(v, n, FALSE, v.scaler.replicas)
    BY <1>6, <2>1 DEF BeginScalingToZero, EnforceFromZero
  <2> QED  BY <1>1, <1>2, <2>2, ScaleToType DEF manager
<1>7. CASE WaitForZero(v)
  BY <1>1, <1>2, <1>7, ReportType DEF WaitForZero, Conclude, manager
<1>8. CASE AssignShards(v)
  <2>1. CASE ReportNext(v, v.scaler.replicas, FALSE, TRUE)
    <3>1. work' \in Works /\ work'.pc = "report" /\ work'.retry = TRUE
      BY <1>1, <1>2, <2>1, ReportType
    <3>2. faults' = faults \/ Fault
      BY <1>8 DEF AssignShards, Refused
    <3>3. /\ managerSpec' \in Plans /\ UNCHANGED <<managerApplied, managerReady, sts, pods>>
          /\ current' \subseteq Objects
      BY <1>2, <1>8 DEF AssignShards, Manager!Request, NewVersion, manager
    <3> QED  BY <1>3, <3>1, <3>2, <3>3
  <2>2. CASE ~ReportNext(v, v.scaler.replicas, FALSE, TRUE)
    <3>1. /\ Manager!Request(v.plan) /\ NewVersion("manager")
          /\ work' = [pc |-> "assigned", view |-> [v EXCEPT !.fresh = @ \ {"manager"}]]
          /\ UNCHANGED <<faults, sts, pods>>
      BY <1>8, <2>2 DEF AssignShards
    <3>2. [v EXCEPT !.fresh = @ \ {"manager"}] \in Views
      BY <1>1 DEF Views
    <3>3. work' \in Works /\ work'.pc = "assigned"
      BY <3>1, <3>2 DEF Works
    <3> QED  BY <1>2, <3>1, <3>3 DEF Manager!Request, NewVersion
  <2> QED  BY <2>1, <2>2
<1>9. CASE KeepAssignment(v)
  <2>1. AfterAssignment(v)
    BY <1>9 DEF KeepAssignment
  <2> QED  BY <1>1, <1>9, <2>1, AfterType DEF manager, v
<1> QED  BY <1>4, <1>5, <1>6, <1>7, <1>8, <1>9 DEF Begin, v

(* A status that is written is one, and says what the Reconcile came to. *)
LEMMA PutType ==
  ASSUME TypeOK, work.pc = "report", PutStatus
  PROVE  /\ scaler' \in Scalers /\ current' \subseteq Objects
         /\ scaler'.replicas = work.replicas /\ scaler'.ready = work.ready
         /\ scaler'.lost = work.lost
         /\ current \ {"scaler"} \subseteq current'
<1>1. /\ work.replicas \in Plans /\ work.ready \in BOOLEAN /\ work.lost \in BOOLEAN
  BY DEF TypeOK, Works, Idle
<1>2. scaler \in Scalers /\ current \subseteq Objects
  BY DEF TypeOK
<1>3. scaler' = [scaler EXCEPT !.replicas = work.replicas, !.ready = work.ready,
                               !.lost = work.lost]
  BY DEF PutStatus
<1>4. /\ scaler' \in Scalers
      /\ scaler'.replicas = work.replicas /\ scaler'.ready = work.ready
      /\ scaler'.lost = work.lost
  BY <1>1, <1>2, <1>3 DEF Scalers
<1>5. current' \subseteq Objects /\ current \ {"scaler"} \subseteq current'
  BY <1>2 DEF PutStatus, NewVersion
<1> QED  BY <1>4, <1>5

------------------------------------------------------------------------------
(* Pods. *)

(* No two pods have one ordinal. *)
OnePodEach == \A p, q \in pods : p.ordinal = q.ordinal => p = q

(* So there are no more than the greatest ordinal, and one of each if there *)
(* are as many.                                                             *)
LEMMA PodsCount ==
  ASSUME pods \subseteq Pods, OnePodEach
  PROVE  /\ IsFiniteSet(pods) /\ Cardinality(pods) \in Counts
         /\ \A n \in Counts :
              (\A p \in pods : p.ordinal <= n) /\ Cardinality(pods) = n
                => \A i \in 1..n : \E p \in pods : p.ordinal = i
<1> DEFINE f == [p \in pods |-> p.ordinal]
<1>1. ASSUME NEW n \in Counts, \A p \in pods : p.ordinal <= n
      PROVE  /\ IsFiniteSet(pods) /\ Cardinality(pods) <= n
             /\ Cardinality(pods) = n => \A i \in 1..n : \E p \in pods : p.ordinal = i
  <2>1. n \in Nat
    BY ScalerAssumption DEF Counts
  <2>2. f \in Injection(pods, 1..n)
    <3>1. f \in [pods -> 1..n]
      BY <1>1, <2>1, ScalerAssumption DEF Pods
    <3>2. \A p, q \in pods : f[p] = f[q] => p = q
      BY DEF OnePodEach
    <3> HIDE DEF f
    <3> QED  BY <3>1, <3>2 DEF Injection, IsInjective
  <2>3. IsFiniteSet(1..n) /\ Cardinality(1..n) = n
    BY <2>1, FS_Interval
  <2>4. /\ IsFiniteSet(pods) /\ Cardinality(pods) <= n
        /\ Cardinality(pods) = n => f \in Surjection(pods, 1..n)
    <3> HIDE DEF f
    <3> QED  BY <2>2, <2>3, FS_Injection
  <2>5. ASSUME f \in Surjection(pods, 1..n), NEW i \in 1..n
        PROVE  \E p \in pods : p.ordinal = i
    BY <2>5 DEF Surjection
  <2> QED  BY <2>4, <2>5
<1>2. MaxReplicas \in Counts /\ \A p \in pods : p.ordinal <= MaxReplicas
  BY ScalerAssumption DEF Pods, Counts
<1>3. IsFiniteSet(pods) /\ Cardinality(pods) \in Nat /\ Cardinality(pods) <= MaxReplicas
  BY <1>1, <1>2, FS_CardinalityType
<1> QED  BY <1>1, <1>3, ScalerAssumption DEF Counts

(* A Reconcile leaves the pods alone or has them all restarted. *)
LEMMA PodsRestarted ==
  ASSUME Reconcile
  PROVE  pods' = pods \/ pods' = {[p EXCEPT !.restarted = FALSE] : p \in pods}
<1>1. ASSUME NEW v, NEW n, NEW restart, NEW adopted, ScaleTo(v, n, restart, adopted)
      PROVE  pods' = pods \/ pods' = {[p EXCEPT !.restarted = FALSE] : p \in pods}
  BY <1>1 DEF ScaleTo, PutStatefulSet
<1>2. ASSUME NEW v, AfterAssignment(v)
      PROVE  pods' = pods \/ pods' = {[p EXCEPT !.restarted = FALSE] : p \in pods}
  BY <1>1, <1>2 DEF AfterAssignment, WaitForShardManager, ScaleToPlan, AdoptPlan,
     EnforceDesiredState, WaitForScale, Done, Conclude
<1>3. CASE Begin
  BY <1>1, <1>2, <1>3 DEF Begin, StopNotReady, StopLookupFailed, BeginScalingToZero, WaitForZero,
     EnforceFromZero, AssignShards, KeepAssignment, Conclude
<1>4. CASE ContinueAssigned \/ Report \/ ReportFails
  BY <1>2, <1>4 DEF ContinueAssigned, Report, ReportFails
<1> QED  BY <1>3, <1>4 DEF Reconcile

(* A pod is created only where there is none. *)
LEMMA OnePodEachPreserved == TypeOK /\ OnePodEach /\ [Next]_vars => OnePodEach'
<1> SUFFICES ASSUME TypeOK, OnePodEach, [Next]_vars PROVE OnePodEach'
  OBVIOUS
<1>1. CASE Reconcile
  <2>1. CASE pods' = {[p EXCEPT !.restarted = FALSE] : p \in pods}
    <3> SUFFICES ASSUME NEW a \in pods', NEW b \in pods', a.ordinal = b.ordinal PROVE a = b
      BY DEF OnePodEach
    <3>1. PICK p \in pods, q \in pods : /\ a = [p EXCEPT !.restarted = FALSE]
                                       /\ b = [q EXCEPT !.restarted = FALSE]
      BY <2>1
    <3>2. p \in Pods /\ q \in Pods
      BY DEF TypeOK
    <3>3. a.ordinal = p.ordinal /\ b.ordinal = q.ordinal
      BY <3>1, <3>2 DEF Pods
    <3> QED  BY <3>1, <3>3 DEF OnePodEach
  <2> QED  BY <1>1, <2>1, PodsRestarted DEF OnePodEach
<1>2. ASSUME NEW i \in 1..MaxReplicas, CreatePod(i) PROVE OnePodEach'
  <2> DEFINE new == [ordinal |-> i, env |-> sts.env, restarted |-> TRUE]
  <2>1. new.ordinal = i
    OBVIOUS
  <2>2. pods' = pods \cup {new} /\ \A p \in pods : p.ordinal # i
    BY <1>2 DEF CreatePod
  <2> HIDE DEF new
  <2> QED  BY <2>1, <2>2 DEF OnePodEach
<1>3. ASSUME NEW p \in pods, DeletePod(p) PROVE OnePodEach'
  BY <1>3 DEF DeletePod, OnePodEach
<1>4. CASE pods' = pods
  BY <1>4 DEF OnePodEach
<1>5. \/ Reconcile \/ pods' = pods
      \/ \E i \in 1..MaxReplicas : CreatePod(i)
      \/ \E p \in pods : DeletePod(p)
  BY DEF Next, vars, Deliver, Crash, Publish, ManagerFulfils, ManagerRefuses,
     StatefulSetController, CountPods, TogglePause, Drift
<1> QED  BY <1>1, <1>2, <1>3, <1>4, <1>5

(* The initial states are of their type. *)
LEMMA InitType == Init => TypeOK /\ OnePodEach
<1> SUFFICES ASSUME Init PROVE TypeOK /\ OnePodEach
  OBVIOUS
<1>1. PICK mode \in Modes, plan \in Plans, n \in Counts :
        /\ managerSpec = plan /\ managerApplied = plan
        /\ scaler = [mode |-> mode, paused |-> FALSE, replicas |-> plan, ready |-> FALSE,
                     lost |-> FALSE]
        /\ sts = [replicas |-> n, env |-> n, status |-> n]
        /\ pods = {[ordinal |-> i, env |-> n, restarted |-> TRUE] : i \in 1..n}
  BY DEF Init
<1>2. managerSpec \in Plans /\ managerApplied \in Plans /\ managerReady \in BOOLEAN
  BY <1>1 DEF Init
<1>3. sts \in StatefulSets /\ scaler \in Scalers
  BY <1>1 DEF StatefulSets, Scalers
<1>4. pods \subseteq Pods
  <2>1. n \in Counts /\ \A i \in 1..n : i \in 1..MaxReplicas
    BY ScalerAssumption DEF Counts
  <2>2. \A i \in 1..n : [ordinal |-> i, env |-> n, restarted |-> TRUE] \in Pods
    BY <2>1 DEF Pods
  <2> QED  BY <1>1, <2>2
<1>5. seen \in [manager : Managers, sts : StatefulSets, scaler : Scalers]
  BY <1>2, <1>3 DEF Init, ManagerObject, Managers
<1>6. current \subseteq Objects /\ work \in Works
  BY IdleType DEF Init
<1>7. changes \in 0..MaxChanges /\ faults \in 0..MaxFaults
  BY ScalerAssumption DEF Init
<1>8. OnePodEach
  <2> SUFFICES ASSUME NEW p \in pods, NEW q \in pods, p.ordinal = q.ordinal PROVE p = q
    BY DEF OnePodEach
  <2>1. PICK i \in 1..n, j \in 1..n :
          /\ p = [ordinal |-> i, env |-> n, restarted |-> TRUE]
          /\ q = [ordinal |-> j, env |-> n, restarted |-> TRUE]
    BY <1>1
  <2> QED  BY <2>1
<1> QED  BY <1>2, <1>3, <1>4, <1>5, <1>6, <1>7, <1>8 DEF Init, TypeOK

(* What is true of the type of everything stays so, one case per action. *)
LEMMA TypePreserved == TypeOK /\ OnePodEach /\ [Next]_vars => TypeOK'
<1> SUFFICES ASSUME TypeOK, OnePodEach, [Next]_vars PROVE TypeOK'
  OBVIOUS
<1>f. Fault \/ faults' = faults => faults' \in 0..MaxFaults
  BY ScalerAssumption DEF TypeOK, Fault
<1>n. Notify => requested' \in BOOLEAN /\ missed' \in BOOLEAN /\ faults' \in 0..MaxFaults
  BY <1>f DEF Notify, TypeOK
<1>c. changes < MaxChanges /\ changes' = changes + 1 => changes' \in 0..MaxChanges
  BY ScalerAssumption DEF TypeOK
<1>1. CASE Begin
  <2>1. UNCHANGED <<partition, scaler, seen, changes>> /\ requested' = FALSE /\ missed' = FALSE
    BY <1>1 DEF Begin
  <2> QED  BY <1>1, <2>1, BeginType DEF TypeOK
<1>2. CASE ContinueAssigned
  <2>1. work.view \in Views
    BY <1>2 DEF ContinueAssigned, TypeOK, Works, Idle
  <2>2. /\ UNCHANGED <<partition, scaler, seen, requested, missed, changes>>
        /\ AfterAssignment(work.view)
    BY <1>2 DEF ContinueAssigned
  <2> QED  BY <2>1, <2>2, AfterType DEF TypeOK, manager
<1>3. CASE Report \/ ReportFails
  <2>1. scaler' \in Scalers /\ current' \subseteq Objects
    BY <1>3, PutType DEF Report, ReportFails, TypeOK
  <2>2. work' \in Works
    BY <1>3, IdleType DEF Report, ReportFails
  <2>3. requested' \in BOOLEAN
    BY <1>3 DEF Report, ReportFails
  <2>4. faults' \in 0..MaxFaults
    BY <1>3, <1>f DEF Report, ReportFails
  <2>5. UNCHANGED <<partition, manager, sts, pods, seen, missed, changes>>
    BY <1>3 DEF Report, ReportFails
  <2> QED  BY <2>1, <2>2, <2>3, <2>4, <2>5 DEF TypeOK, manager
<1>4. ASSUME NEW o \in Objects, Deliver(o) PROVE TypeOK'
  <2>1. seen' \in [manager : Managers, sts : StatefulSets, scaler : Scalers]
    BY <1>4, ManagerType DEF Deliver, Objects, TypeOK
  <2>2. /\ requested' \in BOOLEAN /\ missed' \in BOOLEAN /\ current' \subseteq Objects
        /\ faults' \in 0..MaxFaults
    BY <1>4, <1>n DEF Deliver, TypeOK
  <2>3. UNCHANGED <<partition, manager, sts, pods, scaler, work, changes>>
    BY <1>4 DEF Deliver
  <2> QED  BY <2>1, <2>2, <2>3 DEF TypeOK, manager
<1>5. CASE Crash
  <2>1. seen' \in [manager : Managers, sts : StatefulSets, scaler : Scalers]
    BY <1>5, ManagerType DEF Crash, TypeOK
  <2>2. work' \in Works /\ current' \subseteq Objects /\ requested' = TRUE /\ missed' = FALSE
    BY <1>5, IdleType DEF Crash
  <2>3. UNCHANGED <<partition, manager, sts, pods, scaler, changes>>
    BY <1>5 DEF Crash
  <2> QED  BY <1>5, <1>f, <2>1, <2>2, <2>3 DEF Crash, TypeOK, manager
<1>6. ASSUME NEW plan \in Plans, NEW isReady \in BOOLEAN, Publish(plan, isReady)
      PROVE  TypeOK'
  BY <1>6, <1>c, <1>n DEF Publish, TypeOK, manager
<1>7. CASE ManagerFulfils \/ ManagerRefuses
  <2>1. /\ managerSpec' \in Plans /\ managerApplied' \in Plans /\ managerReady' \in BOOLEAN
    BY <1>7 DEF ManagerFulfils, ManagerRefuses, Manager!Fulfil, Manager!Refuse, TypeOK
  <2>2. work' \in Works /\ current' \subseteq Objects
    BY <1>7, OutdatedType DEF ManagerFulfils, ManagerRefuses, NewVersion, TypeOK, Objects
  <2>3. UNCHANGED <<partition, sts, pods, scaler, seen, requested, missed, changes>>
    BY <1>7 DEF ManagerFulfils, ManagerRefuses
  <2>4. faults' \in 0..MaxFaults
    BY <1>7, <1>f DEF ManagerFulfils, ManagerRefuses
  <2> QED  BY <2>1, <2>2, <2>3, <2>4 DEF TypeOK
<1>8. CASE StatefulSetController
  <2>1. ASSUME NEW i \in 1..MaxReplicas, CreatePod(i) PROVE TypeOK'
    <3>1. [ordinal |-> i, env |-> sts.env, restarted |-> TRUE] \in Pods
      BY DEF TypeOK, StatefulSets, Pods
    <3> QED  BY <2>1, <3>1 DEF CreatePod, TypeOK, manager
  <2>2. ASSUME NEW p \in pods, DeletePod(p) PROVE TypeOK'
    BY <2>2 DEF DeletePod, TypeOK, manager
  <2>3. CASE CountPods
    <3>1. Cardinality(pods) \in Counts
      BY PodsCount DEF TypeOK
    <3>2. sts' \in StatefulSets
      BY <2>3, <3>1 DEF CountPods, TypeOK, StatefulSets
    <3>3. work' \in Works /\ current' \subseteq Objects
      BY <2>3, OutdatedType DEF CountPods, NewVersion, TypeOK, Objects
    <3> QED  BY <2>3, <3>2, <3>3 DEF CountPods, TypeOK, manager
  <2> QED  BY <1>8, <2>1, <2>2, <2>3 DEF StatefulSetController
<1>9. CASE TogglePause
  <2>1. scaler' \in Scalers
    BY <1>9 DEF TogglePause, TypeOK, Scalers
  <2>2. work' \in Works /\ current' \subseteq Objects
    BY <1>9, OutdatedType DEF TogglePause, NewVersion, TypeOK, Objects
  <2> QED  BY <1>9, <1>c, <2>1, <2>2 DEF TogglePause, TypeOK, manager
<1>10. ASSUME NEW n \in Counts, NEW env \in Counts, Drift(n, env) PROVE TypeOK'
  <2>1. sts' \in StatefulSets
    BY <1>10 DEF Drift, TypeOK, StatefulSets
  <2>2. work' \in Works /\ current' \subseteq Objects
    BY <1>10, OutdatedType DEF Drift, NewVersion, TypeOK, Objects
  <2> QED  BY <1>10, <1>c, <2>1, <2>2 DEF Drift, TypeOK, manager
<1>11. CASE UNCHANGED vars
  BY <1>11 DEF vars, TypeOK
<1> QED
  BY <1>1, <1>2, <1>3, <1>4, <1>5, <1>6, <1>7, <1>8, <1>9, <1>10, <1>11 DEF Next, Reconcile

(* The type invariant: whatever the Reconciles, users, crashes and the     *)
(* others do, the objects and their copies are what the code takes them    *)
(* for; the pods never outnumber what the StatefulSet may have asked for.  *)
THEOREM TypeCorrect == Spec => []TypeOK
<1>1. Init => TypeOK /\ OnePodEach
  BY InitType
<1>2. TypeOK /\ OnePodEach /\ [Next]_vars => (TypeOK /\ OnePodEach)'
  BY TypePreserved, OnePodEachPreserved
<1> QED  BY <1>1, <1>2, PTL DEF Spec

------------------------------------------------------------------------------
(* Sleep. *)

(* The scaler will run again: a request waits, or an event is on its way;  *)
(* or it would, had the map function not missed the event.                 *)
Due == requested \/ "manager" \notin current \/ "sts" \notin current \/ missed = TRUE

(* A copy that no event will correct is the object. *)
CopiesAreCurrent == /\ "manager" \in current => seen.manager = ManagerObject
                    /\ "sts" \in current => seen.sts = sts

(* What may be reported without another look: the partition is carried out, *)
(* or is not to be as yet.                                                  *)
Settled(isReady, plan) ==
    \/ LET n == Size[partition.plan]
       IN /\ isReady /\ partition.ready
          /\ ManagerObject = [spec |-> partition.plan, applied |-> partition.plan, ready |-> TRUE]
          /\ sts = [replicas |-> n, env |-> n, status |-> n]
          /\ plan = partition.plan
    \/ ~isReady /\ (~partition.ready \/ ~managerReady)

ToReport == Settled(work.ready, work.replicas)
Reported == Settled(scaler.ready, scaler.replicas)

(* A Reconcile that does not ask to be called again has nothing to do.      *)
WorkIsSettled ==
    /\ work.pc = "assigned" => Due
    /\ work.pc = "report" => Due \/ work.retry = TRUE \/ work.lost = TRUE \/ ToReport
    /\ work.pc = "idle" => Due \/ scaler.lost = TRUE \/ Reported

Awake == TypeOK /\ OnePodEach /\ CopiesAreCurrent /\ WorkIsSettled

(* Each write of a Reconcile leaves its copy behind, or changes nothing.   *)
LEMMA ScaleToWrites ==
  ASSUME NEW v, NEW n, NEW restart, NEW adopted, ScaleTo(v, n, restart, adopted)
  PROVE  /\ current' \subseteq current /\ UNCHANGED manager
         /\ "sts" \in current' => sts' = sts
  BY DEF ScaleTo, PutStatefulSet, NewVersion

LEMMA AfterWrites ==
  ASSUME NEW v, AfterAssignment(v)
  PROVE  /\ current' \subseteq current /\ UNCHANGED manager
         /\ "sts" \in current' => sts' = sts
  BY ScaleToWrites DEF AfterAssignment, WaitForShardManager, ScaleToPlan, AdoptPlan,
     EnforceDesiredState, WaitForScale, Done, Conclude

LEMMA BeginWrites ==
  ASSUME Begin
  PROVE  /\ current' \subseteq current
         /\ "manager" \in current' => managerSpec' = managerSpec
         /\ "sts" \in current' => sts' = sts
<1>1. CASE AssignShards(View)
  BY <1>1 DEF AssignShards, NewVersion, manager
<1>2. CASE ~AssignShards(View)
  <2>1. /\ current' \subseteq current /\ UNCHANGED manager
        /\ "sts" \in current' => sts' = sts
    BY <1>2, ScaleToWrites, AfterWrites DEF Begin, StopNotReady, StopLookupFailed,
       BeginScalingToZero, WaitForZero, EnforceFromZero, KeepAssignment, Conclude
  <2> QED  BY <2>1 DEF manager
<1> QED  BY <1>1, <1>2

(* A Reconcile that goes back to sleep has looked at current copies, or an *)
(* event is on its way.                                                    *)
LEMMA BeginSettles == Awake /\ Begin => CopiesAreCurrent' /\ WorkIsSettled'
<1> SUFFICES ASSUME Awake, Begin PROVE CopiesAreCurrent' /\ WorkIsSettled'
  OBVIOUS
<1>t. TypeOK /\ CopiesAreCurrent
  BY DEF Awake
<1>1. UNCHANGED <<partition, scaler, seen, managerApplied, managerReady>> /\ ~requested'
  BY <1>t, BeginType DEF Begin
<1>2. /\ current' \subseteq current
      /\ "manager" \in current' => managerSpec' = managerSpec
      /\ "sts" \in current' => sts' = sts
  BY BeginWrites
<1>3. CopiesAreCurrent'
  BY <1>t, <1>1, <1>2 DEF CopiesAreCurrent, ManagerObject
<1>4. CASE work'.pc = "report" /\ (work'.retry = TRUE \/ work'.lost = TRUE)
  BY <1>3, <1>4 DEF WorkIsSettled
<1>5. CASE work'.pc = "assigned" /\ "manager" \notin current'
  BY <1>3, <1>5 DEF WorkIsSettled, Due
<1>6. CASE Due' /\ work'.pc = "report"
  BY <1>3, <1>6 DEF WorkIsSettled
<1>7. ASSUME ~Due', StopNotReady(View), ~View.scaler.paused,
             work'.pc = "report", work'.ready = FALSE
      PROVE  WorkIsSettled'
  <2>1. managerSpec' = managerSpec /\ seen.manager = ManagerObject
    BY <1>t, <1>2, <1>7 DEF Due, CopiesAreCurrent
  <2>2. ~partition.ready \/ ~managerReady
    BY <1>7, <2>1 DEF StopNotReady, NotReady, View, ManagerObject
  <2>3. ToReport'
    BY <1>1, <1>7, <2>2 DEF ToReport, Settled
  <2> QED  BY <1>7, <2>3 DEF WorkIsSettled
<1>8. ASSUME ~Due', KeepAssignment(View), Done(View), work'.pc = "report"
      PROVE  WorkIsSettled'
  <2>1. /\ managerSpec' = managerSpec /\ seen.manager = ManagerObject
        /\ sts' = sts /\ seen.sts = sts
    BY <1>t, <1>2, <1>8 DEF Due, CopiesAreCurrent
  <2>2. ReportNext(View, View.scaler.replicas, TRUE, FALSE)
    BY <1>8 DEF Done, Conclude
  <2>3. work'.ready = TRUE /\ work'.replicas = seen.scaler.replicas
    <3>1. View \in Views /\ View.scaler.replicas \in Plans /\ View.scaler = seen.scaler
      BY <1>t, ViewType DEF TypeOK, View, Scalers
    <3> QED  BY <2>2, <3>1, ReportType
  <2>4. /\ partition.ready /\ managerReady
        /\ partition.plan = managerSpec /\ partition.plan = managerApplied
        /\ seen.scaler.replicas = partition.plan
    BY <1>8, <2>1 DEF KeepAssignment, Done, Proceeding, NotReady, Maintaining, View, ManagerObject
  <2>5. LET n == Size[partition.plan] IN sts.replicas = n /\ sts.env = n /\ sts.status = n
    BY <1>8, <2>1 DEF Done, NeedsEnforcement, Desired, View
  <2>6. LET n == Size[partition.plan] IN sts = [replicas |-> n, env |-> n, status |-> n]
    BY <1>t, <2>5 DEF TypeOK, StatefulSets
  <2>7. ManagerObject = [spec |-> partition.plan, applied |-> partition.plan, ready |-> TRUE]
    BY <1>t, <2>4 DEF ManagerObject, TypeOK
  <2>8. ToReport'
    BY <1>1, <2>1, <2>3, <2>4, <2>6, <2>7 DEF ToReport, Settled, ManagerObject
  <2> QED  BY <1>8, <2>8 DEF WorkIsSettled
<1> QED
  BY <1>t, <1>3, <1>4, <1>5, <1>6, <1>7, <1>8, BeginType

(* A copy is either replaced with its object, or no longer the current one. *)
LEMMA CopiesStayCurrent == Awake /\ [Next]_vars => CopiesAreCurrent'
<1> SUFFICES ASSUME Awake, [Next]_vars PROVE CopiesAreCurrent'
  OBVIOUS
<1>t. TypeOK /\ CopiesAreCurrent
  BY DEF Awake
<1>1. CASE Begin
  BY <1>1, BeginSettles
<1>2. CASE ContinueAssigned
  <2>1. UNCHANGED <<manager, seen>> /\ current' \subseteq current
        /\ ("sts" \in current' => sts' = sts)
    BY <1>2, AfterWrites DEF ContinueAssigned
  <2> QED  BY <1>t, <2>1 DEF CopiesAreCurrent, ManagerObject, manager
<1>3. CASE Report \/ ReportFails
  <2>1. UNCHANGED <<manager, sts, seen>> /\ current' \subseteq current
    BY <1>3 DEF Report, ReportFails, PutStatus, NewVersion
  <2> QED  BY <1>t, <2>1 DEF CopiesAreCurrent, ManagerObject, manager
<1>4. ASSUME NEW o \in Objects, Deliver(o) PROVE CopiesAreCurrent'
  <2>1. UNCHANGED <<manager, sts>>
    BY <1>4 DEF Deliver
  <2>2. CASE o = "manager"
    BY <1>t, <1>4, <2>1, <2>2 DEF Deliver, CopiesAreCurrent, ManagerObject, manager, TypeOK
  <2>3. CASE o = "sts"
    BY <1>t, <1>4, <2>1, <2>3 DEF Deliver, CopiesAreCurrent, ManagerObject, manager, TypeOK
  <2>4. CASE o = "scaler"
    BY <1>t, <1>4, <2>1, <2>4 DEF Deliver, CopiesAreCurrent, ManagerObject, manager, TypeOK
  <2> QED  BY <2>2, <2>3, <2>4 DEF Objects
<1>5. CASE Crash
  BY <1>5 DEF Crash, CopiesAreCurrent, ManagerObject, manager
<1>6. CASE UNCHANGED <<manager, sts, seen, current>>
  BY <1>t, <1>6 DEF CopiesAreCurrent, ManagerObject, manager
<1>7. CASE UNCHANGED <<sts, seen>> /\ NewVersion("manager")
  BY <1>t, <1>7 DEF CopiesAreCurrent, NewVersion
<1>8. CASE UNCHANGED <<manager, seen>> /\ NewVersion("sts")
  BY <1>t, <1>8 DEF CopiesAreCurrent, ManagerObject, manager, NewVersion
<1>9. CASE UNCHANGED <<manager, sts, seen>> /\ NewVersion("scaler")
  BY <1>t, <1>9 DEF CopiesAreCurrent, ManagerObject, manager, NewVersion
<1>10. ASSUME \/ \E plan \in Plans, isReady \in BOOLEAN : Publish(plan, isReady)
              \/ \E i \in 1..MaxReplicas : CreatePod(i)
              \/ \E p \in pods : DeletePod(p)
              \/ UNCHANGED vars
       PROVE  UNCHANGED <<manager, sts, seen, current>>
  BY <1>10 DEF Publish, CreatePod, DeletePod, vars, manager
<1>11. ManagerFulfils \/ ManagerRefuses => UNCHANGED <<sts, seen>> /\ NewVersion("manager")
  BY DEF ManagerFulfils, ManagerRefuses
<1>12. CountPods \/ (\E n, env \in Counts : Drift(n, env))
         => UNCHANGED <<manager, seen>> /\ NewVersion("sts")
  BY DEF CountPods, Drift
<1>13. TogglePause => UNCHANGED <<manager, sts, seen>> /\ NewVersion("scaler")
  BY DEF TogglePause
<1> QED
  BY <1>1, <1>2, <1>3, <1>4, <1>5, <1>6, <1>7, <1>8, <1>9, <1>10, <1>11, <1>12, <1>13
     DEF Next, Reconcile, StatefulSetController

(* What a Reconcile came to stays true until something is on its way. *)
LEMMA WorkStaysSettled == Awake /\ [Next]_vars => WorkIsSettled'
<1> SUFFICES ASSUME Awake, [Next]_vars PROVE WorkIsSettled'
  OBVIOUS
<1>t. TypeOK /\ WorkIsSettled
  BY DEF Awake
<1>c. Due' => WorkIsSettled'
  BY DEF WorkIsSettled
<1>1. CASE Begin
  BY <1>1, BeginSettles
<1>2. CASE ContinueAssigned
  <2>1. Due
    BY <1>t, <1>2 DEF ContinueAssigned, WorkIsSettled
  <2>2. current' \subseteq current /\ UNCHANGED <<requested, missed>>
    BY <1>2, AfterWrites DEF ContinueAssigned
  <2> QED  BY <1>c, <2>1, <2>2 DEF Due
<1>3. CASE Report
  <2>1. /\ scaler'.replicas = work.replicas /\ scaler'.ready = work.ready
        /\ scaler'.lost = work.lost
        /\ current \ {"scaler"} \subseteq current' /\ current' \subseteq current
        /\ UNCHANGED <<partition, manager, sts, missed>> /\ work'.pc = "idle"
        /\ requested' = (requested \/ work.retry) /\ work.pc = "report"
    BY <1>t, <1>3, PutType, IdleType DEF Report, PutStatus, NewVersion
  <2>2. ToReport => Reported'
    BY <2>1 DEF ToReport, Reported, Settled, ManagerObject, manager
  <2>3. Due \/ work.retry = TRUE => Due'
    BY <2>1 DEF Due
  <2> QED  BY <1>t, <2>1, <2>2, <2>3 DEF WorkIsSettled
<1>4. CASE ReportFails
  BY <1>c, <1>4 DEF ReportFails, Due
<1>5. ASSUME NEW o \in Objects, Deliver(o) PROVE WorkIsSettled'
  <2>1. CASE o = "scaler"
    <3>1. UNCHANGED <<partition, manager, sts, scaler, work>>
      BY <1>5 DEF Deliver
    <3>2. Due => Due'
      BY <1>5, <2>1 DEF Deliver, Due
    <3> QED  BY <1>t, <3>1, <3>2
             DEF WorkIsSettled, ToReport, Reported, Settled, ManagerObject, manager
  <2>2. CASE o # "scaler"
    BY <1>c, <1>5, <2>2 DEF Deliver, Notify, Due
  <2> QED  BY <2>1, <2>2
<1>6. CASE Crash
  BY <1>c, <1>6 DEF Crash, Due
<1>7. ASSUME NEW plan \in Plans, NEW isReady \in BOOLEAN, Publish(plan, isReady)
      PROVE  WorkIsSettled'
  BY <1>c, <1>7 DEF Publish, Notify, Due
<1>8. CASE ManagerFulfils \/ ManagerRefuses
  BY <1>c, <1>8 DEF ManagerFulfils, ManagerRefuses, NewVersion, Due
<1>9. CASE CountPods
  BY <1>c, <1>9 DEF CountPods, NewVersion, Due
<1>10. ASSUME NEW n \in Counts, NEW env \in Counts, Drift(n, env) PROVE WorkIsSettled'
  BY <1>c, <1>10 DEF Drift, NewVersion, Due
<1>11. CASE TogglePause
  <2>1. /\ UNCHANGED <<partition, manager, sts, requested, missed>>
        /\ current' = current \ {"scaler"}
        /\ work' = Outdated(work, "scaler")
        /\ scaler'.replicas = scaler.replicas /\ scaler'.ready = scaler.ready
        /\ scaler'.lost = scaler.lost
    BY <1>t, <1>11 DEF TogglePause, NewVersion, TypeOK, Scalers
  <2>2. /\ work'.pc = work.pc
        /\ work.pc = "report" => /\ work'.retry = work.retry /\ work'.lost = work.lost
                                 /\ work'.ready = work.ready
                                 /\ work'.replicas = work.replicas
    BY <1>t, <2>1, OutdatedType DEF TypeOK, Objects
  <2>3. /\ Due => Due'
        /\ Reported => Reported'
        /\ work.pc = "report" /\ ToReport => ToReport'
    BY <2>1, <2>2 DEF Due, Reported, ToReport, Settled, ManagerObject, manager
  <2> QED  BY <1>t, <2>1, <2>2, <2>3 DEF WorkIsSettled
<1>12. CASE UNCHANGED <<partition, manager, sts, scaler, work, requested, missed, current>>
  BY <1>t, <1>12
     DEF WorkIsSettled, Due, ToReport, Reported, Settled, ManagerObject, manager
<1>13. ASSUME \/ \E i \in 1..MaxReplicas : CreatePod(i)
              \/ \E p \in pods : DeletePod(p)
       PROVE  UNCHANGED <<partition, manager, sts, scaler, work, requested, missed, current>>
  BY <1>13 DEF CreatePod, DeletePod
<1>14. UNCHANGED vars => UNCHANGED <<partition, manager, sts, scaler, work, requested, missed, current>>
  BY DEF vars, manager
<1> QED
  BY <1>1, <1>2, <1>3, <1>4, <1>5, <1>6, <1>7, <1>8, <1>9, <1>10, <1>11, <1>12, <1>13, <1>14
     DEF Next, Reconcile, StatefulSetController

(* With nothing on its way and everyone at rest, what was reported holds. *)
LEMMA AwakeSuffices == Awake => SettledIsInPlace
<1> SUFFICES ASSUME Awake, Quiet, scaler.lost # TRUE, missed # TRUE PROVE Honest
  BY DEF SettledIsInPlace
<1>t. TypeOK /\ OnePodEach
  BY DEF Awake
<1>1. Reported
  BY DEF Awake, Quiet, Due, WorkIsSettled
<1>2. scaler.ready \in BOOLEAN /\ partition.ready \in BOOLEAN /\ managerReady
  BY <1>t DEF TypeOK, Scalers, Quiet
<1>3. CASE ~scaler.ready
  BY <1>1, <1>2, <1>3 DEF Reported, Settled, Honest
<1>4. CASE scaler.ready
  <2> DEFINE n == Size[partition.plan]
             target == {[ordinal |-> i, env |-> n, restarted |-> TRUE] : i \in 1..n}
  <2>1. /\ partition.ready /\ scaler.replicas = partition.plan
        /\ ManagerObject = [spec |-> partition.plan, applied |-> partition.plan, ready |-> TRUE]
        /\ sts = [replicas |-> n, env |-> n, status |-> n]
    BY <1>1, <1>4 DEF Reported, Settled
  <2>2. n \in Counts
    BY <1>t, ScalerAssumption DEF TypeOK, Counts
  <2>3. Cardinality(pods) = n
    BY <2>1 DEF Quiet
  <2> HIDE DEF n
  <2>4. \A p \in pods : p.ordinal <= n /\ p.env = n /\ p.restarted
    BY <1>t, <2>1, <2>2, ScalerAssumption DEF Quiet, Condemned, TypeOK, Pods, Counts
  <2>5. \A i \in 1..n : \E p \in pods : p.ordinal = i
    BY <1>t, <2>2, <2>3, <2>4, PodsCount DEF TypeOK
  <2>6. \A p \in pods : /\ p.ordinal \in 1..n
                       /\ p = [ordinal |-> p.ordinal, env |-> n, restarted |-> TRUE]
    BY <1>t, <2>2, <2>4, ScalerAssumption DEF TypeOK, Pods, Counts
  <2>7. pods \subseteq target
    BY <2>6
  <2>8. ASSUME NEW a \in target PROVE a \in pods
    <3>1. PICK i \in 1..n : a = [ordinal |-> i, env |-> n, restarted |-> TRUE]
      OBVIOUS
    <3>2. PICK p \in pods : p.ordinal = i
      BY <2>5
    <3> QED  BY <2>6, <3>1, <3>2
  <2>9. pods = target
    BY <2>7, <2>8
  <2> QED  BY <1>2, <1>4, <2>1, <2>9 DEF Honest, InPlace, n
<1> QED  BY <1>3, <1>4

(* For every set of plans, in every mode, whatever users, crashes, refusals *)
(* and lost answers do: the scaler never falls asleep before the published  *)
(* partition is in place, unless a lookup failed for a moment or a map      *)
(* function missed the event since the last Reconcile began. Each early     *)
(* return of Reconcile requeues, or was taken on copies that are current or *)
(* whose event is still to come.                                            *)
THEOREM NeverAsleepOutOfPlace == Spec => []SettledIsInPlace
<1>1. Init => Awake
  <2> SUFFICES ASSUME Init PROVE Awake
    OBVIOUS
  <2>1. CopiesAreCurrent /\ Due /\ work.pc = "idle"
    BY IdleType DEF Init, CopiesAreCurrent, Due
  <2> QED  BY <2>1, InitType DEF Awake, WorkIsSettled
<1>2. Awake /\ [Next]_vars => Awake'
  BY TypePreserved, OnePodEachPreserved, CopiesStayCurrent, WorkStaysSettled DEF Awake
<1>3. Awake => SettledIsInPlace
  BY AwakeSuffices
<1> QED  BY <1>1, <1>2, <1>3, PTL DEF Spec

------------------------------------------------------------------------------
(***************************************************************************)
(* The X-0-Y mode by itself: shards move while no replica runs, and        *)
(* replicas that run together agree on their number. No object stores how  *)
(* far a transition has come; each Reconcile infers it from copies of any  *)
(* age.                                                                    *)
(***************************************************************************)

(* The mode by itself, nobody else writing the StatefulSet, and a plan     *)
(* published only once the one before is in place. Without the last, run   *)
(* scaler_x0y_mixed_env shows what happens.                                *)
X0YAlone == /\ Modes = {"x0y"}
            /\ Overlap = FALSE
            /\ "drift" \notin UserActs

------------------------------------------------------------------------------
(* The inductive invariant. *)

(* What the status holds is what its copy shows, if the copy passes for    *)
(* current, or if the scaler is asleep: a plan newly noted is looked at    *)
(* again. So no plan of an earlier transition is mistaken for adopted.     *)
NotedInv ==
    /\ "scaler" \in current => seen.scaler = scaler
    /\ work.pc = "idle" /\ ~requested => seen.scaler.replicas = scaler.replicas
    /\ work.pc = "assigned" /\ "scaler" \in work.view.fresh =>
         work.view.scaler.replicas = scaler.replicas /\ seen.scaler.replicas = scaler.replicas
    /\ work.pc = "report" /\ work.fresh = TRUE =>
         /\ seen.scaler.replicas = scaler.replicas
         /\ work.retry = FALSE => work.replicas = scaler.replicas

(* The published plan reaches the manager's specification, its status and  *)
(* then the scaler's, in this order; copies are behind, never ahead.       *)
OrderInv ==
    LET plan == partition.plan
    IN /\ work.pc = "assigned" => managerSpec = plan /\ work.view.plan = plan
       /\ managerSpec # plan => managerApplied = managerSpec
       /\ managerApplied # plan =>
            /\ scaler.replicas # plan /\ seen.scaler.replicas # plan
            /\ seen.manager.applied # plan
            /\ work.pc = "assigned" => /\ work.view.manager.applied # plan
                                       /\ work.view.scaler.replicas # plan
            /\ work.pc = "report" => work.replicas # plan

Zero == sts.replicas = 0 /\ pods = {}

(* Between the request and its fulfilment nothing runs; and before it, no  *)
(* pods counted, now or in the copy, means that there are none.            *)
ZeroInv ==
    /\ managerApplied # managerSpec => Zero
    /\ managerSpec # partition.plan /\ (sts.status = 0 \/ seen.sts.status = 0) => Zero

Complete == /\ \A i \in 1..sts.replicas : \E p \in pods : p.ordinal = i
            /\ \A p \in pods : ~Condemned(p)

(* Pods are those of the plan applied, unless all were there from the      *)
(* start; the StatefulSet asks for none, for those there are, or for those *)
(* of the plan applied.                                                    *)
PodsInv ==
    /\ NoMixedEnv
    /\ \A p \in pods : p.restarted = TRUE
    /\ Size[managerApplied] > 0 => \A p \in pods : p.env = Size[managerApplied]
    /\ \/ sts.replicas = 0
       \/ Complete
       \/ /\ managerSpec = partition.plan
          /\ sts.replicas = Size[managerApplied] /\ sts.env = Size[managerApplied]

IInv == Awake /\ NotedInv /\ OrderInv /\ ZeroInv /\ PodsInv

------------------------------------------------------------------------------
(* What a step of Reconcile does, in terms of its view. *)

(* The StatefulSet is asked for n replicas, who are told so. *)
Asked(n) == sts'.replicas = n /\ sts'.env = n /\ sts'.status = sts.status

(* The report that is left to write names the plan in the view's status or *)
(* adopts the published one, which is then looked at again.                *)
Reporting(v) ==
    /\ work'.pc = "report"
    /\ work'.fresh = TRUE => "scaler" \in v.fresh
    /\ \/ work'.replicas = v.scaler.replicas
       \/ /\ work'.replicas = v.plan /\ v.manager.applied = v.plan
          /\ work'.retry = TRUE

LEMMA ReportEffect ==
  ASSUME NEW v, NEW replicas, NEW isReady, NEW retry, ReportNext(v, replicas, isReady, retry)
  PROVE  /\ work'.pc = "report" /\ work'.replicas = replicas /\ work'.retry = retry
         /\ work'.fresh = TRUE => "scaler" \in v.fresh
<1> DEFINE fresh == "scaler" \in v.fresh
<1>1. work' = [pc |-> "report", replicas |-> replicas, ready |-> isReady, retry |-> retry,
               lost |-> FALSE, fresh |-> fresh]
  BY DEF ReportNext
<1>2. work'.fresh = fresh
  <2> HIDE DEF fresh
  <2> QED  BY <1>1
<1> QED  BY <1>1, <1>2

LEMMA ScaleToEffect ==
  ASSUME TypeOK, NEW v \in Views, NEW n \in Counts, NEW adopted \in Plans,
         ScaleTo(v, n, FALSE, adopted)
  PROVE  /\ sts' = sts \/ Asked(n)
         /\ UNCHANGED <<pods, manager>>
         /\ "scaler" \in current <=> "scaler" \in current'
         /\ work'.pc = "report" /\ work'.retry = TRUE
         /\ work'.fresh = TRUE => "scaler" \in v.fresh
         /\ work'.replicas = adopted \/ work'.replicas = v.scaler.replicas
<1>1. /\ work'.pc = "report" /\ work'.retry = TRUE
      /\ work'.fresh = TRUE => "scaler" \in v.fresh
      /\ work'.replicas = adopted \/ work'.replicas = v.scaler.replicas
  BY ReportEffect DEF ScaleTo
<1>2. CASE PutStatefulSet(v, n, FALSE)
  <2>1. sts' = sts \/ Asked(n)
    BY <1>2 DEF PutStatefulSet, Asked, TypeOK, StatefulSets
  <2>2. pods' = pods /\ ("scaler" \in current <=> "scaler" \in current')
    BY <1>2 DEF PutStatefulSet, NewVersion
  <2> QED  BY <1>1, <2>1, <2>2 DEF ScaleTo
<1>3. CASE ~PutStatefulSet(v, n, FALSE)
  BY <1>1, <1>3 DEF ScaleTo
<1> QED  BY <1>2, <1>3

(* Once the manager's specification is the plan: the StatefulSet is given  *)
(* the replicas of the plan, and the plan is adopted, when it is applied.  *)
LEMMA AfterEffect ==
  ASSUME X0YAlone, TypeOK, NEW v \in Views, AfterAssignment(v)
  PROVE  /\ sts' = sts \/ (Asked(Size[v.plan]) /\ v.manager.applied = v.plan)
         /\ UNCHANGED <<pods, manager>>
         /\ "scaler" \in current <=> "scaler" \in current'
         /\ Reporting(v)
<1>1. ~Restart(v) /\ v.scaler.replicas \in Plans /\ v.plan \in Plans
  BY DEF X0YAlone, Restart, Views, Scalers
<1>2. Desired(v) \in Counts /\ Desired(v) = Size[v.plan]
  BY DesiredType DEF Desired
<1>3. ASSUME NEW isReady, NEW retry, Conclude(v, isReady, retry)
      PROVE  UNCHANGED <<sts, pods, manager, current>> /\ Reporting(v)
  BY <1>3, ReportEffect DEF Conclude, Reporting
<1>4. CASE WaitForShardManager(v) \/ WaitForScale(v) \/ Done(v)
  BY <1>3, <1>4 DEF WaitForShardManager, WaitForScale, Done
<1>5. CASE ScaleToPlan(v)
  <2>1. ScaleTo(v, Desired(v), FALSE, v.plan) /\ v.manager.applied = v.plan
    BY <1>1, <1>5 DEF ScaleToPlan, Scaling, Restart
  <2> QED  BY <1>1, <1>2, <2>1, ScaleToEffect DEF Reporting
<1>6. CASE AdoptPlan(v)
  BY <1>6, ReportEffect DEF AdoptPlan, Scaling, Reporting
<1>7. CASE EnforceDesiredState(v)
  <2>1. ScaleTo(v, Desired(v), FALSE, v.scaler.replicas) /\ v.manager.applied = v.plan
    BY <1>7 DEF EnforceDesiredState, Maintaining
  <2> QED  BY <1>1, <1>2, <2>1, ScaleToEffect DEF Reporting
<1> QED  BY <1>4, <1>5, <1>6, <1>7 DEF AfterAssignment

(* Before that: replicas are taken to zero, or given to a plan that is     *)
(* adopted; the manager is asked when there are no replicas to be seen, or *)
(* when the plan is adopted already.                                       *)
LEMMA BeginEffect ==
  ASSUME X0YAlone, TypeOK, CopiesAreCurrent, Begin
  PROVE  /\ requested' = FALSE
         /\ UNCHANGED <<partition, scaler, seen, pods, managerApplied>>
         /\ "scaler" \in current <=> "scaler" \in current'
         /\ \/ sts' = sts
            \/ Asked(0)
            \/ /\ Asked(Size[partition.plan])
               /\ \/ seen.manager.applied = partition.plan
                  \/ seen.scaler.replicas = partition.plan
         /\ \/ managerSpec' = managerSpec
            \/ /\ managerSpec' = partition.plan /\ managerSpec # partition.plan /\ sts' = sts
               /\ seen.scaler.replicas = partition.plan \/ seen.sts.status = 0
         /\ \/ Reporting(View)
            \/ /\ work'.pc = "assigned" /\ managerSpec' = partition.plan
               /\ work'.view.plan = partition.plan
               /\ work'.view.scaler = seen.scaler /\ work'.view.manager = seen.manager
               /\ "scaler" \in work'.view.fresh => "scaler" \in current
<1> DEFINE v == View
<1>1. v \in Views
  BY ViewType
<1>2. /\ v.plan = partition.plan /\ v.scaler = seen.scaler /\ v.manager = seen.manager
      /\ v.sts = seen.sts /\ v.fresh = current
  BY DEF View
<1> HIDE DEF v
<1>3. /\ v.scaler.replicas \in Plans /\ v.plan \in Plans /\ v.scaler.mode = "x0y"
      /\ v.sts.status \in Counts
  BY <1>1 DEF X0YAlone, Views, Scalers, StatefulSets
<1>4. 0 \in Counts /\ Desired(v) \in Counts /\ Desired(v) = Size[v.plan]
  BY <1>1, DesiredType, ScalerAssumption DEF Desired, Counts
<1>5. requested' = FALSE /\ UNCHANGED <<partition, scaler, seen>>
  BY DEF Begin
<1>6. ASSUME NEW isReady, NEW retry, Conclude(v, isReady, retry)
      PROVE  UNCHANGED <<sts, pods, manager, current>> /\ Reporting(v)
  BY <1>6, ReportEffect DEF Conclude, Reporting
<1>7. CASE StopNotReady(v) \/ WaitForZero(v)
  BY <1>2, <1>5, <1>6, <1>7 DEF StopNotReady, WaitForZero, manager, v
<1>8. CASE StopLookupFailed(v)
  <2> DEFINE fresh == "scaler" \in v.fresh
  <2>1. work' = [pc |-> "report", replicas |-> v.scaler.replicas, ready |-> FALSE,
                 retry |-> FALSE, lost |-> TRUE, fresh |-> fresh]
    BY <1>8 DEF StopLookupFailed
  <2>2. work'.pc = "report" /\ work'.replicas = v.scaler.replicas /\ work'.fresh = fresh
    <3> HIDE DEF fresh
    <3> QED  BY <2>1
  <2>3. Reporting(v)
    BY <2>2 DEF Reporting
  <2> QED  BY <1>5, <1>8, <2>3 DEF StopLookupFailed, manager, v
<1>9. CASE BeginScalingToZero(v)
  <2>1. ScaleTo(v, 0, FALSE, v.scaler.replicas)
    BY <1>9 DEF BeginScalingToZero
  <2>2. /\ sts' = sts \/ Asked(0)
        /\ UNCHANGED <<pods, manager>>
        /\ "scaler" \in current <=> "scaler" \in current'
        /\ Reporting(v)
    BY <1>1, <1>3, <1>4, <2>1, ScaleToEffect DEF Reporting
  <2> QED  BY <1>5, <2>2 DEF manager, v
<1>10. CASE EnforceFromZero(v)
  <2>1. ScaleTo(v, Desired(v), FALSE, v.scaler.replicas) /\ v.plan = v.scaler.replicas
    BY <1>3, <1>10 DEF EnforceFromZero, Reviving, X0YTransitionPending
  <2>2. /\ sts' = sts \/ Asked(Size[v.plan])
        /\ UNCHANGED <<pods, manager>>
        /\ "scaler" \in current <=> "scaler" \in current'
        /\ Reporting(v)
    BY <1>1, <1>3, <1>4, <2>1, ScaleToEffect DEF Reporting
  <2> QED  BY <1>2, <1>5, <2>1, <2>2 DEF manager, v
<1>11. CASE AssignShards(v)
  <2>1. /\ UNCHANGED <<sts, pods, managerApplied>>
        /\ "scaler" \in current <=> "scaler" \in current'
    BY <1>11 DEF AssignShards, NewVersion, manager, Manager!Request
  <2>2. v.plan # v.manager.spec /\ (v.plan = v.scaler.replicas \/ v.sts.status = 0)
    BY <1>3, <1>11, ScalerAssumption
       DEF AssignShards, Proceeding, Zeroing, X0YTransitionPending, Counts
  <2>3. CASE managerSpec' = managerSpec /\ ReportNext(v, v.scaler.replicas, FALSE, TRUE)
    <3>1. Reporting(v)
      BY <2>3, ReportEffect DEF Reporting
    <3> QED  BY <1>5, <2>1, <2>3, <3>1 DEF v
  <2>4. CASE "manager" \in v.fresh /\ Manager!Request(v.plan)
    <3>1. managerSpec' = partition.plan /\ managerSpec # partition.plan
      BY <1>2, <2>2, <2>4 DEF CopiesAreCurrent, ManagerObject, Manager!Request
    <3>2. \/ Reporting(v)
          \/ work' = [pc |-> "assigned", view |-> [v EXCEPT !.fresh = @ \ {"manager"}]]
      BY <1>11, <2>1, ReportEffect DEF AssignShards, Reporting
    <3>3. CASE Reporting(v)
      BY <1>2, <1>5, <2>1, <2>2, <3>1, <3>3 DEF v
    <3>4. CASE work' = [pc |-> "assigned", view |-> [v EXCEPT !.fresh = @ \ {"manager"}]]
      <4>1. /\ work'.pc = "assigned" /\ work'.view.plan = v.plan
            /\ work'.view.scaler = v.scaler /\ work'.view.manager = v.manager
            /\ work'.view.fresh = v.fresh \ {"manager"}
        BY <1>1, <3>4 DEF Views
      <4> QED  BY <1>2, <1>5, <2>1, <2>2, <3>1, <4>1
    <3> QED  BY <3>2, <3>3, <3>4
  <2> QED  BY <1>11, <2>3, <2>4 DEF AssignShards, manager
<1>12. CASE KeepAssignment(v)
  <2>1. AfterAssignment(v)
    BY <1>12 DEF KeepAssignment
  <2> QED  BY <1>1, <1>2, <1>5, <2>1, AfterEffect DEF manager, v
<1> QED  BY <1>7, <1>8, <1>9, <1>10, <1>11, <1>12 DEF Begin, v
------------------------------------------------------------------------------
(* The invariant is kept, one lemma for each of its parts. *)

(* A Reconcile under way keeps all it has read, when a copy is outdated.   *)
LEMMA OutdatedKeeps ==
  ASSUME NEW w \in Works, NEW o \in Objects
  PROVE  /\ Outdated(w, o).pc = w.pc
         /\ w.pc = "assigned" => /\ Outdated(w, o).view.plan = w.view.plan
                                 /\ Outdated(w, o).view.manager = w.view.manager
                                 /\ Outdated(w, o).view.scaler = w.view.scaler
                                 /\ Outdated(w, o).view.fresh = w.view.fresh \ {o}
         /\ w.pc = "report" => /\ Outdated(w, o).replicas = w.replicas
                               /\ Outdated(w, o).retry = w.retry
                               /\ Outdated(w, o).fresh = TRUE => w.fresh = TRUE
                               /\ o = "scaler" => Outdated(w, o).fresh = FALSE
<1>1. CASE w = Idle
  BY <1>1 DEF Outdated, Idle
<1>2. CASE w \in [pc : {"assigned"}, view : Views]
  BY <1>2 DEF Outdated, Views
<1>3. CASE w \in [pc : {"report"}, replicas : Plans, ready : BOOLEAN, retry : BOOLEAN,
                  lost : BOOLEAN, fresh : BOOLEAN]
  BY <1>3 DEF Outdated
<1> QED  BY <1>1, <1>2, <1>3 DEF Works

(* What the status holds is noted. *)
LEMMA NotedPreserved == X0YAlone /\ IInv /\ [Next]_vars => NotedInv'
<1> SUFFICES ASSUME X0YAlone, IInv, [Next]_vars PROVE NotedInv'
  OBVIOUS
<1>t. TypeOK /\ CopiesAreCurrent /\ NotedInv
  BY DEF IInv, Awake
<1>1. CASE Begin
  <2>1. CASE Reporting(View)
    BY <1>t, <1>1, <2>1, BeginEffect DEF NotedInv, Reporting, View
  <2>2. CASE ~Reporting(View)
    BY <1>t, <1>1, <2>2, BeginEffect DEF NotedInv
  <2> QED  BY <2>1, <2>2
<1>2. CASE ContinueAssigned
  <2>1. work.view \in Views
    BY <1>t, <1>2 DEF ContinueAssigned, TypeOK, Works, Idle
  <2>2. /\ UNCHANGED <<scaler, seen>> /\ Reporting(work.view) /\ work.pc = "assigned"
        /\ "scaler" \in current <=> "scaler" \in current'
    BY <1>t, <1>2, <2>1, AfterEffect DEF ContinueAssigned
  <2> QED  BY <1>t, <2>2 DEF NotedInv, Reporting
<1>3. CASE Report
  <2>1. /\ scaler'.replicas = work.replicas /\ work'.pc = "idle" /\ UNCHANGED seen
        /\ work.pc = "report" /\ work.fresh = TRUE
        /\ "scaler" \in current' => "scaler" \in current /\ scaler' = scaler
        /\ ~requested' => work.retry = FALSE
    BY <1>t, <1>3, PutType, IdleType DEF Report, PutStatus, NewVersion, TypeOK, Works, Idle
  <2> QED  BY <1>t, <2>1 DEF NotedInv
<1>4. CASE ReportFails
  <2>1. /\ work'.pc = "idle" /\ UNCHANGED seen /\ requested' = TRUE
        /\ "scaler" \in current' => "scaler" \in current /\ scaler' = scaler
    BY <1>4, IdleType DEF ReportFails, PutStatus, NewVersion
  <2> QED  BY <1>t, <2>1 DEF NotedInv
<1>5. ASSUME NEW o \in Objects, Deliver(o) PROVE NotedInv'
  <2>1. UNCHANGED <<scaler, work>> /\ (requested => requested')
    <3>1. UNCHANGED <<scaler, work>>
      BY <1>5 DEF Deliver
    <3>2. CASE o = "scaler"
      BY <1>5, <3>2 DEF Deliver
    <3>3. CASE o # "scaler"
      <4>1. Notify
        BY <1>5, <3>3 DEF Deliver
      <4> QED  BY <3>1, <4>1 DEF Notify
    <3> QED  BY <3>1, <3>2, <3>3
  <2>2. CASE o = "scaler"
    <3>1. seen'.scaler = scaler
      BY <1>t, <1>5, <2>2 DEF Deliver, TypeOK
    <3> QED  BY <1>t, <2>1, <3>1 DEF NotedInv
  <2>3. CASE o # "scaler"
    <3>1. seen'.scaler = seen.scaler /\ ("scaler" \in current' => "scaler" \in current)
      BY <1>t, <1>5, <2>3 DEF Deliver, TypeOK, Objects
    <3> QED  BY <1>t, <2>1, <3>1 DEF NotedInv
  <2> QED  BY <2>2, <2>3
<1>6. CASE Crash
  BY <1>6, IdleType DEF Crash, NotedInv
<1>7. ASSUME NEW plan \in Plans, NEW isReady \in BOOLEAN, Publish(plan, isReady)
      PROVE  NotedInv'
  <2>1. UNCHANGED <<scaler, seen, current, work>> /\ (requested => requested')
    BY <1>7 DEF Publish, Notify
  <2> QED  BY <1>t, <2>1 DEF NotedInv
<1>8. ASSUME NEW o \in Objects, work' = Outdated(work, o), current' = current \ {o},
             UNCHANGED <<seen, requested>>, scaler'.replicas = scaler.replicas,
             o = "scaler" \/ scaler' = scaler
      PROVE  NotedInv'
  <2>1. work \in Works
    BY <1>t DEF TypeOK
  <2>2. /\ work'.pc = work.pc
        /\ work.pc = "assigned" => /\ work'.view.scaler = work.view.scaler
                                   /\ work'.view.fresh = work.view.fresh \ {o}
        /\ work.pc = "report" => /\ work'.replicas = work.replicas /\ work'.retry = work.retry
                                 /\ work'.fresh = TRUE => work.fresh = TRUE
    BY <1>8, <2>1, OutdatedKeeps
  <2>3. "scaler" \in current' => "scaler" \in current /\ scaler' = scaler
    BY <1>8
  <2> QED  BY <1>t, <1>8, <2>2, <2>3 DEF NotedInv
<1>9. CASE ManagerFulfils \/ ManagerRefuses
  BY <1>8, <1>9 DEF ManagerFulfils, ManagerRefuses, NewVersion, Objects
<1>10. CASE CountPods
  BY <1>8, <1>10 DEF CountPods, NewVersion, Objects
<1>11. CASE TogglePause
  <2>1. scaler'.replicas = scaler.replicas
    BY <1>t, <1>11 DEF TogglePause, TypeOK, Scalers
  <2> QED  BY <1>8, <1>11, <2>1 DEF TogglePause, NewVersion, Objects
<1>12. CASE UNCHANGED <<scaler, seen, current, work, requested>>
  BY <1>t, <1>12 DEF NotedInv
<1>13. (\E i \in 1..MaxReplicas : CreatePod(i)) \/ (\E p \in pods : DeletePod(p)) \/ UNCHANGED vars
         => UNCHANGED <<scaler, seen, current, work, requested>>
  BY DEF CreatePod, DeletePod, vars
<1>14. ~ \E n, env \in Counts : Drift(n, env)
  BY DEF Drift, X0YAlone
<1> QED
  BY <1>1, <1>2, <1>3, <1>4, <1>5, <1>6, <1>7, <1>9, <1>10, <1>11, <1>12, <1>13, <1>14
     DEF Next, Reconcile, StatefulSetController

(* A plan is published only when the one before has reached all three, and *)
(* the copies show it.                                                     *)
LEMMA PublishNew ==
  ASSUME X0YAlone, IInv, NEW plan \in Plans, NEW isReady \in BOOLEAN, Publish(plan, isReady),
         plan # partition.plan
  PROVE  /\ work.pc = "idle"
         /\ managerSpec # plan /\ managerApplied = managerSpec
         /\ scaler.replicas # plan /\ seen.scaler.replicas # plan /\ seen.manager.applied # plan
         /\ seen.sts = sts /\ (sts.status = 0 => Zero)
         /\ Complete
<1>1. Quiet /\ InPlace
  BY DEF Publish, X0YAlone
<1>2. /\ managerSpec = partition.plan /\ managerApplied = partition.plan
      /\ scaler.replicas = partition.plan
  BY <1>1 DEF InPlace, ManagerObject
<1>3. work.pc = "idle" /\ ~requested /\ "manager" \in current /\ "sts" \in current
  BY <1>1 DEF Quiet
<1>4. seen.scaler.replicas = scaler.replicas
  BY <1>3 DEF IInv, NotedInv
<1>5. seen.manager.applied = managerApplied /\ seen.sts = sts
  BY <1>3 DEF IInv, Awake, CopiesAreCurrent, ManagerObject
<1> DEFINE n == Size[partition.plan]
<1>6. sts.replicas = n /\ sts.status = n
      /\ pods = {[ordinal |-> i, env |-> n, restarted |-> TRUE] : i \in 1..n}
  BY <1>1 DEF InPlace
<1>7. n = 0 => Zero
  BY <1>6 DEF Zero
<1>8. Complete
  <2>1. ASSUME NEW i \in 1..n PROVE \E p \in pods : p.ordinal = i
    <3>1. [ordinal |-> i, env |-> n, restarted |-> TRUE] \in pods
      BY <1>6
    <3> QED  BY <3>1
  <2> QED  BY <1>1, <1>6, <2>1 DEF Complete, Quiet
<1> QED  BY <1>2, <1>3, <1>4, <1>5, <1>6, <1>7, <1>8

(* The published plan travels in order. *)
LEMMA OrderPreserved == X0YAlone /\ IInv /\ [Next]_vars => OrderInv'
<1> SUFFICES ASSUME X0YAlone, IInv, [Next]_vars PROVE OrderInv'
  OBVIOUS
<1>t. TypeOK /\ CopiesAreCurrent /\ OrderInv
  BY DEF IInv, Awake
<1>1. CASE Begin
  <2>1. CASE Reporting(View)
    BY <1>t, <1>1, <2>1, BeginEffect DEF OrderInv, Reporting, View
  <2>2. CASE ~Reporting(View)
    BY <1>t, <1>1, <2>2, BeginEffect DEF OrderInv
  <2> QED  BY <2>1, <2>2
<1>2. CASE ContinueAssigned
  <2>1. work.view \in Views
    BY <1>t, <1>2 DEF ContinueAssigned, TypeOK, Works, Idle
  <2>2. /\ UNCHANGED <<partition, manager, scaler, seen>> /\ Reporting(work.view)
        /\ work.pc = "assigned"
    BY <1>t, <1>2, <2>1, AfterEffect DEF ContinueAssigned
  <2> QED  BY <1>t, <2>2 DEF OrderInv, Reporting, manager
<1>3. CASE Report \/ ReportFails
  <2>1. /\ scaler'.replicas = work.replicas \/ scaler' = scaler
        /\ work'.pc = "idle" /\ work.pc = "report"
        /\ UNCHANGED <<partition, manager, seen>>
    BY <1>t, <1>3, PutType, IdleType DEF Report, ReportFails
  <2> QED  BY <1>t, <2>1 DEF OrderInv, manager
<1>4. ASSUME NEW o \in Objects, Deliver(o) PROVE OrderInv'
  <2>1. UNCHANGED <<partition, manager, scaler, work>>
    BY <1>4 DEF Deliver
  <2>2. /\ seen'.scaler = seen.scaler \/ seen'.scaler = scaler
        /\ seen'.manager = seen.manager \/ seen'.manager = ManagerObject
    BY <1>t, <1>4 DEF Deliver, TypeOK, Objects
  <2> QED  BY <1>t, <2>1, <2>2 DEF OrderInv, ManagerObject, manager
<1>5. CASE Crash
  BY <1>t, <1>5, IdleType DEF Crash, OrderInv, ManagerObject, manager
<1>6. ASSUME NEW plan \in Plans, NEW isReady \in BOOLEAN, Publish(plan, isReady)
      PROVE  OrderInv'
  <2>1. partition'.plan = plan /\ UNCHANGED <<manager, scaler, seen, work>>
    BY <1>6 DEF Publish
  <2>2. CASE plan = partition.plan
    BY <1>t, <2>1, <2>2 DEF OrderInv, manager
  <2>3. CASE plan # partition.plan
    BY <1>6, <2>1, <2>3, PublishNew DEF OrderInv, manager
  <2> QED  BY <2>2, <2>3
<1>7. ASSUME NEW o \in Objects, work' = Outdated(work, o),
             UNCHANGED <<partition, managerSpec, seen>>, scaler'.replicas = scaler.replicas,
             managerApplied' = managerApplied \/ managerApplied' = managerSpec
      PROVE  OrderInv'
  <2>1. work \in Works
    BY <1>t DEF TypeOK
  <2>2. /\ work'.pc = work.pc
        /\ work.pc = "assigned" => /\ work'.view.scaler = work.view.scaler
                                   /\ work'.view.manager = work.view.manager
                                   /\ work'.view.plan = work.view.plan
        /\ work.pc = "report" => work'.replicas = work.replicas
    BY <1>7, <2>1, OutdatedKeeps
  <2>3. managerApplied' # partition.plan => managerApplied # partition.plan
    BY <1>t, <1>7 DEF OrderInv
  <2> QED  BY <1>t, <1>7, <2>2, <2>3 DEF OrderInv
<1>8. CASE ManagerFulfils \/ ManagerRefuses
  BY <1>7, <1>8 DEF ManagerFulfils, ManagerRefuses, Manager!Fulfil, Manager!Refuse, Objects
<1>9. CASE CountPods
  BY <1>7, <1>9 DEF CountPods, Objects, manager
<1>10. CASE TogglePause
  <2>1. scaler'.replicas = scaler.replicas
    BY <1>t, <1>10 DEF TogglePause, TypeOK, Scalers
  <2> QED  BY <1>7, <1>10, <2>1 DEF TogglePause, Objects, manager
<1>11. CASE UNCHANGED <<partition, manager, scaler, seen, work>>
  BY <1>t, <1>11 DEF OrderInv, manager
<1>12. (\E i \in 1..MaxReplicas : CreatePod(i)) \/ (\E p \in pods : DeletePod(p)) \/ UNCHANGED vars
         => UNCHANGED <<partition, manager, scaler, seen, work>>
  BY DEF CreatePod, DeletePod, vars, manager
<1>13. ~ \E n, env \in Counts : Drift(n, env)
  BY DEF Drift, X0YAlone
<1> QED
  BY <1>1, <1>2, <1>3, <1>4, <1>5, <1>6, <1>8, <1>9, <1>10, <1>11, <1>12, <1>13
     DEF Next, Reconcile, StatefulSetController

(* A Reconcile leaves the pods alone; the StatefulSet it takes to zero, or *)
(* to the replicas of the plan when that is applied; and the manager it    *)
(* asks when nothing runs.                                                 *)
LEMMA ReconcileEffect ==
  ASSUME X0YAlone, IInv, Reconcile
  PROVE  /\ UNCHANGED <<partition, pods, managerApplied, seen>>
         /\ \/ sts' = sts
            \/ Asked(0)
            \/ /\ Asked(Size[partition.plan])
               /\ managerApplied = partition.plan /\ managerSpec = partition.plan
         /\ \/ managerSpec' = managerSpec
            \/ managerSpec' = partition.plan /\ managerSpec # partition.plan /\ Zero /\ sts' = sts
<1>t. TypeOK /\ CopiesAreCurrent /\ OrderInv /\ ZeroInv
  BY DEF IInv, Awake
<1>1. CASE Begin
  <2>1. /\ UNCHANGED <<partition, scaler, seen, pods, managerApplied>>
        /\ \/ sts' = sts
           \/ Asked(0)
           \/ /\ Asked(Size[partition.plan])
              /\ \/ seen.manager.applied = partition.plan
                 \/ seen.scaler.replicas = partition.plan
        /\ \/ managerSpec' = managerSpec
           \/ /\ managerSpec' = partition.plan /\ managerSpec # partition.plan /\ sts' = sts
              /\ seen.scaler.replicas = partition.plan \/ seen.sts.status = 0
    BY <1>t, <1>1, BeginEffect
  <2>2. seen.manager.applied = partition.plan \/ seen.scaler.replicas = partition.plan
          => managerApplied = partition.plan /\ managerSpec = partition.plan
    BY <1>t DEF OrderInv
  <2>3. managerSpec # partition.plan /\ seen.sts.status = 0 => Zero
    BY <1>t DEF ZeroInv
  <2> QED  BY <2>1, <2>2, <2>3
<1>2. CASE ContinueAssigned
  <2>1. work.view \in Views
    BY <1>t, <1>2 DEF ContinueAssigned, TypeOK, Works, Idle
  <2>2. /\ UNCHANGED <<partition, seen, pods, manager>> /\ work.pc = "assigned"
        /\ sts' = sts \/ (Asked(Size[work.view.plan])
                          /\ work.view.manager.applied = work.view.plan)
    BY <1>t, <1>2, <2>1, AfterEffect DEF ContinueAssigned
  <2> QED  BY <1>t, <2>2 DEF OrderInv, manager
<1>3. CASE Report \/ ReportFails
  BY <1>3 DEF Report, ReportFails, manager
<1> QED  BY <1>1, <1>2, <1>3 DEF Reconcile

(* Nothing runs while the shards are moved. *)
LEMMA ZeroPreserved == X0YAlone /\ IInv /\ [Next]_vars => ZeroInv'
<1> SUFFICES ASSUME X0YAlone, IInv, [Next]_vars PROVE ZeroInv'
  OBVIOUS
<1>t. TypeOK /\ OnePodEach /\ CopiesAreCurrent /\ OrderInv /\ ZeroInv /\ PodsInv
  BY DEF IInv, Awake
<1>1. CASE Reconcile
  <2>1. Zero => Zero' \/ (managerApplied = partition.plan /\ managerSpec = partition.plan)
    BY <1>1, ReconcileEffect DEF Zero, Asked
  <2>2. managerSpec' # partition.plan => managerSpec' = managerSpec /\ sts'.status = sts.status
    BY <1>1, ReconcileEffect DEF Asked
  <2>3. managerSpec' # managerSpec => Zero'
    BY <1>1, ReconcileEffect DEF Zero
  <2> QED  BY <1>t, <1>1, <2>1, <2>2, <2>3, ReconcileEffect DEF ZeroInv, OrderInv
<1>2. ASSUME NEW o \in Objects, Deliver(o) PROVE ZeroInv'
  <2>1. UNCHANGED <<partition, manager, sts, pods>>
    BY <1>2 DEF Deliver
  <2>2. seen'.sts = seen.sts \/ seen'.sts = sts
    BY <1>t, <1>2 DEF Deliver, TypeOK, Objects
  <2> QED  BY <1>t, <2>1, <2>2 DEF ZeroInv, Zero, manager
<1>3. CASE Crash
  BY <1>t, <1>3 DEF Crash, ZeroInv, Zero, manager
<1>4. ASSUME NEW plan \in Plans, NEW isReady \in BOOLEAN, Publish(plan, isReady)
      PROVE  ZeroInv'
  <2>1. partition'.plan = plan /\ UNCHANGED <<manager, sts, pods, seen>>
    BY <1>4 DEF Publish
  <2>2. CASE plan = partition.plan
    BY <1>t, <2>1, <2>2 DEF ZeroInv, Zero, manager
  <2>3. CASE plan # partition.plan
    BY <1>4, <2>1, <2>3, PublishNew DEF ZeroInv, Zero, manager
  <2> QED  BY <2>2, <2>3
<1>5. CASE ManagerFulfils \/ ManagerRefuses
  BY <1>t, <1>5 DEF ManagerFulfils, ManagerRefuses, Manager!Fulfil, Manager!Refuse, ZeroInv, Zero
<1>6. ASSUME NEW i \in 1..MaxReplicas, CreatePod(i) PROVE ZeroInv'
  <2>1. sts.replicas # 0
    BY <1>t, <1>6, ScalerAssumption DEF CreatePod, TypeOK, StatefulSets, Counts
  <2> QED  BY <1>t, <1>6, <2>1 DEF CreatePod, ZeroInv, Zero, manager
<1>7. ASSUME NEW p \in pods, DeletePod(p) PROVE ZeroInv'
  BY <1>t, <1>7 DEF DeletePod, ZeroInv, Zero, manager
<1>8. CASE CountPods
  <2>1. /\ sts'.status = Cardinality(pods) /\ sts'.replicas = sts.replicas
        /\ UNCHANGED <<partition, manager, pods, seen>>
    BY <1>t, <1>8 DEF CountPods, TypeOK, StatefulSets
  <2>2. Cardinality(pods) = 0 => pods = {}
    BY <1>t, PodsCount, FS_EmptySet DEF TypeOK
  <2>3. pods = {} /\ managerSpec # partition.plan => Zero
    <3>1. Complete /\ pods = {} => ~(1 \in 1..sts.replicas)
      BY DEF Complete
    <3>2. sts.replicas \in Nat
      BY <1>t, ScalerAssumption DEF TypeOK, StatefulSets, Counts
    <3> QED  BY <1>t, <3>1, <3>2 DEF PodsInv, Zero
  <2> QED  BY <1>t, <2>1, <2>2, <2>3 DEF ZeroInv, Zero, manager
<1>9. CASE UNCHANGED <<partition, manager, sts, pods, seen>>
  BY <1>t, <1>9 DEF ZeroInv, Zero, manager
<1>10. TogglePause \/ UNCHANGED vars => UNCHANGED <<partition, manager, sts, pods, seen>>
  BY DEF TogglePause, vars, manager
<1>11. ~ \E n, env \in Counts : Drift(n, env)
  BY DEF Drift, X0YAlone
<1> QED
  BY <1>1, <1>2, <1>3, <1>4, <1>5, <1>6, <1>7, <1>8, <1>9, <1>10, <1>11
     DEF Next, StatefulSetController

(* A pod is created where one is missing: then not all are there, and the  *)
(* StatefulSet asks for those of the plan applied.                         *)
LEMMA CreatedPod ==
  ASSUME X0YAlone, IInv, NEW i \in 1..MaxReplicas, CreatePod(i)
  PROVE  /\ managerSpec = partition.plan
         /\ Size[managerApplied] > 0 /\ sts.env = Size[managerApplied]
         /\ sts.replicas = Size[managerApplied]
<1>1. i <= sts.replicas /\ sts.replicas \in Nat /\ \A p \in pods : p.ordinal # i
  BY ScalerAssumption DEF CreatePod, IInv, Awake, TypeOK, StatefulSets, Counts
<1>2. ~Complete
  BY <1>1, ScalerAssumption DEF Complete
<1> QED  BY <1>1, <1>2, ScalerAssumption DEF IInv, PodsInv

(* Pods stay those of the plan applied. *)
LEMMA PodsPreserved == X0YAlone /\ IInv /\ [Next]_vars => PodsInv'
<1> SUFFICES ASSUME X0YAlone, IInv, [Next]_vars PROVE PodsInv'
  OBVIOUS
<1>t. TypeOK /\ OrderInv /\ ZeroInv /\ PodsInv
  BY DEF IInv, Awake
<1> DEFINE PodsOfPlan == /\ NoMixedEnv
                         /\ \A p \in pods : p.restarted = TRUE
                         /\ Size[managerApplied] > 0 =>
                              \A p \in pods : p.env = Size[managerApplied]
           AskedInv == \/ sts.replicas = 0
                       \/ Complete
                       \/ /\ managerSpec = partition.plan
                          /\ sts.replicas = Size[managerApplied]
                          /\ sts.env = Size[managerApplied]
<1>1. CASE Reconcile
  <2>1. PodsOfPlan'
    BY <1>t, <1>1, ReconcileEffect DEF PodsInv, NoMixedEnv
  <2>2. AskedInv'
    <3>1. CASE sts' = sts
      BY <1>t, <1>1, <3>1, ReconcileEffect DEF PodsInv, Complete, Condemned
    <3>2. CASE Asked(0)
      BY <3>2 DEF Asked
    <3>3. CASE sts' # sts /\ ~Asked(0)
      BY <1>1, <3>3, ReconcileEffect DEF Asked
    <3> QED  BY <3>1, <3>2, <3>3
  <2> QED  BY <2>1, <2>2 DEF PodsInv
<1>2. ASSUME NEW plan \in Plans, NEW isReady \in BOOLEAN, Publish(plan, isReady)
      PROVE  PodsInv'
  <2>1. partition'.plan = plan /\ UNCHANGED <<manager, sts, pods>>
    BY <1>2 DEF Publish
  <2>2. PodsOfPlan' /\ (Complete => Complete')
    BY <1>t, <2>1 DEF PodsInv, NoMixedEnv, Complete, Condemned, manager
  <2>3. plan = partition.plan \/ Complete
    BY <1>2, PublishNew
  <2> QED  BY <1>t, <2>1, <2>2, <2>3 DEF PodsInv, manager
<1>3. CASE ManagerFulfils \/ ManagerRefuses
  <2>1. /\ UNCHANGED <<managerSpec, partition, sts, pods>>
        /\ managerApplied' = managerApplied \/ managerApplied' = managerSpec
    BY <1>3 DEF ManagerFulfils, ManagerRefuses, Manager!Fulfil, Manager!Refuse
  <2>2. CASE managerApplied' = managerApplied
    BY <1>t, <2>1, <2>2 DEF PodsInv, NoMixedEnv, Complete, Condemned
  <2>3. CASE managerApplied' # managerApplied
    <3>1. Zero
      BY <1>t, <2>1, <2>3 DEF ZeroInv
    <3> QED  BY <2>1, <3>1 DEF Zero, PodsInv, NoMixedEnv
  <2> QED  BY <2>2, <2>3
<1>4. ASSUME NEW i \in 1..MaxReplicas, CreatePod(i) PROVE PodsInv'
  <2> DEFINE n == Size[managerApplied]
  <2>1. managerSpec = partition.plan /\ n > 0 /\ sts.env = n /\ sts.replicas = n
    BY <1>4, CreatedPod
  <2>2. UNCHANGED <<partition, manager, sts>>
    BY <1>4 DEF CreatePod
  <2>3. \A p \in pods' : p.env = n /\ p.restarted = TRUE
    <3>1. pods' = pods \cup {[ordinal |-> i, env |-> n, restarted |-> TRUE]}
      BY <1>4, <2>1 DEF CreatePod
    <3>2. \A p \in pods : p.env = n /\ p.restarted = TRUE
      BY <1>t, <2>1 DEF PodsInv
    <3> QED  BY <3>1, <3>2
  <2> HIDE DEF n
  <2>4. n' = n
    BY <2>2 DEF n, manager
  <2> QED  BY <2>1, <2>2, <2>3, <2>4 DEF PodsInv, NoMixedEnv, manager, n
<1>5. ASSUME NEW p \in pods, DeletePod(p) PROVE PodsInv'
  <2>1. pods' \subseteq pods /\ UNCHANGED <<partition, manager, sts>> /\ ~Complete
    BY <1>5 DEF DeletePod, Complete
  <2> QED  BY <1>t, <2>1 DEF PodsInv, NoMixedEnv, manager
<1>6. CASE CountPods
  <2>1. /\ sts'.replicas = sts.replicas /\ sts'.env = sts.env
        /\ UNCHANGED <<partition, manager, pods>>
    BY <1>t, <1>6 DEF CountPods, TypeOK, StatefulSets
  <2> QED  BY <1>t, <2>1 DEF PodsInv, NoMixedEnv, Complete, Condemned, manager
<1>7. CASE UNCHANGED <<partition, manager, sts, pods>>
  BY <1>t, <1>7 DEF PodsInv, NoMixedEnv, Complete, Condemned, manager
<1>8. (\E o \in Objects : Deliver(o)) \/ Crash \/ TogglePause \/ UNCHANGED vars
        => UNCHANGED <<partition, manager, sts, pods>>
  BY DEF Deliver, Crash, TogglePause, vars, manager
<1>9. ~ \E n, env \in Counts : Drift(n, env)
  BY DEF Drift, X0YAlone
<1> QED
  BY <1>1, <1>2, <1>3, <1>4, <1>5, <1>6, <1>7, <1>8, <1>9 DEF Next, StatefulSetController

(* At the start all pods that are asked for are there. *)
LEMMA InitInv == Init => IInv
<1> SUFFICES ASSUME Init PROVE IInv
  OBVIOUS
<1>1. PICK plan \in Plans, n \in Counts :
        /\ managerSpec = plan /\ managerApplied = plan /\ scaler.replicas = plan
        /\ plan # EmptyPlan => n = Size[plan]
        /\ sts.replicas = n /\ sts.env = n /\ sts.status = n
        /\ pods = {[ordinal |-> i, env |-> n, restarted |-> TRUE] : i \in 1..n}
  BY DEF Init
<1>2. /\ seen.manager = ManagerObject /\ seen.sts = sts /\ seen.scaler = scaler
      /\ work.pc = "idle" /\ requested = TRUE
  BY IdleType DEF Init
<1>3. Awake
  <2>1. CopiesAreCurrent /\ Due
    BY <1>2 DEF CopiesAreCurrent, Due
  <2> QED  BY <1>2, <2>1, InitType DEF Awake, WorkIsSettled
<1>4. NotedInv /\ OrderInv
  BY <1>1, <1>2 DEF NotedInv, OrderInv, ManagerObject
<1>5. ZeroInv
  BY <1>1, <1>2 DEF ZeroInv, Zero
<1>6. \A p \in pods : p.env = n /\ p.restarted = TRUE /\ p.ordinal <= n
  BY <1>1
<1>7. Complete
  <2>1. ASSUME NEW i \in 1..n PROVE \E p \in pods : p.ordinal = i
    <3>1. [ordinal |-> i, env |-> n, restarted |-> TRUE] \in pods
      BY <1>1
    <3> QED  BY <3>1
  <2>2. \A p \in pods : ~Condemned(p)
    BY <1>1, <1>6, ScalerAssumption DEF Condemned, Counts
  <2> QED  BY <1>1, <2>1, <2>2 DEF Complete
<1>8. Size[managerApplied] > 0 => Size[managerApplied] = n
  BY <1>1, ScalerAssumption
<1>9. PodsInv
  BY <1>6, <1>7, <1>8 DEF PodsInv, NoMixedEnv
<1> QED  BY <1>3, <1>4, <1>5, <1>9 DEF IInv

LEMMA InvHolds == ASSUME X0YAlone PROVE Spec => []IInv
<1>1. IInv /\ [Next]_vars => IInv'
  BY TypePreserved, OnePodEachPreserved, CopiesStayCurrent, WorkStaysSettled, NotedPreserved,
     OrderPreserved, ZeroPreserved, PodsPreserved, X0YAlone DEF IInv, Awake
<1> QED  BY <1>1, InitInv, PTL DEF Spec

------------------------------------------------------------------------------
(* In X-0-Y mode the shards are handed to other replicas only while no     *)
(* replica runs, however old the copies are from which the scaler tells    *)
(* how far it has come, and whatever was refused, lost or crashed.         *)
THEOREM ShardsNeverMoveUnderPods == ASSUME X0YAlone PROVE Spec => ShardsMoveAtZero
<1>1. IInv /\ [Next]_vars => [managerApplied' # managerApplied => pods = {}]_vars
  <2> SUFFICES ASSUME IInv, [Next]_vars, managerApplied' # managerApplied PROVE pods = {}
    OBVIOUS
  <2>1. ManagerFulfils
    BY ReconcileEffect, X0YAlone
       DEF Next, vars, manager, Deliver, Crash, Publish, ManagerRefuses, Manager!Refuse,
           StatefulSetController, CreatePod, DeletePod, CountPods, TogglePause, Drift
  <2> QED  BY <2>1 DEF ManagerFulfils, Manager!Fulfil, IInv, ZeroInv, Zero
<1> QED  BY <1>1, InvHolds, PTL DEF Spec, ShardsMoveAtZero

(* In X-0-Y mode a pod that starts is told the number of replicas of the   *)
(* plan by which the shards are assigned at that moment.                   *)
THEOREM PodsStartRight == ASSUME X0YAlone PROVE Spec => PodsStartUnderTheirPlan
<1> DEFINE Right == \A p \in pods' \ pods : p.env = Size[managerApplied] \/ ~p.restarted
<1>1. IInv /\ [Next]_vars => [Right]_vars
  <2> SUFFICES ASSUME IInv, [Next]_vars PROVE Right
    OBVIOUS
  <2>1. ASSUME NEW i \in 1..MaxReplicas, CreatePod(i) PROVE Right
    <3>1. pods' = pods \cup {[ordinal |-> i, env |-> sts.env, restarted |-> TRUE]}
      BY <2>1 DEF CreatePod
    <3>2. sts.env = Size[managerApplied]
      BY <2>1, CreatedPod, X0YAlone
    <3> QED  BY <3>1, <3>2
  <2>2. (\A i \in 1..MaxReplicas : ~CreatePod(i)) => pods' \subseteq pods
    BY ReconcileEffect, X0YAlone
       DEF Next, vars, Deliver, Crash, Publish, ManagerFulfils, ManagerRefuses,
           StatefulSetController, DeletePod, CountPods, TogglePause, Drift
  <2> QED  BY <2>1, <2>2
<1> QED  BY <1>1, InvHolds, PTL DEF Spec, PodsStartUnderTheirPlan

(* What the X-0-Y mode is for: replicas that run together agree on how     *)
(* many they are, if a plan is published only once the last is in place.   *)
THEOREM NeverMixed == ASSUME X0YAlone PROVE Spec => []NoMixedEnv
<1>1. IInv => NoMixedEnv
  BY DEF IInv, PodsInv
<1> QED  BY <1>1, InvHolds, PTL
==============================================================================
