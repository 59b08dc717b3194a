-------------------------- MODULE ShardManagerProofs --------------------------
(***************************************************************************)
(* What TLAPS proves of the shard manager, for every set of secrets,       *)
(* replicas and plans and every number of edits and failures.              *)
(***************************************************************************)
EXTENDS ShardManager, TLAPS

(* Begin and the reports leave a work record of the right type. *)
LEMMA IdleType == Idle \in Works /\ Idle.todo = {}
  BY ManagerAssumption DEF Idle, Works, Conditions

(* The first states are of the right type. *)
LEMMA InitType == Init => TypeOK
  BY ManagerAssumption, IdleType
     DEF Init, TypeOK, Statuses, Conditions, Contents, Missing, Idle

(* What is outdated is planned and listed. *)
LEMMA OutdatedPlanned ==
  ASSUME NEW plan, NEW copies
  PROVE  Outdated(plan, copies) \subseteq {pair[1] : pair \in plan} \cap Listed(copies)
  BY DEF Outdated

(* So is what every step leads to, one case for each action. *)
LEMMA TypePreserved == TypeOK /\ [Next]_vars => TypeOK'
<1> SUFFICES ASSUME TypeOK, [Next]_vars PROVE TypeOK'
  OBVIOUS
<1> USE ManagerAssumption
<1>1. CASE BeginReconcile
  <2> DEFINE read == [Idle EXCEPT !.spec = specSeen, !.seen = Listed(secretsSeen),
                                  !.stale = lagging, !.fresh = (managerLag = "none")]
  <2>1. /\ read \in Works /\ read.todo = {}
        /\ read.spec = specSeen /\ read.seen = Listed(secretsSeen)
    BY DEF TypeOK, Works, Idle, Listed, Conditions
  <2>2. Outdated(specSeen, secretsSeen) \subseteq
          {pair[1] : pair \in specSeen} \cap Listed(secretsSeen)
    BY OutdatedPlanned
  <2>3. Outdated(specSeen, secretsSeen) \subseteq Shards
    BY DEF Outdated, Listed
  <2> HIDE DEF read
  <2>4. /\ work' \in Works
        /\ work'.todo \subseteq {pair[1] : pair \in work'.spec} \cap work'.seen
    <3>1. \/ work' = [read EXCEPT !.pc = "report", !.outcome = "FailedToReadDesiredReplicaShard"]
          \/ work' = [read EXCEPT !.pc = "report", !.outcome = "FailedToReadShardFromSecret"]
          \/ work' = [read EXCEPT !.pc = "write", !.outcome = "Ready",
                                  !.todo = Outdated(specSeen, secretsSeen)]
      BY <1>1 DEF BeginReconcile, read
    <3>2. ASSUME NEW complaint \in Conditions,
                 work' = [read EXCEPT !.pc = "report", !.outcome = complaint]
          PROVE  work' \in Works /\ work'.todo = {}
      BY <2>1, <3>2 DEF Works
    <3>3. CASE work' = [read EXCEPT !.pc = "write", !.outcome = "Ready",
                                   !.todo = Outdated(specSeen, secretsSeen)]
      <4>1. "Ready" \in Conditions
        BY DEF Conditions
      <4>2. work' \in Works
        BY <2>1, <2>3, <3>3, <4>1 DEF Works
      <4>3. /\ work'.todo = Outdated(specSeen, secretsSeen)
            /\ work'.spec = specSeen /\ work'.seen = Listed(secretsSeen)
        BY <2>1, <3>3 DEF Works
      <4> QED  BY <2>2, <4>2, <4>3
    <3> QED  BY <3>1, <3>2, <3>3 DEF Conditions
  <2>5. /\ UNCHANGED <<server, cache, edits, faults>>
        /\ requested' = FALSE /\ missed' = {}
    BY <1>1 DEF BeginReconcile
  <2> QED  BY <2>4, <2>5 DEF TypeOK, server, cache
<1>2. CASE BeginWithFailedList
  <2>1. work' \in Works
    BY <1>2 DEF BeginWithFailedList, TypeOK, Works, Idle, Conditions
  <2>2. work'.todo \subseteq {pair[1] : pair \in work'.spec} \cap work'.seen
    BY <1>2 DEF BeginWithFailedList, TypeOK, Works, Idle
  <2>3. /\ UNCHANGED <<server, cache, missed, edits>>
        /\ requested' = FALSE
        /\ faults' \in 0..MaxFaults
    BY <1>2 DEF BeginWithFailedList, Fault, TypeOK
  <2> QED  BY <2>1, <2>2, <2>3 DEF TypeOK, server, cache
<1>3. ASSUME NEW s \in Shards, WriteSecret(s) PROVE TypeOK'
  <2>1. secrets' \in [Shards -> Contents] /\ lagging' \subseteq Shards
    BY <1>3 DEF WriteSecret, PutSecret, TypeOK, Contents
  <2>2. /\ work' \in Works
        /\ work'.todo \subseteq work.todo /\ work'.spec = work.spec /\ work'.seen = work.seen
    BY <1>3 DEF WriteSecret, TypeOK, Works
  <2> QED  BY <1>3, <2>1, <2>2 DEF WriteSecret, TypeOK
<1>4. ASSUME NEW s \in Shards, WriteSecretFails(s) PROVE TypeOK'
  <2>1. secrets' \in [Shards -> Contents] /\ lagging' \subseteq Shards
    <3>1. CASE UNCHANGED <<secrets, lagging>>
      BY <3>1 DEF TypeOK
    <3>2. CASE PutSecret(s)
      BY <3>2 DEF PutSecret, TypeOK, Contents
    <3> QED  BY <1>4, <3>1, <3>2 DEF WriteSecretFails
  <2>2. faults' \in 0..MaxFaults
    BY <1>4 DEF WriteSecretFails, Fault, TypeOK
  <2>3. /\ work' \in Works
        /\ work'.todo = work.todo /\ work'.spec = work.spec /\ work'.seen = work.seen
    BY <1>4 DEF WriteSecretFails, TypeOK, Works, Conditions
  <2> QED  BY <1>4, <2>1, <2>2, <2>3 DEF WriteSecretFails, TypeOK
<1>5. NewStatus \in Statuses
  BY DEF NewStatus, TypeOK, Statuses, Works
<1>6. CASE Report
  BY <1>5, <1>6, IdleType DEF Report, PutStatus, TypeOK
<1>7. CASE ReportFails
  BY <1>5, <1>7, IdleType DEF ReportFails, PutStatus, Fault, TypeOK
<1>8. ASSUME NEW s \in Shards, DeliverSecret(s) \/ LoseSecretEvent(s) PROVE TypeOK'
  <2>1. /\ ShowSecret(s)
        /\ missed' \subseteq Shards /\ requested' \in BOOLEAN /\ faults' \in 0..MaxFaults
    <3>1. CASE DeliverSecret(s)
      BY <3>1 DEF DeliverSecret, TypeOK
    <3>2. CASE LoseSecretEvent(s)
      BY <3>2 DEF LoseSecretEvent, Fault, TypeOK
    <3> QED  BY <1>8, <3>1, <3>2
  <2> QED  BY <2>1 DEF ShowSecret, TypeOK, server
<1>9. CASE DeliverManager
  BY <1>9 DEF DeliverManager, TypeOK, server
<1>10. CASE Crash
  BY <1>10, IdleType DEF Crash, Fault, TypeOK, server
<1>11. ASSUME NEW plan \in Plans, SetSpec(plan) PROVE TypeOK'
  <2>1. /\ work' \in Works
        /\ work'.todo = work.todo /\ work'.spec = work.spec /\ work'.seen = work.seen
    BY <1>11 DEF SetSpec, TypeOK, Works
  <2> QED  BY <1>11, <2>1 DEF SetSpec, TypeOK
<1>12. ASSUME NEW s \in Shards, NEW content \in Contents, EditSecret(s, content) PROVE TypeOK'
  <2>1. /\ work' \in Works
        /\ work'.todo = work.todo /\ work'.spec = work.spec /\ work'.seen = work.seen
    BY <1>12 DEF EditSecret, TypeOK, Works
  <2> QED  BY <1>12, <2>1 DEF EditSecret, TypeOK
<1>13. CASE UNCHANGED vars
  BY <1>13 DEF vars, TypeOK
<1> QED
  BY <1>1, <1>2, <1>3, <1>4, <1>6, <1>7, <1>8, <1>9, <1>10, <1>11, <1>12, <1>13
     DEF Next, Reconcile

(* The state of the manager, of its cache and of a Reconcile under way is  *)
(* of the right type, and a Reconcile has only secrets to write that it    *)
(* has listed and that the plan it read names.                             *)
THEOREM TypeCorrect == Spec => []TypeOK
  BY InitType, TypePreserved, PTL DEF Spec

------------------------------------------------------------------------------
(* The inductive invariant: how the copies of the cache and of a Reconcile *)
(* under way relate to the API server's objects.                           *)

(* A copy in the cache is the server's, or its event is still to come. *)
CacheInv == /\ \A s \in Shards \ lagging : secretsSeen[s] = secrets[s]
            /\ managerLag # "spec" => specSeen = spec

(* Optimistic locking: a status is taken only for the current plan. *)
FreshInv == work.fresh => managerLag = "none" /\ work.spec = spec

(* What changed under a Reconcile that will not be retried is noticed, or  *)
(* its event was lost.                                                     *)
StaleInv == work.pc # "idle" /\ work.outcome \notin Retried
              => \A s \in work.stale : s \in lagging \cup missed \/ requested

(* The rest is as it was read: in order, or still to be written. *)
WriteInv == work.pc = "write" =>
              /\ work.outcome = "Ready"
              /\ Functional(work.spec)
              /\ \A s \in Shards \ work.stale :
                    /\ secrets[s] # Garbage
                    /\ s \in work.seen <=> secrets[s] \notin Missing
                    /\ s \in Outdated(work.spec, secrets) => s \in work.todo

(* A complaint about to be reported was justified when it was read. *)
ReportInv == work.pc = "report" =>
               /\ work.outcome \notin {"Ready", "Unknown"}
               /\ work.outcome = "FailedToReadDesiredReplicaShard" => ~Functional(work.spec)
               /\ work.outcome = "FailedToReadShardFromSecret" =>
                     \E s \in Shards : s \in work.stale \/ secrets[s] = Garbage

IInv == TypeOK /\ CacheInv /\ FreshInv /\ StaleInv /\ WriteInv /\ ReportInv /\ SettledIsTruthful

(* At the start the cache is current and a request is queued. *)
LEMMA InitInv == Init => IInv
  BY InitType DEF Init, IInv, CacheInv, FreshInv, StaleInv, WriteInv, ReportInv,
                  SettledIsTruthful, AtRest, Idle

(* A Reconcile that ends asks to be called again, or leaves all in order. *)
LEMMA ReportSettles ==
  ASSUME IInv, Reporting, work.fresh, status' = NewStatus,
         UNCHANGED <<secrets, spec, lagging, missed>>,
         ~requested, work.outcome \notin Retried
  PROVE  Truthful(lagging \cup missed)'
<1> DEFINE aside == lagging \cup missed
<1>1. work.spec = spec
  BY DEF IInv, FreshInv
<1>2. work \in Works /\ work.pc # "idle"
  BY DEF IInv, TypeOK, Reporting
<1>3. work.stale \subseteq aside
  BY <1>2 DEF IInv, StaleInv
<1>4. CASE work.pc = "write" /\ work.todo = {}
  <2>1. /\ work.outcome = "Ready" /\ Functional(spec)
        /\ \A s \in Shards \ aside : /\ secrets[s] # Garbage
                                     /\ s \in work.seen <=> secrets[s] \notin Missing
                                     /\ s \notin Outdated(spec, secrets)
    BY <1>1, <1>3, <1>4 DEF IInv, WriteInv
  <2>2. status' = [replicas |-> spec, shards |-> work.seen, condition |-> "Ready"]
    BY <1>1, <2>1 DEF NewStatus
  <2>3. InOrder(aside)'
    BY <2>1 DEF InOrder, Functional, Outdated, Listed
  <2>4. \A s \in Shards \ aside : s \in status'.shards <=> s \in Listed(secrets)'
    BY <2>1, <2>2 DEF Listed
  <2> QED  BY <2>2, <2>3, <2>4 DEF Truthful
<1>5. CASE work.pc = "report"
  <2>1. status'.condition = work.outcome /\ work.outcome # "Ready"
    BY <1>5 DEF IInv, ReportInv, NewStatus, TypeOK, Statuses
  <2>2. work.outcome \in {"FailedToReadDesiredReplicaShard", "FailedToReadShardFromSecret"}
    BY <1>2, <1>5 DEF IInv, ReportInv, Retried, Works, Conditions
  <2>3. ~Functional(spec) \/ Unreadable(secrets) \/ aside # {}
    BY <1>1, <1>3, <1>5, <2>2 DEF IInv, ReportInv, Unreadable
  <2>4. ~Functional(spec)' \/ Unreadable(secrets)' \/ aside' # {}
    BY <2>3 DEF Functional, Unreadable
  <2> QED  BY <2>1, <2>4 DEF Truthful
<1> QED  BY <1>4, <1>5 DEF Reporting

(* Every step keeps the invariant, one case for each action. *)
LEMMA InvPreserved == IInv /\ [Next]_vars => IInv'
<1> SUFFICES ASSUME IInv, [Next]_vars PROVE IInv'
  OBVIOUS
<1> USE ManagerAssumption
<1>0. TypeOK /\ TypeOK'
  BY TypePreserved DEF IInv
<1>1. CASE BeginReconcile
  <2>1. CacheInv'
    BY <1>1 DEF BeginReconcile, IInv, CacheInv, server, cache
  <2>2. FreshInv'
    BY <1>1, <1>0 DEF BeginReconcile, IInv, CacheInv, FreshInv, TypeOK, Idle, server, cache
  <2>3. StaleInv'
    BY <1>1, <1>0 DEF BeginReconcile, StaleInv, TypeOK, Idle, server, cache
  <2>4. WriteInv'
    BY <1>1, <1>0 DEF BeginReconcile, IInv, CacheInv, WriteInv, TypeOK, Idle, server, cache,
                      Listed, Unreadable, Outdated, Functional
  <2>5. ReportInv'
    BY <1>1, <1>0 DEF BeginReconcile, IInv, CacheInv, ReportInv, TypeOK, Idle, server, cache,
                      Unreadable, Functional
  <2>6. SettledIsTruthful'
    BY <1>1, <1>0 DEF BeginReconcile, SettledIsTruthful, AtRest, Idle
  <2> QED  BY <1>0, <2>1, <2>2, <2>3, <2>4, <2>5, <2>6 DEF IInv
<1>2. CASE BeginWithFailedList
  <2>0. /\ UNCHANGED <<server, cache, edits>>
        /\ work'.pc = "report" /\ work'.spec = specSeen /\ work'.stale = {}
        /\ work'.fresh = (managerLag = "none") /\ work'.outcome = "FailedToListSecrets"
    BY <1>2 DEF BeginWithFailedList, Idle
  <2> QED  BY <1>0, <2>0 DEF IInv, CacheInv, FreshInv, StaleInv, WriteInv, ReportInv, Retried,
                             SettledIsTruthful, AtRest, server, cache
<1>3. ASSUME NEW s \in Shards, WriteSecret(s) PROVE IInv'
  <2>0. /\ work.pc = "write" /\ s \in work.todo /\ PutSecret(s)
        /\ work' = [work EXCEPT !.todo = @ \ {s}, !.stale = @ \cup {s}]
        /\ UNCHANGED <<missed, spec, specSeen, managerLag, requested>>
        /\ UNCHANGED secretsSeen
        /\ lagging' = lagging \cup {s}
        /\ \A t \in Shards \ {s} : secrets'[t] = secrets[t]
    BY <1>3, <1>0 DEF WriteSecret, PutSecret, TypeOK
  <2>w. /\ work'.pc = "write" /\ work'.outcome = work.outcome /\ work'.spec = work.spec
        /\ work'.seen = work.seen /\ work'.fresh = work.fresh
        /\ work'.todo = work.todo \ {s} /\ work'.stale = work.stale \cup {s}
    BY <1>0, <2>0 DEF TypeOK, Works
  <2>1. CacheInv'
    BY <2>0 DEF IInv, CacheInv
  <2>2. FreshInv'
    BY <2>0, <2>w DEF IInv, FreshInv
  <2>3. StaleInv'
    BY <2>0, <2>w DEF IInv, StaleInv
  <2>4. WriteInv'
    <3>1. PICK r \in Replicas : <<s, r>> \in work.spec /\ secrets' = [secrets EXCEPT ![s] = r]
      BY <2>0 DEF PutSecret
    <3> QED  BY <2>0, <2>w, <3>1 DEF IInv, WriteInv, Functional, Outdated, Listed
  <2>5. ReportInv' /\ SettledIsTruthful'
    BY <2>w DEF ReportInv, SettledIsTruthful, AtRest
  <2> QED  BY <1>0, <2>1, <2>2, <2>3, <2>4, <2>5 DEF IInv
<1>4. ASSUME NEW s \in Shards, WriteSecretFails(s) PROVE IInv'
  <2>0. /\ UNCHANGED <<missed, spec, specSeen, managerLag, secretsSeen, requested>>
        /\ lagging \subseteq lagging'
        /\ \A t \in Shards : secrets'[t] = secrets[t] \/ t \in lagging'
    BY <1>4, <1>0 DEF WriteSecretFails, PutSecret, TypeOK
  <2>w. /\ work'.pc = "report" /\ work'.outcome = "FailedToUpdateSecret"
        /\ work'.spec = work.spec /\ work'.fresh = work.fresh
    BY <1>4, <1>0 DEF WriteSecretFails, TypeOK, Works
  <2> QED  BY <1>0, <2>0, <2>w DEF IInv, CacheInv, FreshInv, StaleInv, WriteInv, ReportInv,
                                   Retried, SettledIsTruthful, AtRest
<1>5. CASE Report
  <2>1. /\ Reporting /\ work.fresh /\ status' = NewStatus /\ work' = Idle
        /\ managerLag' \in {managerLag, "status"}
        /\ requested' = (requested \/ work.outcome \in Retried)
        /\ UNCHANGED <<secrets, spec, lagging, missed, secretsSeen, specSeen>>
    BY <1>5 DEF Report, PutStatus
  <2>2. CacheInv'
    BY <2>1 DEF IInv, CacheInv, FreshInv
  <2>3. FreshInv' /\ StaleInv' /\ WriteInv' /\ ReportInv'
    BY <2>1 DEF FreshInv, StaleInv, WriteInv, ReportInv, Idle
  <2>4. SettledIsTruthful'
    BY <2>1, ReportSettles DEF SettledIsTruthful, AtRest
  <2> QED  BY <1>0, <2>2, <2>3, <2>4 DEF IInv
<1>6. CASE ReportFails
  <2>1. /\ work' = Idle /\ requested'
        /\ managerLag' = managerLag \/ (work.fresh /\ managerLag' = "status")
        /\ UNCHANGED <<secrets, spec, lagging, missed, secretsSeen, specSeen>>
    BY <1>6 DEF ReportFails, PutStatus
  <2> QED  BY <1>0, <2>1 DEF IInv, CacheInv, FreshInv, StaleInv, WriteInv, ReportInv,
                             SettledIsTruthful, AtRest, Idle
<1>7. ASSUME NEW s \in Shards, DeliverSecret(s) \/ LoseSecretEvent(s) PROVE IInv'
  <2>1. /\ UNCHANGED <<secrets, spec, status, specSeen, managerLag, work>>
        /\ lagging' = lagging \ {s}
        /\ requested' \/ (missed' = missed \cup {s} /\ requested' = requested)
        /\ secretsSeen'[s] = secrets[s]
        /\ \A t \in Shards \ {s} : secretsSeen'[t] = secretsSeen[t]
        /\ s \in lagging
    BY <1>7, <1>0 DEF DeliverSecret, LoseSecretEvent, ShowSecret, TypeOK, server
  <2>2. CacheInv'
    BY <2>1 DEF IInv, CacheInv
  <2>3. FreshInv' /\ StaleInv'
    BY <2>1 DEF IInv, FreshInv, StaleInv
  <2>4. WriteInv' /\ ReportInv'
    BY <2>1 DEF IInv, WriteInv, ReportInv, Functional, Outdated, Listed
  <2>5. SettledIsTruthful'
    <3>1. CASE requested'
      BY <3>1 DEF SettledIsTruthful, AtRest
    <3>2. CASE missed' = missed \cup {s} /\ requested' = requested
      <4>1. (lagging \cup missed)' = lagging \cup missed
        BY <2>1, <3>2
      <4>2. Truthful(lagging \cup missed)' = Truthful(lagging \cup missed)
        BY <2>1, <4>1 DEF Truthful, InOrder, Functional, Unreadable, Listed, Outdated
      <4> QED  BY <2>1, <3>2, <4>2 DEF IInv, SettledIsTruthful, AtRest
    <3> QED  BY <2>1, <3>1, <3>2
  <2> QED  BY <1>0, <2>2, <2>3, <2>4, <2>5 DEF IInv
<1>8. CASE DeliverManager
  <2>1. /\ UNCHANGED <<secrets, spec, status, secretsSeen, lagging, missed, work>>
        /\ managerLag' = "none" /\ specSeen' = spec
        /\ requested' = (requested \/ managerLag = "spec")
    BY <1>8 DEF DeliverManager, server
  <2>2. CacheInv' /\ FreshInv' /\ StaleInv'
    BY <2>1 DEF IInv, CacheInv, FreshInv, StaleInv
  <2>3. WriteInv' /\ ReportInv'
    BY <2>1 DEF IInv, WriteInv, ReportInv, Functional, Outdated, Listed
  <2>4. Truthful(lagging \cup missed)' = Truthful(lagging \cup missed)
    BY <2>1 DEF Truthful, InOrder, Functional, Unreadable, Listed, Outdated
  <2>5. SettledIsTruthful'
    BY <2>1, <2>4 DEF IInv, SettledIsTruthful, AtRest
  <2> QED  BY <1>0, <2>2, <2>3, <2>5 DEF IInv
<1>9. CASE Crash
  <2>1. /\ UNCHANGED <<secrets, spec, status>>
        /\ work' = Idle /\ requested'
        /\ secretsSeen' = secrets /\ lagging' = {} /\ specSeen' = spec
    BY <1>9 DEF Crash, server
  <2> QED  BY <1>0, <2>1 DEF IInv, CacheInv, FreshInv, StaleInv, WriteInv, ReportInv,
                             SettledIsTruthful, AtRest, Idle
<1>10. ASSUME NEW plan \in Plans, SetSpec(plan) PROVE IInv'
  <2>1. /\ managerLag' = "spec"
        /\ UNCHANGED <<secrets, secretsSeen, lagging, missed, requested>>
    BY <1>10 DEF SetSpec
  <2>2. /\ work'.fresh = FALSE
        /\ work'.pc = work.pc /\ work'.outcome = work.outcome /\ work'.spec = work.spec
        /\ work'.seen = work.seen /\ work'.todo = work.todo /\ work'.stale = work.stale
    BY <1>10, <1>0 DEF SetSpec, TypeOK, Works
  <2>3. CacheInv' /\ FreshInv' /\ StaleInv' /\ SettledIsTruthful'
    BY <2>1, <2>2 DEF IInv, CacheInv, FreshInv, StaleInv, SettledIsTruthful, AtRest
  <2>4. WriteInv' /\ ReportInv'
    BY <2>1, <2>2 DEF IInv, WriteInv, ReportInv, Functional, Outdated, Listed
  <2> QED  BY <1>0, <2>3, <2>4 DEF IInv
<1>11. ASSUME NEW s \in Shards, NEW content \in Contents, EditSecret(s, content) PROVE IInv'
  <2>1. /\ lagging' = lagging \cup {s}
        /\ \A t \in Shards \ {s} : secrets'[t] = secrets[t]
        /\ UNCHANGED <<missed, spec, status, secretsSeen, specSeen, managerLag, requested>>
    BY <1>11, <1>0 DEF EditSecret, TypeOK
  <2>2. /\ work'.pc = work.pc /\ work'.outcome = work.outcome /\ work'.spec = work.spec
        /\ work'.seen = work.seen /\ work'.todo = work.todo /\ work'.fresh = work.fresh
        /\ work.pc # "idle" => work'.stale = work.stale \cup {s}
    BY <1>11, <1>0 DEF EditSecret, TypeOK, Works
  <2>3. CacheInv' /\ FreshInv' /\ StaleInv'
    BY <2>1, <2>2 DEF IInv, CacheInv, FreshInv, StaleInv
  <2>4. WriteInv' /\ ReportInv'
    BY <2>1, <2>2 DEF IInv, WriteInv, ReportInv, Functional, Outdated, Listed
  <2>5. SettledIsTruthful'
    <3>1. SUFFICES ASSUME Truthful(lagging \cup missed) PROVE Truthful(lagging \cup missed)'
      BY <2>1, <2>2 DEF IInv, SettledIsTruthful, AtRest
    <3>2. CASE status.condition = "Ready"
      BY <2>1, <3>1, <3>2 DEF Truthful, InOrder, Functional, Outdated, Listed
    <3>3. CASE status.condition # "Ready"
      BY <2>1, <3>1, <3>3 DEF Truthful
    <3> QED  BY <3>2, <3>3
  <2> QED  BY <1>0, <2>3, <2>4, <2>5 DEF IInv
<1>12. CASE UNCHANGED vars
  BY <1>12, <1>0 DEF vars, IInv, CacheInv, FreshInv, StaleInv, WriteInv, ReportInv, Functional,
                     Outdated, Listed, SettledIsTruthful, AtRest, Truthful, InOrder, Unreadable
<1> QED
  BY <1>1, <1>2, <1>3, <1>4, <1>5, <1>6, <1>7, <1>8, <1>9, <1>10, <1>11, <1>12
     DEF Next, Reconcile

(* The invariant holds in every state. *)
LEMMA InvHolds == Spec => []IInv
  BY InitInv, InvPreserved, PTL DEF Spec

(* The manager never falls asleep on an outdated secret or report, however *)
(* its steps interleave with edits, failures, crashes and delayed events;  *)
(* what an event lost to a failing List may hide is its own secret.        *)
THEOREM NeverAsleepOnFalsehood == Spec => []SettledIsTruthful
  BY InvHolds, PTL DEF IInv

(* The status taken by the API server tells of a plan that is carried out, *)
(* save for secrets that others changed meanwhile, whose events will come, *)
(* or were lost.                                                           *)
THEOREM ReadinessIsEarned == Spec => ReportedMeansApplied
<1> DEFINE Earned == status'.condition = "Ready" /\ status' # status =>
                       \A s \in Outdated(status'.replicas, secrets) :
                         s \in work.stale /\ (s \in lagging' \cup missed' \/ requested')
<1>1. IInv /\ [Next]_vars => [Earned]_vars
  <2> SUFFICES ASSUME IInv, Next, status' # status, status'.condition = "Ready",
                      NEW s \in Outdated(status'.replicas, secrets)
               PROVE  s \in work.stale /\ (s \in lagging' \cup missed' \/ requested')
    OBVIOUS
  <2>1. /\ Reporting /\ work.fresh /\ status' = NewStatus
        /\ requested => requested'
        /\ lagging' = lagging /\ missed' = missed
    BY DEF Next, Reconcile, BeginReconcile, BeginWithFailedList, WriteSecret, WriteSecretFails,
           Report, ReportFails, PutStatus, DeliverSecret, LoseSecretEvent, ShowSecret,
           DeliverManager, Crash, SetSpec, EditSecret, server
  <2>2. work.outcome = "Ready"
    BY <2>1 DEF NewStatus, IInv, TypeOK, Statuses
  <2>3. work.pc = "write" /\ work.todo = {} /\ status'.replicas = work.spec
    BY <2>1, <2>2 DEF Reporting, NewStatus, IInv, ReportInv
  <2>4. s \in Shards /\ s \in Outdated(work.spec, secrets)
    BY <2>3 DEF Outdated, Listed
  <2>5. s \in work.stale
    BY <2>3, <2>4 DEF IInv, WriteInv
  <2>6. s \in lagging \cup missed \/ requested
    BY <2>2, <2>3, <2>5 DEF IInv, StaleInv, Retried
  <2> QED  BY <2>1, <2>5, <2>6
<1>2. [][Earned]_vars => ReportedMeansApplied
  BY PTL DEF ReportedMeansApplied
<1> QED  BY <1>1, <1>2, InvHolds, PTL DEF Spec

(* The manager implements the contract that its readers rely on: it reports *)
(* the plan asked for at that moment, and a well-formed one.                *)
THEOREM ManagerImplementsContract == Spec => ImplementsContract
<1>1. Init => Contract!Init
  BY DEF Init, Contract!Init
<1>2. IInv /\ [Next]_vars => [Contract!Next]_(Contract!vars)
  <2> SUFFICES ASSUME IInv, [Next]_vars, ~UNCHANGED Contract!vars PROVE Contract!Next
    OBVIOUS
  <2>1. CASE UNCHANGED status
    <3>1. spec' # spec
      BY <2>1 DEF Contract!vars
    <3>2. PICK plan \in Plans : SetSpec(plan)
      BY <3>1 DEF Next, Reconcile, BeginReconcile, BeginWithFailedList, WriteSecret,
                  WriteSecretFails, Report, ReportFails, DeliverSecret, LoseSecretEvent,
                  ShowSecret, DeliverManager, Crash, EditSecret, server, vars
    <3> QED  BY <2>1, <3>2 DEF SetSpec, Contract!Next, Contract!Request
  <2>2. CASE status' # status
    <3>1. Reporting /\ work.fresh /\ status' = NewStatus /\ spec' = spec
      BY <2>2 DEF Next, Reconcile, BeginReconcile, BeginWithFailedList, WriteSecret,
                  WriteSecretFails, Report, ReportFails, PutStatus, DeliverSecret,
                  LoseSecretEvent, ShowSecret, DeliverManager, Crash, SetSpec, EditSecret,
                  server, vars
    <3>2. work.spec = spec /\ spec \in Plans
      BY <3>1 DEF IInv, FreshInv, TypeOK
    <3>3. CASE work.outcome = "Ready"
      <4>1. Functional(spec)
        BY <3>1, <3>2, <3>3 DEF Reporting, IInv, WriteInv, ReportInv
      <4>2. status'.replicas = spec /\ status'.condition = "Ready"
        BY <3>1, <3>2, <3>3 DEF NewStatus
      <4> QED  BY <3>1, <3>2, <4>1, <4>2 DEF Contract!Next, Contract!Fulfil
    <3>4. CASE work.outcome # "Ready"
      <4>1. status'.replicas = status.replicas /\ status'.condition # "Ready"
        BY <3>1, <3>4 DEF NewStatus, IInv, TypeOK, Statuses
      <4> QED  BY <3>1, <4>1 DEF Contract!Next, Contract!Refuse
    <3> QED  BY <3>3, <3>4
  <2> QED  BY <2>1, <2>2
<1> QED  BY <1>1, <1>2, InvHolds, PTL DEF Spec, ImplementsContract, Contract!Spec
===============================================================================
