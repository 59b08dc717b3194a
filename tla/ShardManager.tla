----------------------------- MODULE ShardManager -----------------------------
(***************************************************************************)
(* The Secret Type Cluster Shard Manager: the reconciler that writes the   *)
(* replica number of every Argo CD cluster into its secret, against an API *)
(* server that it reads through a cache and writes with optimistic locking.*)
(*                                                                         *)
(* A plan is a relation from shards (cluster secrets, by UID) to replica   *)
(* numbers; the relation that gives a shard two numbers is the malformed   *)
(* specification the code refuses.                                         *)
(***************************************************************************)
EXTENDS Integers, FiniteSets

CONSTANTS Shards,     \* UIDs of cluster secrets
          Replicas,   \* replica numbers, of 32 bits
          Wide,       \* numbers of more than 32 bits, that a secret may hold, too
          Int32,      \* the number that each has in its lower 32 bits
          Absent, Deleted, Unset, Garbage,  \* what a secret may hold in place of a number
          Plans,      \* the plans that may be put in spec.replicas
          MaxEdits,   \* bound: changes made by others (plans asked for, secrets edited)
          MaxFaults   \* bound: crashes, and calls that fail or whose answer is lost

ASSUME ManagerAssumption ==
    /\ Plans \subseteq SUBSET (Shards \X Replicas)
    /\ {} \in Plans
    /\ {Absent, Deleted, Unset, Garbage} \cap (Replicas \cup Wide) = {}
    /\ Int32 \in [Replicas \cup Wide -> Replicas]
    /\ \A r \in Replicas : Int32[r] = r
    /\ Absent # Deleted /\ {Absent, Deleted} \cap {Unset, Garbage} = {} /\ Unset # Garbage
    /\ MaxEdits \in Nat /\ MaxFaults \in Nat

(* A secret that has not been created, was deleted (its UID never returns), *)
(* has no "shard" key, or has one that is not a number.                     *)
Missing  == {Absent, Deleted}
Contents == Replicas \cup Wide \cup Missing \cup {Unset, Garbage}

Conditions == {"Unknown", "Ready", "FailedToListSecrets", "FailedToReadDesiredReplicaShard",
               "FailedToReadShardFromSecret", "FailedToUpdateSecret"}

VARIABLES
    secrets,      \* the API server's secrets
    secretsSeen,  \* the cache's copy of them
    lagging,      \* secrets whose cached copy is of an older resourceVersion
    missed,       \* observer: secrets of which an event was lost since the last listing
    spec,         \* spec.replicas of the manager object
    status,       \* its status: replicas, shards, condition
    specSeen,     \* the cache's copy of spec.replicas
    managerLag,   \* what of the manager object the cache has not seen: "none", "status", "spec"
    work,         \* the running Reconcile: its program counter and what it has read
    requested,    \* the work queue holds (or will after the rate limit hold) a request
    edits,        \* changes made by others so far
    faults        \* failures so far

server == <<secrets, spec, status>>
cache  == <<secretsSeen, lagging, specSeen, managerLag>>
vars   == <<secrets, secretsSeen, lagging, missed, spec, status, specSeen, managerLag, work,
          requested, edits, faults>>

Statuses == [replicas : Plans, shards : SUBSET Shards, condition : Conditions]

Idle == [pc |-> "idle", spec |-> {}, seen |-> {}, todo |-> {}, stale |-> {}, fresh |-> FALSE,
         outcome |-> "Unknown"]

Works == [pc : {"idle", "write", "report"},
          spec : Plans,               \* manager.Spec.Replicas as read
          seen : SUBSET Shards,       \* status.shards to report: the secrets listed
          todo : SUBSET Shards,       \* secretsToUpdate
          stale : SUBSET Shards,      \* secrets whose copy is no longer the server's
          fresh : BOOLEAN,            \* the manager object read is still the server's
          outcome : Conditions]

TypeOK == /\ secrets \in [Shards -> Contents]
          /\ secretsSeen \in [Shards -> Contents]
          /\ lagging \subseteq Shards /\ missed \subseteq Shards
          /\ spec \in Plans
          /\ status \in Statuses
          /\ specSeen \in Plans
          /\ managerLag \in {"none", "status", "spec"}
          /\ work \in Works
          /\ work.todo \subseteq {pair[1] : pair \in work.spec} \cap work.seen
          /\ requested \in BOOLEAN
          /\ edits \in 0..MaxEdits
          /\ faults \in 0..MaxFaults

Init == /\ secrets \in [Shards -> {Absent, Unset} \cup Replicas]
        /\ secretsSeen = secrets
        /\ lagging = {} /\ missed = {}
        /\ spec \in Plans
        /\ status = [replicas |-> {}, shards |-> {}, condition |-> "Unknown"]
        /\ specSeen = spec
        /\ managerLag = "none"
        /\ work = Idle
        /\ requested = TRUE
        /\ edits = 0
        /\ faults = 0

------------------------------------------------------------------------------
(* The contents of a plan and of a listing. *)

Planned(plan) == {pair[1] : pair \in plan}

(* No shard is given two replicas: the map replicasByUID can be built. *)
Functional(plan) == \A p, q \in plan : p[1] = q[1] => p = q

Listed(copies) == {s \in Shards : copies[s] \notin Missing}

Unreadable(copies) == \E s \in Shards : copies[s] = Garbage

(* Mutant: secrets that the plan does not name count as outdated too. *)
OutdatedOrUnplanned(plan, copies) ==
    {s \in Listed(copies) : <<s, copies[s]>> \notin plan}

(* What the code reads in a secret: Atoi, and then a conversion to 32 bits. *)
ReadsAs(content, r) == content \in DOMAIN Int32 /\ Int32[content] = r

(* The secrets of the listing that do not hold the replica the plan gives them. *)
Outdated(plan, copies) ==
    {s \in Listed(copies) : \E r \in Replicas : <<s, r>> \in plan /\ ~ReadsAs(copies[s], r)}

------------------------------------------------------------------------------
(* The failures of the environment, of which there are finitely many. *)
Fault == faults < MaxFaults /\ faults' = faults + 1

(* The cache: watch events arrive some time after the change they report. *)

ShowSecret(s) ==
    /\ s \in lagging
    /\ lagging' = lagging \ {s}
    /\ secretsSeen' = [secretsSeen EXCEPT ![s] = secrets[s]]
    /\ UNCHANGED <<server, specSeen, managerLag, work, edits>>

(* An event for a secret updates the cache, and mapClusterSecrets enqueues the manager. *)
DeliverSecret(s) ==
    /\ ShowSecret(s)
    /\ requested' = TRUE
    /\ UNCHANGED <<missed, faults>>

(* mapClusterSecrets cannot list the managers (of an update it tries with  *)
(* the old and with the new object): it logs the error, and nobody is      *)
(* enqueued. The cache has the secret, and will not report it again.       *)
LoseSecretEvent(s) ==
    /\ ShowSecret(s)
    /\ Fault
    /\ missed' = missed \cup {s}
    /\ UNCHANGED requested

(* An event for the manager's own object: GenerationChangedPredicate drops *)
(* the ones that change only its status.                                   *)
DeliverManager ==
    /\ managerLag # "none"
    /\ managerLag' = "none"
    /\ specSeen' = spec
    /\ requested' = (requested \/ managerLag = "spec")
    /\ UNCHANGED <<server, secretsSeen, lagging, missed, work, edits, faults>>

------------------------------------------------------------------------------
(* Reconcile. *)

(* The request is taken, the object and the secrets are read from the cache, *)
(* and what must be done follows from the two copies.                        *)
BeginReconcile ==
    /\ work.pc = "idle"
    /\ requested
    /\ requested' = FALSE
    /\ missed' = {}
    /\ LET read == [Idle EXCEPT !.spec = specSeen, !.seen = Listed(secretsSeen),
                                !.stale = lagging, !.fresh = (managerLag = "none")]
       IN work' = IF ~Functional(specSeen)
                  THEN [read EXCEPT !.pc = "report", !.outcome = "FailedToReadDesiredReplicaShard"]
                  ELSE IF Unreadable(secretsSeen)
                  THEN [read EXCEPT !.pc = "report", !.outcome = "FailedToReadShardFromSecret"]
                  ELSE [read EXCEPT !.pc = "write", !.outcome = "Ready",
                                    !.todo = Outdated(specSeen, secretsSeen)]
    /\ UNCHANGED <<server, cache, edits, faults>>

(* List returns an error. *)
BeginWithFailedList ==
    /\ work.pc = "idle"
    /\ requested
    /\ requested' = FALSE
    /\ Fault
    /\ work' = [Idle EXCEPT !.pc = "report", !.spec = specSeen, !.fresh = (managerLag = "none"),
                            !.outcome = "FailedToListSecrets"]
    /\ UNCHANGED <<server, cache, missed, edits>>

(* The API server takes the update of one secret, if the copy it was made *)
(* from is current, and puts the planned replica in it.                   *)
PutSecret(s) ==
    /\ s \notin work.stale
    /\ \E r \in Replicas : <<s, r>> \in work.spec /\ secrets' = [secrets EXCEPT ![s] = r]
    /\ lagging' = lagging \cup {s}

WriteSecret(s) ==
    /\ work.pc = "write" /\ s \in work.todo
    /\ PutSecret(s)
    /\ work' = [work EXCEPT !.todo = @ \ {s}, !.stale = @ \cup {s}]
    /\ UNCHANGED <<missed, spec, status, secretsSeen, specSeen, managerLag, requested, edits,
                   faults>>

(* Mutant: the error is logged and the next secret is taken. *)
WriteSecretSkips(s) ==
    /\ work.pc = "write" /\ s \in work.todo
    /\ work' = [work EXCEPT !.todo = @ \ {s}, !.stale = @ \cup {s}]
    /\ \/ s \in work.stale /\ UNCHANGED <<secrets, lagging, faults>>
       \/ Fault /\ UNCHANGED <<secrets, lagging>>
       \/ Fault /\ PutSecret(s)
    /\ UNCHANGED <<missed, spec, status, secretsSeen, specSeen, managerLag, requested, edits>>

(* Update returns an error, and the remaining secrets are left for the next *)
(* Reconcile: the copy was outdated (or the secret deleted), the call       *)
(* failed, or it took effect and its answer was lost.                       *)
WriteSecretFails(s) ==
    /\ work.pc = "write" /\ s \in work.todo
    /\ work' = [work EXCEPT !.pc = "report", !.outcome = "FailedToUpdateSecret",
                            !.stale = @ \cup {s}]
    /\ \/ s \in work.stale /\ UNCHANGED <<secrets, lagging, faults>>
       \/ Fault /\ UNCHANGED <<secrets, lagging>>
       \/ Fault /\ PutSecret(s)
    /\ UNCHANGED <<missed, spec, status, secretsSeen, specSeen, managerLag, requested, edits>>

(* Only the status is left to write. *)
Reporting == work.pc = "report" \/ (work.pc = "write" /\ work.todo = {})

(* Mutant: a failed update is left to the next event. *)
RetriedListing == {"FailedToListSecrets"}

(* Errors that Reconcile returns, so that the request is retried. *)
Retried == {"FailedToListSecrets", "FailedToUpdateSecret"}

(* The status this Reconcile writes: the plan and the shards only when all is done. *)
NewStatus == IF work.outcome = "Ready"
             THEN [replicas |-> work.spec, shards |-> work.seen, condition |-> "Ready"]
             ELSE [status EXCEPT !.condition = work.outcome]

(* Mutant: the status is patched, without a check of the version read. *)
PatchStatus ==
    /\ status' = NewStatus
    /\ managerLag' = IF NewStatus = status THEN managerLag ELSE "status"

(* The API server takes the status, unless the object read is outdated. An *)
(* update that changes nothing makes no new version and no event.          *)
PutStatus ==
    /\ work.fresh
    /\ status' = NewStatus
    /\ managerLag' = IF NewStatus = status THEN managerLag ELSE "status"

Report ==
    /\ Reporting
    /\ PutStatus
    /\ work' = Idle
    /\ requested' = (requested \/ work.outcome \in Retried)
    /\ UNCHANGED <<secrets, spec, secretsSeen, lagging, missed, specSeen, edits, faults>>

(* Mutant: the error of the status update is swallowed. *)
ReportFailsSilently ==
    /\ Reporting
    /\ \/ ~work.fresh /\ UNCHANGED <<status, managerLag, faults>>
       \/ Fault /\ UNCHANGED <<status, managerLag>>
       \/ Fault /\ PutStatus
    /\ work' = Idle
    /\ UNCHANGED <<secrets, spec, secretsSeen, lagging, missed, specSeen, requested, edits>>

(* Status().Update returns an error (the object read was outdated, or the *)
(* call failed, its effect possibly in place) and the request is retried. *)
ReportFails ==
    /\ Reporting
    /\ \/ ~work.fresh /\ UNCHANGED <<status, managerLag, faults>>
       \/ Fault /\ UNCHANGED <<status, managerLag>>
       \/ Fault /\ PutStatus
    /\ work' = Idle
    /\ requested' = TRUE
    /\ UNCHANGED <<secrets, spec, secretsSeen, lagging, missed, specSeen, edits>>

(* The process stops and another starts: its informers list everything and *)
(* enqueue every object.                                                   *)
Crash ==
    /\ Fault
    /\ work' = Idle
    /\ requested' = TRUE
    /\ secretsSeen' = secrets /\ lagging' = {} /\ missed' = {}
    /\ specSeen' = spec /\ managerLag' = "none"
    /\ UNCHANGED <<server, edits>>

------------------------------------------------------------------------------
(* The others: the scaler writes plans; Argo CD and its users, secrets. *)

SetSpec(plan) ==
    /\ edits < MaxEdits
    /\ plan # spec
    /\ spec' = plan
    /\ managerLag' = "spec"
    /\ work' = [work EXCEPT !.fresh = FALSE]
    /\ edits' = edits + 1
    /\ UNCHANGED <<secrets, status, secretsSeen, lagging, missed, specSeen, requested, faults>>

EditSecret(s, content) ==
    /\ edits < MaxEdits
    /\ content # secrets[s]
    /\ secrets[s] # Deleted
    /\ content # Absent
    /\ secrets[s] = Absent => content # Deleted
    /\ secrets' = [secrets EXCEPT ![s] = content]
    /\ lagging' = lagging \cup {s}
    /\ work' = IF work.pc = "idle" THEN work ELSE [work EXCEPT !.stale = @ \cup {s}]
    /\ edits' = edits + 1
    /\ UNCHANGED <<missed, spec, status, secretsSeen, specSeen, managerLag, requested, faults>>

------------------------------------------------------------------------------
Reconcile == \/ BeginReconcile
             \/ BeginWithFailedList
             \/ \E s \in Shards : WriteSecret(s) \/ WriteSecretFails(s)
             \/ Report
             \/ ReportFails

Next == \/ Reconcile
        \/ \E s \in Shards : DeliverSecret(s) \/ LoseSecretEvent(s)
        \/ DeliverManager
        \/ Crash
        \/ \E plan \in Plans : SetSpec(plan)
        \/ \E s \in Shards, content \in Contents : EditSecret(s, content)

Spec == Init /\ [][Next]_vars

(* The watches deliver, the work queue is served, and a Reconcile that has *)
(* begun goes on to its end; failures are finitely many, conflicts are not. *)
Fairness == /\ WF_vars(DeliverManager)
            /\ \A s \in Shards : WF_vars(DeliverSecret(s))
            /\ WF_vars(Reconcile)

FairSpec == Spec /\ Fairness

------------------------------------------------------------------------------
(* Between two Reconciles, with none asked for and no new plan to come. *)
AtRest == ~requested /\ work.pc = "idle" /\ managerLag # "spec"

(* The plan can be carried out, and the secrets hold it and can be read,   *)
(* some of them aside.                                                     *)
InOrder(aside) ==
    /\ Functional(spec)
    /\ \A s \in Shards \ aside : secrets[s] # Garbage /\ s \notin Outdated(spec, secrets)

(* What the manager's object says of the plan and the secrets is true, and *)
(* it says that all is done if nothing stands against it; some secrets     *)
(* aside, of which nothing is known.                                       *)
Truthful(aside) ==
    \/ /\ status.condition = "Ready" /\ status.replicas = spec
       /\ InOrder(aside)
       /\ \A s \in Shards \ aside : s \in status.shards <=> s \in Listed(secrets)
    \/ /\ status.condition # "Ready"
       /\ ~Functional(spec) \/ Unreadable(secrets) \/ aside # {}

(* The manager never falls asleep on an outdated secret or report: when no  *)
(* request is queued, every planned secret holds its replica and the status *)
(* says so, or the status says what is wrong, but for secrets whose events  *)
(* are on their way. The controller has no periodic requeue: this rests on  *)
(* every failing path of Reconcile returning an error and on the secret     *)
(* watch (lines 139-252, 286). The exception: an event that mapClusterSecrets *)
(* has lost (lines 297-300) is not repeated, and its secret may stay        *)
(* outdated; the other secrets do not suffer from it.                       *)
SettledIsTruthful == AtRest => Truthful(lagging \cup missed)

(* A report of readiness is never made up: in the step that writes it, each *)
(* planned secret holds the reported replica, unless somebody else changed  *)
(* that secret after this Reconcile read it, and then its event is coming,  *)
(* has come, or was lost.                                                   *)
ReportedMeansApplied ==
    [][status'.condition = "Ready" /\ status' # status =>
         \A s \in Outdated(status'.replicas, secrets) : s \in work.stale /\
            (s \in lagging' \cup missed' \/ requested')]_vars

(* The detailed manager implements the contract that its readers rely on. *)
Contract == INSTANCE ShardAssignment
              WITH WellFormed <- {p \in Plans : Functional(p)}, NoPlan <- {},
                   requestedPlan <- spec, reportedPlan <- status.replicas,
                   ready <- (status.condition = "Ready")

ImplementsContract == Contract!Spec

(* Once the others leave it alone, the manager reaches the truth and stays: *)
(* lost answers, conflicts, refused calls and crashes do not stop it. Only  *)
(* of a secret whose event was lost it may not learn.                       *)
EventuallyTruthful == <>[]Truthful(missed)
=============================================================================
