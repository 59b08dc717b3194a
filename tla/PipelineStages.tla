---------------------------- MODULE PipelineStages ----------------------------
(***************************************************************************)
(* The stages between the poll and the evaluation: the Robust Scaling      *)
(* Normalizer, the Weighted p-Norm Load Index and the Longest Processing   *)
(* Time partition controller.  Each reads the status of the object that it *)
(* refers to, computes a status of its own from it, and waits for events:  *)
(* none of them ever asks to be called again.                              *)
(*                                                                         *)
(* What is computed is abstract (LoadIndexing and LongestProcessingTime    *)
(* have the arithmetic); so is the rate limit, which only delays.          *)
(***************************************************************************)
EXTENDS Integers

CONSTANTS Sources, Stages,   \* polls, and the objects of the three kinds modelled
          Kind,              \* the kind of each
          Provider,          \* the object that each stage refers to
          Configs,           \* what may be in the specification of a stage
          Malformed,         \* weights that name a metric twice
          Data, Nothing,     \* values of any kind; none
          Polls,             \* those that a poll may have
          Calculate,         \* what a stage makes of its configuration and its input
          Failure,           \* or that it returns an error
          MaxEdits,          \* bound: polls published and configurations changed
          MaxFaults          \* bound: crashes, and calls that fail or whose answer is lost

Objects == Sources \cup Stages

(* The kinds that implement an interface are those registered for its      *)
(* watch; of the partition providers, the evaluation is not a stage here.  *)
MetricValuesProviders == {"PrometheusPoll", "RobustScalingNormalizer"}
LoadIndexProviders    == {"WeightedPNormLoadIndex"}
PartitionProviders    == {"LongestProcessingTimePartition"}

ASSUME PipelineAssumption ==
    /\ Sources \cap Stages = {}
    /\ Kind \in [Objects -> MetricValuesProviders \cup LoadIndexProviders \cup PartitionProviders]
    /\ Provider \in [Stages -> Objects]
    /\ \A s \in Stages : Provider[s] # s
    /\ Nothing \in Data /\ Polls \subseteq Data /\ Failure \notin Data
    /\ Calculate \in [Stages \X Configs \X Data -> Data \cup {Failure}]
    /\ MaxEdits \in Nat /\ MaxFaults \in Nat

Conditions == {"Missing", "Unknown", "Ready", "WeightsMalformed", "ErrorFindingProvider",
               "ProviderNotReady", "CalculationError"}

VARIABLES
    status,     \* the status of each object: its condition and its values
    config,     \* the specification of each stage
    seen, seenConfig,   \* the cache's copies of the two
    statusLag, specLag, \* the objects of which the cache has an older status, specification
    work,       \* the running Reconcile of each stage
    requested,  \* the stages for which the work queues hold a request
    missed,     \* observer: those for which, since their last look, an event asked for none
    edits, faults

server == <<status, config>>
cache  == <<seen, seenConfig, statusLag, specLag>>
vars   == <<status, config, seen, seenConfig, statusLag, specLag, work, requested, missed,
            edits, faults>>

Statuses == [condition : Conditions, values : Data]
Idle     == [pc |-> "idle", outcome |-> "Unknown", values |-> Nothing, fresh |-> FALSE]
Works    == [pc : {"idle", "report"}, outcome : Conditions, values : Data,
             fresh : BOOLEAN]  \* the object read is still the server's

TypeOK == /\ status \in [Objects -> Statuses] /\ seen \in [Objects -> Statuses]
          /\ config \in [Stages -> Configs] /\ seenConfig \in [Stages -> Configs]
          /\ statusLag \subseteq Objects /\ specLag \subseteq Stages
          /\ work \in [Stages -> Works]
          /\ requested \subseteq Stages /\ missed \subseteq Stages
          /\ edits \in 0..MaxEdits /\ faults \in 0..MaxFaults

Init == /\ status \in [Objects -> {[condition |-> "Unknown", values |-> Nothing]}]
        /\ config \in [Stages -> Configs]
        /\ \A s \in Stages : config[s] = Malformed => Kind[s] = "WeightedPNormLoadIndex"
        /\ seen = status /\ seenConfig = config
        /\ statusLag = {} /\ specLag = {}
        /\ work = [s \in Stages |-> Idle]
        /\ requested = Stages /\ missed = {}
        /\ edits = 0 /\ faults = 0

------------------------------------------------------------------------------
(* What a stage makes of its configuration and the status of its provider. *)

(* The kinds that a stage watches, and whose status it can read. *)
Watches(s) == CASE Kind[s] = "RobustScalingNormalizer"        -> MetricValuesProviders
                [] Kind[s] = "WeightedPNormLoadIndex"         -> MetricValuesProviders
                [] Kind[s] = "LongestProcessingTimePartition" -> LoadIndexProviders
                [] OTHER                                      -> {}

(* An object is found by its reference, and is of a kind with the interface. *)
Found(s, provider) == Kind[Provider[s]] \in Watches(s) /\ provider.condition # "Missing"

Stop(outcome) == [outcome |-> outcome, values |-> Nothing]

(* Mutant: the error of the calculation is not looked at. *)
ErrorIgnored(s, configuration, provider) ==
    IF ~Found(s, provider) THEN Stop("ErrorFindingProvider")
    ELSE IF provider.condition # "Ready" THEN Stop("ProviderNotReady")
    ELSE [outcome |-> "Ready", values |-> Calculate[s, configuration, provider.values]]

(* Where a stage stops, or the values it comes to. *)
NormalizerVerdict(s, configuration, provider) ==
    IF ~Found(s, provider) THEN Stop("ErrorFindingProvider")
    ELSE IF provider.condition # "Ready" THEN Stop("ProviderNotReady")
    ELSE IF Calculate[s, configuration, provider.values] = Failure
    THEN Stop("CalculationError")
    ELSE [outcome |-> "Ready", values |-> Calculate[s, configuration, provider.values]]

(* The weights are read before the provider is looked up. *)
LoadIndexVerdict(s, configuration, provider) ==
    IF configuration = Malformed THEN Stop("WeightsMalformed")
    ELSE NormalizerVerdict(s, configuration, provider)

(* All stages but the load index go the same way as the normalizer. *)
Verdict(s, configuration, provider) ==
    IF Kind[s] = "WeightedPNormLoadIndex" THEN LoadIndexVerdict(s, configuration, provider)
    ELSE NormalizerVerdict(s, configuration, provider)

------------------------------------------------------------------------------
(* The cache and the watches. *)

(* Mutant: the watch of the providers drops events of the status, too. *)
SubscribersOfSpec(o) == {s \in Stages : Provider[s] = o /\ o \in specLag}

(* The stages that refer to an object and watch its kind. *)
Subscribers(o) == {s \in Stages : Provider[s] = o /\ Kind[o] \in Watches(s)}

Fault == faults < MaxFaults /\ faults' = faults + 1

(* An event of an object enqueues those of its subscribers that it is      *)
(* mapped to, and the object itself when its specification has changed     *)
(* (GenerationChangedPredicate).                                           *)
Arrive(o, mapped) ==
    /\ o \in statusLag \cup specLag
    /\ statusLag' = statusLag \ {o} /\ specLag' = specLag \ {o}
    /\ seen' = [seen EXCEPT ![o] = status[o]]
    /\ seenConfig' = IF o \in Stages THEN [seenConfig EXCEPT ![o] = config[o]] ELSE seenConfig
    /\ requested' = requested \cup mapped \cup ({o} \cap specLag)
    /\ UNCHANGED <<server, work, edits>>

Deliver(o) == Arrive(o, Subscribers(o)) /\ UNCHANGED <<missed, faults>>

(* Every controller has a map function of its own. One that cannot list    *)
(* its objects says so in the log, and none of them hears of the event.    *)
DeliverUnmapped(o, deaf) ==
    LET unheard == {s \in Subscribers(o) : Kind[s] = deaf}
    IN /\ unheard # {} /\ Fault
       /\ Arrive(o, Subscribers(o) \ unheard)
       /\ missed' = missed \cup unheard

------------------------------------------------------------------------------
(* Reconcile of a stage. *)

Take(s) == /\ work[s].pc = "idle"
           /\ s \in requested /\ requested' = requested \ {s}
           /\ missed' = missed \ {s}
           /\ UNCHANGED <<server, cache, edits>>

(* The outcome is written to the object that was read, if it is current. *)
ReportNext(s, verdict) ==
    work' = [work EXCEPT ![s] = [pc |-> "report", outcome |-> verdict.outcome,
                                 values |-> verdict.values,
                                 fresh |-> s \notin statusLag \cup specLag]]

Begin(s) ==
    /\ Take(s)
    /\ ReportNext(s, Verdict(s, seenConfig[s], seen[Provider[s]]))
    /\ UNCHANGED faults

(* The lookup fails for another reason than that the object is missing. *)
BeginWithFailedLookup(s) ==
    /\ Take(s)
    /\ Kind[s] = "WeightedPNormLoadIndex" => seenConfig[s] # Malformed
    /\ Fault
    /\ ReportNext(s, Stop("ErrorFindingProvider"))

(* The values of the last success stay beside a later failure. *)
NewStatus(s) == IF work[s].outcome = "Ready"
                THEN [condition |-> "Ready", values |-> work[s].values]
                ELSE [status[s] EXCEPT !.condition = work[s].outcome]

(* Taken when the object read is the server's version.  An update that     *)
(* changes nothing makes no new version and no event; but equal values may *)
(* come in another order, that of a Go map.                                *)
PutStatus(s) ==
    /\ work[s].fresh
    /\ status' = [status EXCEPT ![s] = NewStatus(s)]
    /\ \/ statusLag' = statusLag \cup {s}
       \/ NewStatus(s) = status[s] /\ UNCHANGED statusLag

Report(s) ==
    /\ work[s].pc = "report"
    /\ PutStatus(s)
    /\ work' = [work EXCEPT ![s] = Idle]
    /\ UNCHANGED <<config, seen, seenConfig, specLag, requested, missed, edits, faults>>

(* Mutant: the error of the status update is swallowed. *)
ReportFailsSilently(s) ==
    /\ work[s].pc = "report"
    /\ \/ ~work[s].fresh /\ UNCHANGED <<status, statusLag, faults>>
       \/ Fault /\ UNCHANGED <<status, statusLag>>
       \/ Fault /\ PutStatus(s)
    /\ work' = [work EXCEPT ![s] = Idle]
    /\ UNCHANGED <<config, seen, seenConfig, specLag, requested, missed, edits>>

(* The update is refused as outdated, or the call fails, its effect        *)
(* possibly in place: the only error that Reconcile returns.               *)
ReportFails(s) ==
    /\ work[s].pc = "report"
    /\ \/ ~work[s].fresh /\ UNCHANGED <<status, statusLag, faults>>
       \/ Fault /\ UNCHANGED <<status, statusLag>>
       \/ Fault /\ PutStatus(s)
    /\ work' = [work EXCEPT ![s] = Idle]
    /\ requested' = requested \cup {s}
    /\ UNCHANGED <<config, seen, seenConfig, specLag, missed, edits>>

(* The process stops; the next one lists and enqueues everything. *)
Crash == /\ Fault
         /\ work' = [s \in Stages |-> Idle]
         /\ requested' = Stages /\ missed' = {}
         /\ seen' = status /\ seenConfig' = config
         /\ statusLag' = {} /\ specLag' = {}
         /\ UNCHANGED <<server, edits>>

------------------------------------------------------------------------------
(* The others. *)

(* A poll has new values, stops being ready, is deleted or created.       *)
Published(o) == {[condition |-> "Ready", values |-> values] : values \in Polls}
                \cup {[status[o] EXCEPT !.condition = "Unknown"],
                      [condition |-> "Missing", values |-> Nothing]}

Publish(o, new) ==
    /\ edits < MaxEdits /\ edits' = edits + 1
    /\ new # status[o]
    /\ status' = [status EXCEPT ![o] = new]
    /\ statusLag' = statusLag \cup {o}
    /\ UNCHANGED <<config, seen, seenConfig, specLag, work, requested, missed, faults>>

Configure(s, new) ==
    /\ edits < MaxEdits /\ edits' = edits + 1
    /\ new = Malformed => Kind[s] = "WeightedPNormLoadIndex"
    /\ new # config[s]
    /\ config' = [config EXCEPT ![s] = new]
    /\ specLag' = specLag \cup {s}
    /\ work' = [work EXCEPT ![s].fresh = FALSE]
    /\ UNCHANGED <<status, seen, seenConfig, statusLag, requested, missed, faults>>

------------------------------------------------------------------------------
Reconcile(s) == Begin(s) \/ BeginWithFailedLookup(s) \/ Report(s) \/ ReportFails(s)

Next == \/ \E s \in Stages : Reconcile(s)
        \/ \E o \in Objects : Deliver(o)
        \/ \E o \in Objects : \E deaf \in {Kind[s] : s \in Stages} : DeliverUnmapped(o, deaf)
        \/ Crash
        \/ \E o \in Sources : \E new \in Published(o) : Publish(o, new)
        \/ \E s \in Stages, new \in Configs : Configure(s, new)

Spec == Init /\ [][Next]_vars

(* Each controller's work queue is served, and the watches deliver. *)
Fairness == /\ \A s \in Stages : WF_vars(Reconcile(s))
            /\ \A o \in Objects : WF_vars(Deliver(o))

FairSpec == Spec /\ Fairness

------------------------------------------------------------------------------
(* Nothing is left that would make a stage run again. *)
Quiet(s) == /\ s \notin requested /\ work[s].pc = "idle"
            /\ Provider[s] \notin statusLag /\ s \notin specLag

(* The status of a stage is what it makes of what is there. *)
Derived(s) ==
    LET verdict == Verdict(s, config[s], status[Provider[s]])
    IN /\ status[s].condition = verdict.outcome
       /\ verdict.outcome = "Ready" => status[s].values = verdict.values

(* No stage falls asleep on values that are not those of its provider: it  *)
(* returns no error but that of the status update and never asks to be     *)
(* called again, so this rests on every event of a provider being mapped   *)
(* to the stages that refer to it, and on conflicts being retried. Two     *)
(* exceptions: a lookup that failed for a moment is reported as if the     *)
(* provider did not exist, and nothing tries it again; and an event whose  *)
(* map function could not list the stages (robust scaling 261-264, the     *)
(* others 281-284) is lost.                                                *)
Excepted(s) == status[s].condition = "ErrorFindingProvider" \/ s \in missed

SettledIsDerived == \A s \in Stages : Quiet(s) => Derived(s) \/ Excepted(s)

(* A stage is ready only with what the whole chain before it makes of the  *)
(* last values polled, once nothing moves any more; and every stage gets   *)
(* there unless it cannot find its provider or has not heard of its last   *)
(* change, in which case those after it still agree with what it says.     *)
EventuallyDerived == <>[](\A s \in Stages : Derived(s) \/ Excepted(s))
=============================================================================
