------------------------- MODULE PipelineStagesProofs -------------------------
(***************************************************************************)
(* What TLAPS proves of the stages between the poll and the evaluation,    *)
(* for every graph of references (not only chains), everything that may be *)
(* computed, and every number of changes and failures.                     *)
(***************************************************************************)
EXTENDS PipelineStages, TLAPS

------------------------------------------------------------------------------
(* Types. *)

(* A verdict is a condition and values, the latter of the right kind. *)
LEMMA VerdictType ==
  ASSUME NEW s \in Stages, NEW configuration \in Configs, NEW provider \in Statuses
  PROVE  /\ Verdict(s, configuration, provider).outcome \in Conditions
         /\ Verdict(s, configuration, provider).values \in Data
<1>1. Stop("ErrorFindingProvider").outcome = "ErrorFindingProvider"
  BY DEF Stop
<1>2. /\ NormalizerVerdict(s, configuration, provider).outcome \in Conditions
      /\ NormalizerVerdict(s, configuration, provider).values \in Data
  <2>1. Calculate[s, configuration, provider.values] \in Data \cup {Failure}
    BY PipelineAssumption DEF Statuses
  <2> QED  BY <2>1, PipelineAssumption DEF NormalizerVerdict, Stop, Conditions
<1> QED  BY <1>2, PipelineAssumption DEF Verdict, LoadIndexVerdict, Stop, Conditions

LEMMA IdleType == Idle \in Works /\ Idle.pc = "idle"
  BY PipelineAssumption DEF Idle, Works, Conditions

(* What a Reconcile leaves in its record. *)
LEMMA ReportType ==
  ASSUME TypeOK, NEW s \in Stages, NEW verdict,
         verdict.outcome \in Conditions, verdict.values \in Data,
         ReportNext(s, verdict)
  PROVE  /\ work' \in [Stages -> Works]
         /\ work'[s].pc = "report"
         /\ work'[s].outcome = verdict.outcome /\ work'[s].values = verdict.values
         /\ \A t \in Stages \ {s} : work'[t] = work[t]
<1> DEFINE new == [pc |-> "report", outcome |-> verdict.outcome, values |-> verdict.values,
                   fresh |-> s \notin statusLag \cup specLag]
<1>1. new \in Works
  BY DEF Works
<1>2. work' = [work EXCEPT ![s] = new]
  BY DEF ReportNext
<1>3. work'[s] = new /\ work' \in [Stages -> Works]
  BY <1>1, <1>2 DEF TypeOK
<1>4. \A t \in Stages \ {s} : work'[t] = work[t]
  BY <1>2 DEF TypeOK
<1> HIDE DEF new
<1>5. new.pc = "report" /\ new.outcome = verdict.outcome /\ new.values = verdict.values
  BY DEF new
<1> QED  BY <1>3, <1>4, <1>5

(* A status that is written is one, and says what the Reconcile came to. *)
LEMMA StatusType ==
  ASSUME TypeOK, NEW s \in Stages
  PROVE  /\ NewStatus(s) \in Statuses
         /\ NewStatus(s).condition = work[s].outcome
         /\ work[s].outcome = "Ready" => NewStatus(s).values = work[s].values
<1>1. status[s] \in Statuses /\ work[s] \in Works
  BY DEF TypeOK, Objects
<1> QED  BY <1>1 DEF NewStatus, Statuses, Works

(* What an update of the status of a stage changes. *)
LEMMA PutType ==
  ASSUME TypeOK, NEW s \in Stages, PutStatus(s)
  PROVE  /\ status' \in [Objects -> Statuses] /\ statusLag' \subseteq Objects
         /\ status'[s] = NewStatus(s)
         /\ \A o \in Objects \ {s} : status'[o] = status[o]
         /\ statusLag \subseteq statusLag'
         /\ status'[s] = status[s] \/ s \in statusLag'
<1>1. s \in Objects
  BY DEF Objects
<1>2. status' = [status EXCEPT ![s] = NewStatus(s)]
  BY DEF PutStatus
<1>3. status' \in [Objects -> Statuses] /\ status'[s] = NewStatus(s)
  BY <1>1, <1>2, StatusType DEF TypeOK
<1>4. \A o \in Objects \ {s} : status'[o] = status[o]
  BY <1>2 DEF TypeOK
<1>5. /\ statusLag' \subseteq Objects /\ statusLag \subseteq statusLag'
      /\ status'[s] = status[s] \/ s \in statusLag'
  BY <1>1, <1>3 DEF PutStatus, TypeOK
<1> QED  BY <1>3, <1>4, <1>5

LEMMA InitType == Init => TypeOK
<1> SUFFICES ASSUME Init PROVE TypeOK
  OBVIOUS
<1> USE PipelineAssumption
<1>1. status \in [Objects -> Statuses]
  BY DEF Init, Statuses, Conditions
<1>2. work \in [Stages -> Works]
  BY IdleType DEF Init
<1> QED  BY <1>1, <1>2 DEF Init, TypeOK

LEMMA PublishedType ==
  ASSUME TypeOK, NEW o \in Sources
  PROVE  Published(o) \subseteq Statuses
<1>1. status[o] \in Statuses
  BY DEF TypeOK, Objects
<1> QED  BY <1>1, PipelineAssumption DEF Published, Statuses, Conditions

(* An event arrives, and every subscriber is asked for or has missed it. *)
Delivery(o) == Deliver(o) \/ \E deaf : DeliverUnmapped(o, deaf)

LEMMA DeliveryMeans ==
  ASSUME NEW o \in Objects, Delivery(o)
  PROVE  \E mapped : /\ Arrive(o, mapped) /\ mapped \subseteq Stages
                     /\ Subscribers(o) \subseteq mapped \cup missed'
                     /\ missed \subseteq missed'
<1>1. CASE Deliver(o)
  BY <1>1 DEF Deliver, Subscribers
<1>2. ASSUME NEW deaf, DeliverUnmapped(o, deaf)
      PROVE  \E mapped : /\ Arrive(o, mapped) /\ mapped \subseteq Stages
                         /\ Subscribers(o) \subseteq mapped \cup missed'
                         /\ missed \subseteq missed'
  <2> DEFINE unheard == {s \in Subscribers(o) : Kind[s] = deaf}
  <2>1. Arrive(o, Subscribers(o) \ unheard) /\ missed' = missed \cup unheard
    BY <1>2 DEF DeliverUnmapped
  <2>2. Subscribers(o) \subseteq Stages
    BY DEF Subscribers
  <2> HIDE DEF unheard
  <2> QED  BY <2>1, <2>2
<1> QED  BY <1>1, <1>2 DEF Delivery

(* What is true of the type of everything stays so, one case per action. *)
LEMMA TypePreserved == TypeOK /\ [Next]_vars => TypeOK'
<1> SUFFICES ASSUME TypeOK, [Next]_vars PROVE TypeOK'
  OBVIOUS
<1> USE PipelineAssumption
<1>1. ASSUME NEW s \in Stages, Begin(s) PROVE TypeOK'
  <2>1. seenConfig[s] \in Configs /\ seen[Provider[s]] \in Statuses
    BY DEF TypeOK
  <2>2. work' \in [Stages -> Works]
    BY <1>1, <2>1, VerdictType, ReportType DEF Begin
  <2> QED  BY <1>1, <2>2 DEF Begin, Take, TypeOK, server, cache
<1>2. ASSUME NEW s \in Stages, BeginWithFailedLookup(s) PROVE TypeOK'
  <2>1. /\ Stop("ErrorFindingProvider").outcome \in Conditions
        /\ Stop("ErrorFindingProvider").values \in Data
    BY DEF Stop, Conditions
  <2>2. work' \in [Stages -> Works]
    BY <1>2, <2>1, ReportType DEF BeginWithFailedLookup
  <2> QED  BY <1>2, <2>2 DEF BeginWithFailedLookup, Take, Fault, TypeOK, server, cache
<1>3. ASSUME NEW s \in Stages, Report(s) \/ ReportFails(s) PROVE TypeOK'
  <2>1. status' \in [Objects -> Statuses] /\ statusLag' \subseteq Objects
    BY <1>3, PutType DEF Report, ReportFails, TypeOK
  <2>2. work' \in [Stages -> Works]
    BY <1>3, IdleType DEF Report, ReportFails, TypeOK
  <2>3. faults' \in 0..MaxFaults /\ requested' \subseteq Stages
    BY <1>3 DEF Report, ReportFails, Fault, TypeOK
  <2> QED  BY <1>3, <2>1, <2>2, <2>3 DEF Report, ReportFails, TypeOK
<1>4. ASSUME NEW o \in Objects, Delivery(o) PROVE TypeOK'
  <2>1. PICK mapped : Arrive(o, mapped) /\ mapped \subseteq Stages
    BY <1>4, DeliveryMeans
  <2>2. seen' \in [Objects -> Statuses] /\ seenConfig' \in [Stages -> Configs]
    BY <2>1 DEF Arrive, TypeOK
  <2>3. requested' \subseteq Stages
    BY <2>1 DEF Arrive, TypeOK
  <2>4. missed' \subseteq Stages /\ faults' \in 0..MaxFaults
    <3>1. CASE Deliver(o)
      BY <3>1 DEF Deliver, TypeOK
    <3>2. ASSUME NEW deaf, DeliverUnmapped(o, deaf)
          PROVE  missed' \subseteq Stages /\ faults' \in 0..MaxFaults
      BY <3>2 DEF DeliverUnmapped, Subscribers, Fault, TypeOK
    <3> QED  BY <1>4, <3>1, <3>2 DEF Delivery
  <2> QED  BY <2>1, <2>2, <2>3, <2>4 DEF Arrive, TypeOK, server
<1>5. CASE Crash
  <2>1. work' \in [Stages -> Works]
    BY <1>5, IdleType DEF Crash
  <2> QED  BY <1>5, <2>1 DEF Crash, Fault, TypeOK, server
<1>6. ASSUME NEW o \in Sources, NEW new \in Published(o), Publish(o, new) PROVE TypeOK'
  <2>1. status' \in [Objects -> Statuses] /\ statusLag' \subseteq Objects
    BY <1>6, PublishedType DEF Publish, TypeOK, Objects
  <2> QED  BY <1>6, <2>1 DEF Publish, TypeOK
<1>7. ASSUME NEW s \in Stages, NEW new \in Configs, Configure(s, new) PROVE TypeOK'
  <2>1. work' \in [Stages -> Works]
    <3>1. work[s] \in Works
      BY DEF TypeOK
    <3>2. [work[s] EXCEPT !.fresh = FALSE] \in Works
      BY <3>1 DEF Works
    <3> QED  BY <1>7, <3>2 DEF Configure, TypeOK
  <2> QED  BY <1>7, <2>1 DEF Configure, TypeOK
<1>8. CASE UNCHANGED vars
  BY <1>8 DEF vars, TypeOK
<1> QED
  BY <1>1, <1>2, <1>3, <1>4, <1>5, <1>6, <1>7, <1>8 DEF Next, Reconcile, Delivery

(* Every state is of the right type; above all, no values are ever taken   *)
(* from a calculation that failed.                                         *)
THEOREM TypeCorrect == Spec => []TypeOK
  BY InitType, TypePreserved, PTL DEF Spec

------------------------------------------------------------------------------
(* What a stage would make of what there is now. *)
Now(s) == Verdict(s, config[s], status[Provider[s]])

(* It will run again: it is queued, or an event is on its way that will    *)
(* have it queued. Or one was lost on its way.                             *)
Due(s) == \/ s \in requested \/ s \in missed
          \/ s \in specLag
          \/ Provider[s] \in statusLag /\ Kind[Provider[s]] \in Watches(s)

CacheInv == /\ \A o \in Objects \ statusLag : seen[o] = status[o]
            /\ \A s \in Stages \ specLag : seenConfig[s] = config[s]

(* What a Reconcile is about to write is what is to be written now, or it  *)
(* could not find its provider, or it will run again.                      *)
WorkInv(s) ==
    work[s].pc = "report" =>
        \/ Due(s)
        \/ work[s].outcome = "ErrorFindingProvider"
        \/ /\ work[s].outcome = Now(s).outcome
           /\ Now(s).outcome = "Ready" => work[s].values = Now(s).values

(* The same of what it has written. *)
RestInv(s) ==
    work[s].pc = "idle" =>
        \/ Due(s)
        \/ status[s].condition = "ErrorFindingProvider"
        \/ /\ status[s].condition = Now(s).outcome
           /\ Now(s).outcome = "Ready" => status[s].values = Now(s).values

StageInv(s) == WorkInv(s) /\ RestInv(s)

IInv == TypeOK /\ CacheInv /\ \A s \in Stages : StageInv(s)

(* A stage that does not watch the kind of the object that it refers to    *)
(* does not find it either, whatever the status of the object.             *)
LEMMA VerdictBlind ==
  ASSUME NEW s \in Stages, NEW configuration, NEW provider, NEW other,
         Kind[Provider[s]] \notin Watches(s)
  PROVE  Verdict(s, configuration, provider) = Verdict(s, configuration, other)
  BY DEF Verdict, LoadIndexVerdict, NormalizerVerdict, Found

(* What is to be made of an object changes only with an event to come. *)
LEMMA NowKept ==
  ASSUME NEW s \in Stages, config'[s] = config[s],
         status'[Provider[s]] = status[Provider[s]] \/ Provider[s] \in statusLag'
  PROVE  Now(s)' = Now(s) \/ Due(s)'
<1>1. CASE status'[Provider[s]] = status[Provider[s]]
  BY <1>1 DEF Now
<1>2. CASE Provider[s] \in statusLag' /\ Kind[Provider[s]] \in Watches(s)
  BY <1>2 DEF Due
<1>3. CASE Kind[Provider[s]] \notin Watches(s)
  BY <1>3, VerdictBlind DEF Now
<1> QED  BY <1>1, <1>2, <1>3

(* A step that leaves a stage alone, and forgets no event for it. *)
LEMMA StageKept ==
  ASSUME NEW s \in Stages, StageInv(s), Due(s) => Due(s)',
         work'[s] = work[s], status'[s] = status[s], config'[s] = config[s],
         status'[Provider[s]] = status[Provider[s]] \/ Provider[s] \in statusLag'
  PROVE  StageInv(s)'
<1>1. CASE Due(s)'
  BY <1>1 DEF StageInv, WorkInv, RestInv
<1>2. CASE Now(s)' = Now(s) /\ ~Due(s)'
  BY <1>2 DEF StageInv, WorkInv, RestInv
<1> QED  BY <1>1, <1>2, NowKept

LEMMA InitInv == Init => IInv
<1> SUFFICES ASSUME Init PROVE IInv
  OBVIOUS
<1>1. CacheInv
  BY DEF Init, CacheInv
<1>2. ASSUME NEW s \in Stages PROVE StageInv(s)
  <2>1. Due(s) /\ work[s].pc = "idle"
    BY IdleType DEF Init, Due
  <2> QED  BY <2>1 DEF StageInv, WorkInv, RestInv
<1> QED  BY <1>1, <1>2, InitType DEF IInv

LEMMA CachePreserved == TypeOK /\ CacheInv /\ [Next]_vars => CacheInv'
<1> SUFFICES ASSUME TypeOK, CacheInv, [Next]_vars PROVE CacheInv'
  OBVIOUS
<1>1. ASSUME NEW s \in Stages, Begin(s) \/ BeginWithFailedLookup(s) PROVE CacheInv'
  BY <1>1 DEF Begin, BeginWithFailedLookup, Take, server, cache, CacheInv
<1>2. ASSUME NEW s \in Stages, Report(s) \/ ReportFails(s) PROVE CacheInv'
  <2>1. \A o \in Objects \ statusLag' : status'[o] = status[o] /\ o \notin statusLag
    BY <1>2, PutType DEF Report, ReportFails
  <2> QED  BY <1>2, <2>1 DEF Report, ReportFails, CacheInv
<1>3. ASSUME NEW o \in Objects, Delivery(o) PROVE CacheInv'
  <2>1. PICK mapped : Arrive(o, mapped)
    BY <1>3, DeliveryMeans
  <2>2. \A p \in Objects \ statusLag' : seen'[p] = status[p]
    BY <2>1 DEF Arrive, CacheInv, TypeOK
  <2>3. \A s \in Stages \ specLag' : seenConfig'[s] = config[s]
    BY <2>1 DEF Arrive, CacheInv, TypeOK
  <2> QED  BY <2>1, <2>2, <2>3 DEF Arrive, CacheInv, server
<1>4. CASE Crash
  BY <1>4 DEF Crash, CacheInv, server
<1>5. ASSUME NEW o \in Sources, NEW new \in Published(o), Publish(o, new) PROVE CacheInv'
  BY <1>5 DEF Publish, CacheInv, TypeOK
<1>6. ASSUME NEW s \in Stages, NEW new \in Configs, Configure(s, new) PROVE CacheInv'
  BY <1>6 DEF Configure, CacheInv, TypeOK
<1>7. CASE UNCHANGED vars
  BY <1>7 DEF vars, CacheInv
<1> QED
  BY <1>1, <1>2, <1>3, <1>4, <1>5, <1>6, <1>7 DEF Next, Reconcile, Delivery

(* The Reconcile of a stage takes a request: of the other stages it        *)
(* changes nothing, and what it computes itself is of now, unless an event *)
(* is on its way.                                                          *)
LEMMA OthersAfterTake ==
  ASSUME IInv, NEW s \in Stages, Take(s), NEW verdict,
         verdict.outcome \in Conditions, verdict.values \in Data,
         ReportNext(s, verdict), NEW t \in Stages \ {s}
  PROVE  StageInv(t)'
<1>1. work'[t] = work[t]
  BY ReportType DEF IInv
<1>2. Due(t) => Due(t)'
  BY DEF Take, Due, server, cache
<1> QED  BY <1>1, <1>2, StageKept DEF IInv, Take, server, cache

LEMMA BegunIsNow ==
  ASSUME IInv, NEW s \in Stages, Begin(s)
  PROVE  StageInv(s)'
<1> DEFINE verdict == Verdict(s, seenConfig[s], seen[Provider[s]])
<1>1. seenConfig[s] \in Configs /\ seen[Provider[s]] \in Statuses /\ Provider[s] \in Objects
  BY PipelineAssumption DEF IInv, TypeOK
<1>2. verdict.outcome \in Conditions /\ verdict.values \in Data
  BY <1>1, VerdictType
<1>3. /\ work'[s].pc = "report"
      /\ work'[s].outcome = verdict.outcome /\ work'[s].values = verdict.values
  BY <1>2, ReportType DEF Begin, IInv
<1>4. CASE ~Due(s)'
  <2>1. s \notin specLag /\ seenConfig[s] = config[s]
    BY <1>4 DEF Due, Begin, Take, cache, IInv, CacheInv
  <2>2. ASSUME Provider[s] \notin statusLag PROVE verdict = Now(s)
    BY <1>1, <2>1, <2>2 DEF Now, IInv, CacheInv
  <2>3. ASSUME Kind[Provider[s]] \notin Watches(s) PROVE verdict = Now(s)
    BY <2>1, <2>3, VerdictBlind DEF Now
  <2>4. verdict = Now(s)
    BY <1>4, <2>2, <2>3, <2>1 DEF Due, Begin, Take, cache, Now
  <2>5. Now(s)' = Now(s)
    BY DEF Begin, Take, server, Now
  <2> HIDE DEF verdict
  <2> QED  BY <1>3, <2>4, <2>5 DEF StageInv, WorkInv, RestInv
<1>5. CASE Due(s)'
  BY <1>5 DEF StageInv, WorkInv, RestInv
<1> QED  BY <1>4, <1>5

(* A status update, whether or not its answer arrives, forgets no event    *)
(* for any other stage.                                                    *)
LEMMA OthersAfterReport ==
  ASSUME IInv, NEW s \in Stages, NEW t \in Stages \ {s}, Report(s) \/ ReportFails(s)
  PROVE  StageInv(t)'
<1>1. TypeOK /\ StageInv(t) /\ t \in Objects /\ s \in Objects /\ Provider[t] \in Objects
  BY PipelineAssumption DEF IInv, Objects
<1>2. work'[t] = work[t] /\ UNCHANGED <<config, specLag, missed>> /\ requested \subseteq requested'
  BY <1>1 DEF Report, ReportFails, TypeOK
<1>3. PutStatus(s) \/ UNCHANGED <<status, statusLag>>
  BY DEF Report, ReportFails
<1>4. /\ statusLag \subseteq statusLag' /\ status'[t] = status[t]
      /\ status'[Provider[t]] = status[Provider[t]] \/ Provider[t] \in statusLag'
  BY <1>1, <1>3, PutType
<1>5. Due(t) => Due(t)'
  BY <1>2, <1>4 DEF Due
<1> QED  BY <1>1, <1>2, <1>4, <1>5, StageKept

(* What a stage wrote is what it was about to write.                       *)
LEMMA ReportedIsNow ==
  ASSUME IInv, NEW s \in Stages, Report(s)
  PROVE  StageInv(s)'
<1>1. TypeOK /\ WorkInv(s) /\ work[s].pc = "report"
  BY DEF IInv, StageInv, Report
<1>2. /\ PutStatus(s) /\ UNCHANGED <<config, specLag, requested, missed>>
      /\ work'[s].pc = "idle"
  BY <1>1, IdleType DEF Report, TypeOK
<1>3. /\ status'[s].condition = work[s].outcome
      /\ work[s].outcome = "Ready" => status'[s].values = work[s].values
  BY <1>1, <1>2, PutType, StatusType
<1>4. Due(s) => Due(s)'
  BY <1>1, <1>2, PutType DEF Due
<1>5. Now(s)' = Now(s)
  <2>1. Provider[s] \in Objects \ {s}
    BY PipelineAssumption
  <2>2. status'[Provider[s]] = status[Provider[s]]
    BY <1>1, <1>2, <2>1, PutType
  <2> QED  BY <1>2, <2>2 DEF Now
<1> QED  BY <1>1, <1>2, <1>3, <1>4, <1>5 DEF StageInv, WorkInv, RestInv

(* An event that arrives enqueues whoever it was for, or is noted as lost. *)
LEMMA DeliveredIsDue ==
  ASSUME IInv, NEW o \in Objects, Delivery(o), NEW s \in Stages
  PROVE  StageInv(s)'
<1>1. PICK mapped : /\ Arrive(o, mapped)
                    /\ Subscribers(o) \subseteq mapped \cup missed'
                    /\ missed \subseteq missed'
  BY DeliveryMeans
<1>2. Due(s) => Due(s)'
  <2>1. CASE s \in requested \/ s \in missed
    BY <1>1, <2>1 DEF Arrive, Due
  <2>2. CASE s \in specLag
    BY <1>1, <2>2 DEF Arrive, Due
  <2>3. CASE Provider[s] \in statusLag /\ Kind[Provider[s]] \in Watches(s)
    BY <1>1, <2>3 DEF Arrive, Due, Subscribers
  <2> QED  BY <2>1, <2>2, <2>3 DEF Due
<1> QED  BY <1>1, <1>2, StageKept DEF IInv, Arrive, server

(* What is to be done stays so, one case per action. *)
LEMMA StagesPreserved == IInv /\ [Next]_vars => \A s \in Stages : StageInv(s)'
<1> SUFFICES ASSUME IInv, [Next]_vars, NEW t \in Stages PROVE StageInv(t)'
  OBVIOUS
<1> USE DEF IInv
<1>1. ASSUME NEW s \in Stages, Begin(s) PROVE StageInv(t)'
  <2>1. seenConfig[s] \in Configs /\ seen[Provider[s]] \in Statuses
    BY PipelineAssumption DEF TypeOK
  <2> QED  BY <1>1, <2>1, VerdictType, OthersAfterTake, BegunIsNow DEF Begin
<1>2. ASSUME NEW s \in Stages, BeginWithFailedLookup(s) PROVE StageInv(t)'
  <2>1. /\ Stop("ErrorFindingProvider").outcome = "ErrorFindingProvider"
        /\ Stop("ErrorFindingProvider").outcome \in Conditions
        /\ Stop("ErrorFindingProvider").values \in Data
    BY PipelineAssumption DEF Stop, Conditions
  <2>2. work'[s].pc = "report" /\ work'[s].outcome = "ErrorFindingProvider"
    BY <1>2, <2>1, ReportType DEF BeginWithFailedLookup
  <2>3. StageInv(s)'
    BY <2>2 DEF StageInv, WorkInv, RestInv
  <2> QED  BY <1>2, <2>1, <2>3, OthersAfterTake DEF BeginWithFailedLookup
<1>3. ASSUME NEW s \in Stages, Report(s) PROVE StageInv(t)'
  BY <1>3, OthersAfterReport, ReportedIsNow
<1>4. ASSUME NEW s \in Stages, ReportFails(s) PROVE StageInv(t)'
  <2>1. s \in requested'
    BY <1>4 DEF ReportFails
  <2>2. StageInv(s)'
    BY <2>1 DEF StageInv, WorkInv, RestInv, Due
  <2> QED  BY <1>4, <2>2, OthersAfterReport
<1>5. ASSUME NEW o \in Objects, Delivery(o) PROVE StageInv(t)'
  BY <1>5, DeliveredIsDue
<1>6. CASE Crash
  BY <1>6 DEF Crash, StageInv, WorkInv, RestInv, Due
<1>7. ASSUME NEW o \in Sources, NEW new \in Published(o), Publish(o, new)
      PROVE  StageInv(t)'
  <2>1. t \in Objects \ {o} /\ o \in Objects /\ Provider[t] \in Objects
    BY PipelineAssumption DEF Objects
  <2>2. /\ status'[t] = status[t]
        /\ status'[Provider[t]] = status[Provider[t]] \/ Provider[t] \in statusLag'
    BY <1>7, <2>1 DEF Publish, TypeOK
  <2>3. Due(t) => Due(t)'
    BY <1>7 DEF Publish, Due
  <2> QED  BY <1>7, <2>2, <2>3, StageKept DEF Publish
<1>8. ASSUME NEW s \in Stages, NEW new \in Configs, Configure(s, new) PROVE StageInv(t)'
  <2>1. s \in specLag'
    BY <1>8 DEF Configure
  <2>2. StageInv(s)'
    BY <2>1 DEF StageInv, WorkInv, RestInv, Due
  <2>3. ASSUME t # s PROVE StageInv(t)'
    <3>1. work'[t] = work[t] /\ config'[t] = config[t] /\ status' = status
      BY <1>8, <2>3 DEF Configure, TypeOK
    <3>2. Due(t) => Due(t)'
      BY <1>8 DEF Configure, Due
    <3> QED  BY <3>1, <3>2, StageKept
  <2> QED  BY <2>2, <2>3
<1>9. CASE UNCHANGED vars
  BY <1>9, StageKept DEF vars, Due
<1> QED
  BY <1>1, <1>2, <1>3, <1>4, <1>5, <1>6, <1>7, <1>8, <1>9 DEF Next, Reconcile, Delivery

(* Nothing to come for a stage that is quiet: it has written what is to be. *)
LEMMA QuietIsDerived == IInv => SettledIsDerived
<1> SUFFICES ASSUME IInv, NEW s \in Stages, Quiet(s)
             PROVE  Derived(s) \/ Excepted(s)
  BY DEF SettledIsDerived
<1>1. s \in missed \/ ~Due(s)
  BY DEF Quiet, Due
<1>2. RestInv(s) /\ work[s].pc = "idle"
  BY DEF Quiet, IInv, StageInv
<1> QED  BY <1>1, <1>2 DEF RestInv, Derived, Excepted, Now

(* No stage falls asleep on values that are not those of its provider,     *)
(* however the references go: every event of a provider is mapped to the   *)
(* stages that refer to it, and every refused update is tried again. A     *)
(* stage may rest on a failed lookup, or on an event lost by a map function *)
(* that failed; then it is the only one, and those after it agree with it. *)
THEOREM NeverAsleepOnForeignValues == Spec => []SettledIsDerived
<1>1. IInv /\ [Next]_vars => IInv'
  BY TypePreserved, CachePreserved, StagesPreserved DEF IInv
<1> QED  BY <1>1, InitInv, QuietIsDerived, PTL DEF Spec
===============================================================================
