---------------------------- MODULE BindingStatus ----------------------------
(***************************************************************************)
(* From the status of the Works to the status of a ResourceBinding and of  *)
(* its resource template: the binding status controller of                 *)
(* karmada-controller-manager.                                             *)
(*                                                                         *)
(* A reconciliation collects the status of all Works in the manager's      *)
(* cache, writes the collection into the binding unless the cached binding *)
(* already has it, and then writes the template's status.  Works wake the  *)
(* controller when their status changes or when they go, the binding when  *)
(* it records another version of its template; nothing else does.          *)
(*                                                                         *)
(* A watch delivers every version of an object, in order and late; a list  *)
(* shows the latest version of what a cache lacks as if it were created.   *)
(***************************************************************************)
EXTENDS Integers, Sequences

CONSTANTS
    Clusters,        \* the member clusters
    Reports,         \* what a Work's status may say of the cluster
    AppliedReports,  \* ... with the condition Applied
    New,             \* the status of a Work nobody has reported on
    None,            \* there is no Work, and no item for the cluster
    Gone,            \* the binding, or the template, is deleted
    MaxEvents,       \* bound on changes made by users, scheduler and members
    MaxFaults        \* bound on failed calls and restarts

ASSUME BindingStatusAssumption ==
    /\ AppliedReports \subseteq Reports /\ New \notin Reports /\ None \notin Reports \cup {New}
    /\ MaxEvents \in Nat /\ MaxFaults \in Nat

VARIABLES
    rb,         \* the binding in the API server, or Gone
    cmRB,       \* ... in the cache
    rbWatch,    \* its versions on their way to the cache
    works,      \* the Work of each cluster in the API server, or None
    cmWorks,    \* ... in the cache
    workWatch,  \* its versions on their way to the cache
    template,   \* the resource template, or Gone
    queued,     \* the binding's key is in the controller's queue
    sync,       \* the reconciliation under way, or Idle
    excused,    \* since the controller last listed the Works it left out an
                \* update because of an old copy, was not woken by a list, or
                \* not by a template's change before lastScheduledTime is set;
                \* history, read by no action
    events, faults

rbVars    == <<rb, rbWatch>>
workVars  == <<works, workWatch>>
cacheVars == <<cmRB, cmWorks>>
bounds    == <<events, faults>>
vars      == <<rbVars, workVars, cacheVars, template, queued, sync, excused, bounds>>

\* status.aggregatedStatus: an item for a cluster, or None.
Aggregation == [Clusters -> Reports \cup {New, None}]

Binding ==
    [version : Nat,                \* metadata.resourceVersion
     clusters : SUBSET Clusters,   \* what ObtainBindingSpecExistingClusters returns
     recorded : Nat,               \* spec.resource.resourceVersion
     scheduled : BOOLEAN,          \* status.lastScheduledTime is set
     aggregated : Aggregation,
     fullyApplied : BOOLEAN]

Work == [status : Reports \cup {New}, deleting : BOOLEAN]

\* The template's status says what was aggregated, and at which generation.
Template == [generation : Nat, status : [generation : Nat, aggregated : Aggregation]]

ASSUME AbsenceAssumption == Gone \notin Binding \cup Template /\ None \notin Work

Nothing == [c \in Clusters |-> None]

Idle == [pc |-> "idle"]

Reconciliation == [pc : {"binding", "template"}, aggregated : Aggregation]

Init ==
    /\ rb = [version |-> 1, clusters |-> {}, recorded |-> 1, scheduled |-> FALSE,
             aggregated |-> Nothing, fullyApplied |-> FALSE]
    /\ cmRB = rb /\ rbWatch = <<>>
    /\ works = Nothing /\ cmWorks = works /\ workWatch = [c \in Clusters |-> <<>>]
    /\ template = [generation |-> 1, status |-> [generation |-> 1, aggregated |-> Nothing]]
    /\ queued = FALSE /\ sync = Idle
    /\ excused = FALSE
    /\ events = 0 /\ faults = 0

Event == events < MaxEvents /\ events' = events + 1 /\ UNCHANGED faults
Fault == faults < MaxFaults /\ faults' = faults + 1 /\ UNCHANGED events

\* Every write makes a new version, which the watch will deliver.
Write(b) ==
    /\ rb' = IF b = Gone THEN Gone ELSE [b EXCEPT !.version = rb.version + 1]
    /\ rbWatch' = Append(rbWatch, rb')

WriteWork(c, w) ==
    /\ works' = [works EXCEPT ![c] = w]
    /\ workWatch' = [workWatch EXCEPT ![c] = Append(@, w)]

-----------------------------------------------------------------------------
(***************************************************************************)
(* The rest of the system.                                                 *)
(***************************************************************************)
othersUnchanged == UNCHANGED <<cacheVars, queued, sync, excused>>

\* The scheduler's patch of the result, and its later patch of the status.
Schedule(S) ==
    /\ Event
    /\ rb # Gone /\ S # rb.clusters
    /\ Write([rb EXCEPT !.clusters = S])
    /\ UNCHANGED <<workVars, template>> /\ othersUnchanged

Confirm ==
    /\ rb # Gone /\ rb.clusters # {} /\ ~rb.scheduled
    /\ Write([rb EXCEPT !.scheduled = TRUE])
    /\ UNCHANGED <<workVars, template, bounds>> /\ othersUnchanged

UpdateTemplate ==
    /\ Event
    /\ template # Gone
    /\ template' = [template EXCEPT !.generation = @ + 1]
    /\ UNCHANGED <<rbVars, workVars>> /\ othersUnchanged

\* The detector.
BuildResourceBinding ==
    /\ rb # Gone /\ template # Gone /\ rb.recorded # template.generation
    /\ Write([rb EXCEPT !.recorded = template.generation])
    /\ UNCHANGED <<workVars, template, bounds>> /\ othersUnchanged

DeleteTemplate ==
    /\ Event
    /\ template # Gone
    /\ template' = Gone
    /\ UNCHANGED <<rbVars, workVars>> /\ othersUnchanged

CollectGarbage ==
    /\ template = Gone /\ rb # Gone
    /\ Write(Gone)
    /\ UNCHANGED <<workVars, template, bounds>> /\ othersUnchanged

Targets == IF rb = Gone THEN {} ELSE rb.clusters

\* The binding controller and the execution controller.
CreateWork(c) ==
    /\ c \in Targets /\ works[c] = None
    /\ WriteWork(c, [status |-> New, deleting |-> FALSE])
    /\ UNCHANGED <<rbVars, template, bounds>> /\ othersUnchanged

DeleteWork(c) ==
    /\ c \notin Targets /\ works[c] # None /\ ~works[c].deleting
    /\ WriteWork(c, [works[c] EXCEPT !.deleting = TRUE])
    /\ UNCHANGED <<rbVars, template, bounds>> /\ othersUnchanged

FinishWork(c) ==
    /\ works[c] # None /\ works[c].deleting
    /\ WriteWork(c, None)
    /\ UNCHANGED <<rbVars, template, bounds>> /\ othersUnchanged

\* The execution and the work status controller.
ReportWork(c, r) ==
    /\ Event
    /\ works[c] # None /\ works[c].status # r
    /\ WriteWork(c, [works[c] EXCEPT !.status = r])
    /\ UNCHANGED <<rbVars, template>> /\ othersUnchanged

-----------------------------------------------------------------------------
(***************************************************************************)
(* The caches, and what wakes the controller.                              *)
(***************************************************************************)
\* Mutant: a Work that goes does not wake the controller.
WorkPredicateUpdates(old, new) ==
    old # None /\ new # None /\ old.status # new.status

WorkPredicateFn(old, new) ==
    /\ old # None
    /\ new # None => old.status # new.status

OnWork(c) ==
    LET new == Head(workWatch[c])
    IN /\ workWatch[c] # <<>>
       /\ workWatch' = [workWatch EXCEPT ![c] = Tail(@)]
       /\ cmWorks' = [cmWorks EXCEPT ![c] = new]
       /\ queued' = (queued \/ WorkPredicateFn(cmWorks[c], new))
       /\ UNCHANGED <<rbVars, works, cmRB, template, sync, excused, bounds>>

\* A list shows the status of a Work that came, or came back, since the last event,
\* and does not wake the controller.
Unannounced(old, new) ==
    /\ ~WorkPredicateFn(old, new)
    /\ new # None /\ new.status # New
    /\ old = None \/ (old.deleting /\ ~new.deleting)

\* A list after a broken watch.
RelistWork(c) ==
    /\ Fault
    /\ workWatch[c] # <<>>
    /\ workWatch' = [workWatch EXCEPT ![c] = <<>>]
    /\ cmWorks' = [cmWorks EXCEPT ![c] = works[c]]
    /\ queued' = (queued \/ WorkPredicateFn(cmWorks[c], works[c]))
    /\ excused' = (excused \/ Unannounced(cmWorks[c], works[c]))
    /\ UNCHANGED <<rbVars, works, cmRB, template, sync>>

\* Mutant: the binding never wakes the controller.
BindingPredicateNever(old, new) == FALSE

BindingPredicateFn(old, new) ==
    new # Gone /\ new.scheduled /\ old.recorded # new.recorded

OnBinding ==
    LET new == Head(rbWatch)
    IN /\ rbWatch # <<>>
       /\ rbWatch' = Tail(rbWatch)
       /\ cmRB' = new
       /\ queued' = (queued \/ BindingPredicateFn(cmRB, new))
       /\ excused' = (excused \/ (new # Gone /\ ~new.scheduled /\ cmRB.recorded # new.recorded))
       /\ UNCHANGED <<rb, workVars, cmWorks, template, sync, bounds>>

-----------------------------------------------------------------------------
(***************************************************************************)
(* The binding status controller.                                          *)
(***************************************************************************)
\* assembleWorkStatus, over the cached Works.
AssembleWorkStatus ==
    [c \in Clusters |-> IF cmWorks[c] = None \/ cmWorks[c].deleting THEN None
                        ELSE cmWorks[c].status]

WorksFullyApplied(aggregated, targets) ==
    /\ targets # {}
    /\ \A c \in Clusters : IF c \in targets THEN aggregated[c] \in AppliedReports
                           ELSE aggregated[c] = None

End(retry) == sync' = Idle /\ queued' = (queued \/ retry)

\* Mutant: a binding that does not exist is an error.
ReconcileNotFound ==
    /\ queued /\ sync = Idle
    /\ queued' = (cmRB = Gone)
    /\ sync' = IF cmRB = Gone THEN Idle
               ELSE [pc |-> "binding", aggregated |-> AssembleWorkStatus]
    /\ excused' = FALSE
    /\ UNCHANGED <<rbVars, workVars, cacheVars, template, bounds>>

\* Takes the key and lists the Works.
Reconcile ==
    /\ queued /\ sync = Idle
    /\ queued' = FALSE
    /\ sync' = IF cmRB = Gone THEN Idle
               ELSE [pc |-> "binding", aggregated |-> AssembleWorkStatus]
    /\ excused' = FALSE
    /\ UNCHANGED <<rbVars, workVars, cacheVars, template, bounds>>

Desired ==
    [cmRB EXCEPT !.aggregated = sync.aggregated,
                 !.fullyApplied = WorksFullyApplied(sync.aggregated, cmRB.clusters)]

SkippedUpdate ==
    rb # Gone /\ (rb.aggregated # cmRB.aggregated \/ rb.fullyApplied # cmRB.fullyApplied)

\* helper.UpdateStatus gets the binding from the cache again at every try,
\* leaves out an update that changes nothing there, and is refused when its
\* copy is not the stored one; then it tries again with the same collection.
UpdateStatus ==
    /\ sync.pc = "binding" /\ cmRB # Gone
    /\ IF Desired = cmRB
       THEN excused' = (excused \/ SkippedUpdate) /\ UNCHANGED rbVars
       ELSE /\ cmRB = rb
            /\ Write(Desired)
            /\ UNCHANGED excused
    /\ sync' = [sync EXCEPT !.pc = "template"]
    /\ UNCHANGED <<workVars, cacheVars, template, queued, bounds>>

\* RetryOnConflict gives up, or the binding has gone.
GiveUp ==
    /\ sync.pc = "binding"
    /\ cmRB = Gone \/ (cmRB # rb /\ Desired # cmRB)
    /\ End(TRUE)
    /\ UNCHANGED <<rbVars, workVars, cacheVars, template, excused, bounds>>

\* updateResourceStatus reads the template from the API server at every try.
UpdateResourceStatus ==
    /\ sync.pc = "template"
    /\ template' = IF template = Gone THEN Gone
                   ELSE [template EXCEPT !.status = [generation |-> template.generation,
                                                     aggregated |-> sync.aggregated]]
    /\ End(FALSE)
    /\ UNCHANGED <<rbVars, workVars, cacheVars, excused, bounds>>

Fail ==
    /\ Fault
    /\ sync # Idle
    /\ End(TRUE)
    /\ UNCHANGED <<rbVars, workVars, cacheVars, template, excused>>

\* A new process lists everything; scheduled bindings are queued.
Restart ==
    /\ Fault
    /\ cmRB' = rb /\ cmWorks' = works
    /\ rbWatch' = <<>> /\ workWatch' = [c \in Clusters |-> <<>>]
    /\ sync' = Idle
    /\ queued' = (rb # Gone /\ rb.scheduled)
    /\ excused' = ~queued'
    /\ UNCHANGED <<rb, works, template>>

-----------------------------------------------------------------------------
Environment ==
    \/ \E S \in SUBSET Clusters : Schedule(S)
    \/ \E c \in Clusters, r \in Reports : ReportWork(c, r)
    \/ UpdateTemplate \/ DeleteTemplate

Collaborators ==
    \/ Confirm \/ BuildResourceBinding \/ CollectGarbage
    \/ \E c \in Clusters : CreateWork(c) \/ DeleteWork(c) \/ FinishWork(c)

Caches == OnBinding \/ \E c \in Clusters : OnWork(c)

Controller == Reconcile \/ UpdateStatus \/ GiveUp \/ UpdateResourceStatus

Failures == Fail \/ Restart \/ \E c \in Clusters : RelistWork(c)

Next == Environment \/ Collaborators \/ Caches \/ Controller \/ Failures

Spec == Init /\ [][Next]_vars

\* Informers and controllers keep working.
FairSpec ==
    /\ Spec
    /\ WF_vars(OnBinding) /\ \A c \in Clusters : WF_vars(OnWork(c))
    /\ WF_vars(Confirm) /\ WF_vars(BuildResourceBinding) /\ WF_vars(CollectGarbage)
    /\ \A c \in Clusters : /\ WF_vars(CreateWork(c)) /\ WF_vars(DeleteWork(c))
                           /\ WF_vars(FinishWork(c))
    /\ WF_vars(Controller)

-----------------------------------------------------------------------------
(***************************************************************************)
(* Properties.                                                             *)
(***************************************************************************)
TypeOK ==
    /\ rb \in Binding \cup {Gone} /\ cmRB \in Binding \cup {Gone}
    /\ works \in [Clusters -> Work \cup {None}] /\ cmWorks \in [Clusters -> Work \cup {None}]
    /\ rbWatch \in Seq(Binding \cup {Gone}) /\ workWatch \in [Clusters -> Seq(Work \cup {None})]
    /\ template \in Template \cup {Gone}
    /\ queued \in BOOLEAN
    /\ sync \in Reconciliation \cup {Idle}
    /\ excused \in BOOLEAN
    /\ events \in 0..MaxEvents /\ faults \in 0..MaxFaults

\* The controller has nothing left to do.
Quiet == ~queued /\ sync = Idle /\ rbWatch = <<>> /\ \A c \in Clusters : workWatch[c] = <<>>

\* Every Work is wanted, reported on and not on its way out.
Propagated ==
    /\ rb # Gone /\ template # Gone /\ rb.recorded = template.generation
    /\ \A c \in Clusters : IF c \in rb.clusters
                           THEN works[c] # None /\ works[c].status # New /\ ~works[c].deleting
                           ELSE works[c] = None

AllApplied(S) == S # {} /\ \A c \in S : works[c].status \in AppliedReports

\* The binding's status tells the truth when the controller has come to rest
\* (AggregateResourceBindingWorkStatus, workstatus.go:58-94): although the Works
\* are collected once and written after any number of conflicts, and the spec
\* that decides on FullyApplied is read at another time than the Works, every
\* item is its Work's, and FullyApplied is true only if all clusters have applied.
StatusReflectsWorks ==
    Quiet /\ Propagated /\ ~excused =>
        /\ \A c \in Clusters : rb.aggregated[c] = IF works[c] = None THEN None ELSE works[c].status
        /\ rb.fullyApplied => AllApplied(rb.clusters)

\* The same without the excuse: "callers MUST ensure the problem can eventually
\* converge even if a single update is skipped" (util/helper/status.go:46).
SkippedUpdatesConverge ==
    Quiet /\ Propagated => \A c \in rb.clusters : rb.aggregated[c] = works[c].status

\* The template's status is that of the binding, at the template's generation
\* (updateResourceStatus, status/common.go:146-215), whichever of the two was
\* written last and whichever write failed.
TemplateReflectsBinding ==
    Quiet /\ Propagated /\ ~excused =>
        template.status = [generation |-> template.generation, aggregated |-> rb.aggregated]

\* Conflicts and errors make the controller try again; the tries end.
Settles == <>[]Quiet
=============================================================================
