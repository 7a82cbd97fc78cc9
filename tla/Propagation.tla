----------------------------- MODULE Propagation -----------------------------
(***************************************************************************)
(* From a ResourceBinding to the Works of its clusters: the binding        *)
(* controller of karmada-controller-manager.                               *)
(*                                                                         *)
(* A reconciliation reads the binding and the Works from the manager's     *)
(* caches, deletes the Works of clusters the binding no longer names,      *)
(* waits for those that are purged Directly, then creates or updates one   *)
(* Work per cluster, skipping a cluster that fails.  Changes of Works do   *)
(* not wake the controller, so what it overlooks stays overlooked until    *)
(* the binding's next change.                                              *)
(*                                                                         *)
(* A cache catches up at any time, object by object, and only forwards.    *)
(* The optimistic lock is "the cached copy is the stored object".          *)
(***************************************************************************)
EXTENDS Integers, FiniteSets

CONSTANTS
    Clusters,    \* the member clusters
    Templates,   \* contents of the resource template
    Overrides,   \* what the override policies make of it
    Dependents,  \* the sets of clusters the bindings that need this one may have
    NoTemplate,  \* the template is deleted
    Gone,        \* the binding is deleted
    NoWork,      \* there is no Work
    MaxEvents,   \* bound on changes made by users and the other controllers
    MaxFaults    \* bound on failed calls and restarts

ASSUME PropagationAssumption ==
    /\ IsFiniteSet(Clusters) /\ Clusters # {}
    /\ Templates # {} /\ NoTemplate \notin Templates
    /\ Overrides # {} /\ Dependents \subseteq SUBSET Clusters
    /\ MaxEvents \in Nat /\ MaxFaults \in Nat

VARIABLES
    rb,          \* the binding in the API server, or Gone
    cmRB,        \* ... in the cache
    template,    \* the template, as the manager's informer has it
    override,    \* the override policies, as the cache has them
    unrecorded,  \* the detector has not yet written the template's change to the binding
    works,       \* the Work of each cluster in the API server
    cmWorks,     \* ... in the cache
    queued,      \* the binding's key is in the controller's queue
    sync,        \* the reconciliation under way, or Idle
    missed,      \* clusters whose Work the controller last left alone because of a
                 \* copy older than the Work; history, read by no action
    events, faults

inputVars  == <<template, override, unrecorded>>
cacheVars  == <<cmRB, cmWorks>>
bounds     == <<events, faults>>
vars       == <<rb, inputVars, works, cacheVars, queued, sync, missed, bounds>>

TaskModes == {"none", "Gracefully", "Directly"}

\* spec.clusters, the clusters of spec.requiredBy, spec.gracefulEvictionTasks.
Binding ==
    [gen : Nat, clusters : SUBSET Clusters, requiredBy : SUBSET Clusters,
     tasks : [Clusters -> TaskModes], deleting : BOOLEAN]

Manifest == [template : Templates, override : Overrides]
Work     == [manifest : Manifest, deleting : BOOLEAN]

ASSUME AbsenceAssumption == Gone \notin Binding /\ NoWork \notin Work

Idle == [pc |-> "idle"]

Reconciliation ==
    [pc : {"orphans", "ensure", "delete"},
     rb : Binding,                  \* the copy it works from
     todo : SUBSET Clusters,        \* the clusters its loop has not reached
     template : Templates \cup {NoTemplate},
     failed : BOOLEAN]              \* a cluster of the loop failed

NewBinding(S) ==
    [gen |-> 1, clusters |-> S, requiredBy |-> {}, tasks |-> [c \in Clusters |-> "none"],
     deleting |-> FALSE]

\* The contents are interchangeable: the first template is any one of them.
Init ==
    /\ \E S \in SUBSET Clusters : rb = NewBinding(S)
    /\ cmRB = rb
    /\ template = (CHOOSE t \in Templates : TRUE) /\ override = (CHOOSE o \in Overrides : TRUE)
    /\ unrecorded = FALSE
    /\ works = [c \in Clusters |-> NoWork] /\ cmWorks = works
    /\ queued = TRUE /\ sync = Idle
    /\ missed = {}
    /\ events = 0 /\ faults = 0

Event == events < MaxEvents /\ events' = events + 1 /\ UNCHANGED faults
Fault == faults < MaxFaults /\ faults' = faults + 1 /\ UNCHANGED events

\* A change of the spec, or its deletion, is a new generation.
Write(b) == rb' = [b EXCEPT !.gen = rb.gen + 1]

Live == rb # Gone /\ ~rb.deleting

-----------------------------------------------------------------------------
(***************************************************************************)
(* What the rest of the system does to the binding and to its inputs.      *)
(***************************************************************************)
othersUnchanged == UNCHANGED <<works, cacheVars, sync, missed>>

\* The scheduler picks clusters, but none with an eviction task.
Schedule(S) ==
    /\ Live /\ Event
    /\ \A c \in S : rb.tasks[c] = "none"
    /\ S # rb.clusters
    /\ Write([rb EXCEPT !.clusters = S])
    /\ UNCHANGED <<inputVars, queued>> /\ othersUnchanged

\* The taint manager and application failover.
Evict(c, mode) ==
    /\ Live /\ Event
    /\ c \in rb.clusters /\ rb.tasks[c] = "none"
    /\ Write([rb EXCEPT !.clusters = @ \ {c}, !.tasks[c] = mode])
    /\ UNCHANGED <<inputVars, queued>> /\ othersUnchanged

\* The graceful eviction controller: the task succeeded or timed out.
EndTask(c) ==
    /\ Live
    /\ rb.tasks[c] # "none"
    /\ Write([rb EXCEPT !.tasks[c] = "none"])
    /\ UNCHANGED <<inputVars, queued, bounds>> /\ othersUnchanged

\* The dependencies distributor: bindings that need this one follow theirs.
Require(S) ==
    /\ Live /\ Event
    /\ S # rb.requiredBy
    /\ Write([rb EXCEPT !.requiredBy = S])
    /\ UNCHANGED <<inputVars, queued>> /\ othersUnchanged

UpdateTemplate(t) ==
    /\ Event
    /\ template # NoTemplate /\ t # template
    /\ template' = t
    /\ unrecorded' = Live
    /\ UNCHANGED <<rb, override, queued>> /\ othersUnchanged

\* The detector copies the template's resourceVersion into the binding.
BuildResourceBinding ==
    /\ unrecorded /\ Live
    /\ unrecorded' = FALSE
    /\ Write(rb)
    /\ UNCHANGED <<template, override, queued, bounds>> /\ othersUnchanged

\* A changed override policy queues the bindings it selects.
UpdateOverridePolicy(o) ==
    /\ Event
    /\ o # override
    /\ override' = o
    /\ queued' = (queued \/ cmRB # Gone)
    /\ UNCHANGED <<rb, template, unrecorded>> /\ othersUnchanged

DeleteTemplate ==
    /\ Event
    /\ template # NoTemplate
    /\ template' = NoTemplate /\ unrecorded' = FALSE
    /\ UNCHANGED <<rb, override, queued>> /\ othersUnchanged

\* The template owns the binding.
CollectGarbage ==
    /\ template = NoTemplate /\ Live
    /\ Write([rb EXCEPT !.deleting = TRUE])
    /\ UNCHANGED <<inputVars, queued, bounds>> /\ othersUnchanged

\* The execution controller lets a deleted Work go once the member's object is gone.
FinishWork(c) ==
    /\ works[c] # NoWork /\ works[c].deleting
    /\ works' = [works EXCEPT ![c] = NoWork]
    /\ UNCHANGED <<rb, inputVars, cacheVars, queued, sync, missed, bounds>>

-----------------------------------------------------------------------------
(***************************************************************************)
(* The caches.  Only a new generation of the binding, or its removal,      *)
(* passes the controller's predicate.                                      *)
(***************************************************************************)
OnBinding ==
    /\ cmRB # rb
    /\ cmRB' = rb
    /\ queued' = TRUE
    /\ UNCHANGED <<rb, inputVars, works, cmWorks, sync, missed, bounds>>

OnWork(c) ==
    /\ cmWorks[c] # works[c]
    /\ cmWorks' = [cmWorks EXCEPT ![c] = works[c]]
    /\ UNCHANGED <<rb, inputVars, works, cmRB, queued, sync, missed, bounds>>

-----------------------------------------------------------------------------
(***************************************************************************)
(* The binding controller.                                                 *)
(***************************************************************************)
MergeTargetClusters(b) == b.clusters \cup b.requiredBy

\* Mutant: every cluster that is not being left gracefully.
ClustersNotGracefully(b) == {c \in Clusters : b.tasks[c] # "Gracefully"}

ClustersWithPurgeModeDirectly(b) == {c \in Clusters : b.tasks[c] = "Directly"}

ObtainBindingSpecExistingClusters(b) ==
    MergeTargetClusters(b) \cup {c \in Clusters : b.tasks[c] = "Gracefully"}

CachedWorks(S) == {c \in S : cmWorks[c] # NoWork}

\* Works a list from the cache does not show.
Overlooked(S) == {c \in S : cmWorks[c] = NoWork /\ works[c] # NoWork}

Begin(pc, b, S, t) ==
    sync' = [pc |-> pc, rb |-> b, todo |-> S, template |-> t, failed |-> FALSE]

\* The key goes back to its queue after an error, a conflict or a delay.
End(retry) ==
    /\ sync' = Idle
    /\ queued' = (queued \/ retry)

\* Takes the key and lists the Works it is going to delete.
Reconcile ==
    /\ queued /\ sync = Idle
    /\ queued' = FALSE
    /\ IF cmRB = Gone
       THEN UNCHANGED <<sync, missed>>
       ELSE LET unwanted == IF cmRB.deleting THEN Clusters
                            ELSE Clusters \ ObtainBindingSpecExistingClusters(cmRB)
            IN /\ Begin(IF cmRB.deleting THEN "delete" ELSE "orphans", cmRB,
                        CachedWorks(unwanted), NoTemplate)
               /\ missed' = missed \cup Overlooked(unwanted)
    /\ UNCHANGED <<rb, inputVars, works, cacheVars, bounds>>

\* One cluster of a loop is done.
Step(c, ok) == sync' = [sync EXCEPT !.todo = @ \ {c}, !.failed = @ \/ ~ok]

\* RemoveOrphanWorks and DeleteWorks: a Work that is not there is an error to
\* the first only.
DeleteWork(c) ==
    /\ sync.pc \in {"orphans", "delete"} /\ c \in sync.todo
    /\ IF works[c] = NoWork
       THEN Step(c, sync.pc = "delete") /\ UNCHANGED works
       ELSE Step(c, TRUE) /\ works' = [works EXCEPT ![c].deleting = TRUE]
    /\ missed' = missed \ {c}
    /\ UNCHANGED <<rb, inputVars, cacheVars, queued, bounds>>

\* Mutant: the Works purged Directly are not waited for.
RemovedOrphansNoWait ==
    /\ sync.pc = "orphans" /\ sync.todo = {}
    /\ IF sync.failed
       THEN End(TRUE)
       ELSE IF template = NoTemplate THEN End(FALSE)
       ELSE Begin("ensure", sync.rb, MergeTargetClusters(sync.rb), template) /\ UNCHANGED queued
    /\ UNCHANGED <<rb, inputVars, works, cacheVars, missed, bounds>>

\* After the orphans: checkDirectPurgeOrphanWorks, FetchResourceTemplate.
RemovedOrphans ==
    /\ sync.pc = "orphans" /\ sync.todo = {}
    /\ IF sync.failed \/ CachedWorks(ClustersWithPurgeModeDirectly(sync.rb)) # {}
       THEN End(TRUE)
       ELSE IF template = NoTemplate THEN End(FALSE)
       ELSE Begin("ensure", sync.rb, MergeTargetClusters(sync.rb), template) /\ UNCHANGED queued
    /\ UNCHANGED <<rb, inputVars, works, cacheVars, missed, bounds>>

\* CreateOrUpdateWork reads the cache: it creates what it does not see, refuses
\* a Work that is being deleted, leaves one alone that looks up to date, and
\* updates the rest under the optimistic lock.
CreateOrUpdateWork(c) ==
    LET cached  == cmWorks[c]
        desired == [manifest |-> [template |-> sync.template, override |-> override],
                    deleting |-> FALSE]
    IN /\ sync.pc = "ensure" /\ c \in sync.todo
       /\ IF cached = desired
          THEN /\ Step(c, TRUE)
               /\ missed' = IF works[c] = desired THEN missed \ {c} ELSE missed \cup {c}
               /\ UNCHANGED works
          ELSE IF works[c] = cached /\ (cached = NoWork \/ ~cached.deleting)
          THEN /\ Step(c, TRUE)
               /\ works' = [works EXCEPT ![c] = desired]
               /\ missed' = missed \ {c}
          ELSE /\ Step(c, FALSE)
               /\ UNCHANGED <<works, missed>>
       /\ UNCHANGED <<rb, inputVars, cacheVars, queued, bounds>>

\* The API server, the interpreter or an override fails one cluster of a loop.
FailWork(c) ==
    /\ Fault
    /\ sync # Idle /\ c \in sync.todo
    /\ Step(c, FALSE)
    /\ UNCHANGED <<rb, inputVars, works, cacheVars, queued, missed>>

\* Mutant: the errors of ensureWork are dropped.
EnsuredWorksNoError ==
    /\ sync.pc = "ensure" /\ sync.todo = {}
    /\ End(FALSE)
    /\ UNCHANGED <<rb, inputVars, works, cacheVars, missed, bounds>>

EnsuredWorks ==
    /\ sync.pc = "ensure" /\ sync.todo = {}
    /\ End(sync.failed)
    /\ UNCHANGED <<rb, inputVars, works, cacheVars, missed, bounds>>

\* Mutant: the finalizer goes although Works could not be deleted.
RemoveFinalizerAnyway ==
    /\ sync.pc = "delete" /\ sync.todo = {}
    /\ End(sync.rb # rb)
    /\ rb' = IF sync.rb # rb THEN rb ELSE Gone
    /\ UNCHANGED <<inputVars, works, cacheVars, missed, bounds>>

\* Mutant: a refused update is not tried again.
RemoveFinalizerOnce ==
    LET refused == sync.failed \/ sync.rb # rb
    IN /\ sync.pc = "delete" /\ sync.todo = {}
       /\ End(FALSE)
       /\ rb' = IF refused THEN rb ELSE Gone
       /\ UNCHANGED <<inputVars, works, cacheVars, missed, bounds>>

\* An update under the optimistic lock, refused to an older copy.
RemoveFinalizer ==
    LET refused == sync.failed \/ sync.rb # rb
    IN /\ sync.pc = "delete" /\ sync.todo = {}
       /\ End(refused)
       /\ rb' = IF refused THEN rb ELSE Gone
       /\ UNCHANGED <<inputVars, works, cacheVars, missed, bounds>>

\* The template cannot be read, or the finalizer's removal fails.
FailCall ==
    /\ Fault
    /\ sync.pc \in {"orphans", "delete"} /\ sync.todo = {}
    /\ End(TRUE)
    /\ UNCHANGED <<rb, inputVars, works, cacheVars, missed>>

\* A new process lists everything and queues every binding.
Restart ==
    /\ Fault
    /\ cmRB' = rb /\ cmWorks' = works
    /\ sync' = Idle /\ queued' = (rb # Gone)
    /\ UNCHANGED <<rb, inputVars, works, missed>>

-----------------------------------------------------------------------------
Environment ==
    \/ \E S \in SUBSET Clusters : Schedule(S)
    \/ \E S \in Dependents : Require(S)
    \/ \E c \in Clusters, mode \in {"Gracefully", "Directly"} : Evict(c, mode)
    \/ \E t \in Templates : UpdateTemplate(t)
    \/ \E o \in Overrides : UpdateOverridePolicy(o)
    \/ DeleteTemplate

\* What happens of itself, sooner or later.
Collaborators ==
    \/ \E c \in Clusters : EndTask(c) \/ FinishWork(c)
    \/ BuildResourceBinding \/ CollectGarbage

Caches == OnBinding \/ \E c \in Clusters : OnWork(c)

Controller ==
    \/ Reconcile
    \/ \E c \in Clusters : DeleteWork(c) \/ CreateOrUpdateWork(c)
    \/ RemovedOrphans \/ EnsuredWorks \/ RemoveFinalizer

Failures == Restart \/ FailCall \/ \E c \in Clusters : FailWork(c)

Next == Environment \/ Collaborators \/ Caches \/ Controller \/ Failures

Spec == Init /\ [][Next]_vars

(***************************************************************************)
(* Informers, controllers, the garbage collector and member clusters that  *)
(* work keep working; eviction tasks end at their timeout at the latest.   *)
(***************************************************************************)
FairSpec ==
    /\ Spec
    /\ WF_vars(OnBinding) /\ \A c \in Clusters : WF_vars(OnWork(c))
    /\ WF_vars(BuildResourceBinding) /\ WF_vars(CollectGarbage)
    /\ \A c \in Clusters : WF_vars(EndTask(c)) /\ WF_vars(FinishWork(c))
    /\ WF_vars(Controller)

-----------------------------------------------------------------------------
(***************************************************************************)
(* Properties.                                                             *)
(***************************************************************************)
TypeOK ==
    /\ rb \in Binding \cup {Gone} /\ cmRB \in Binding \cup {Gone}
    /\ template \in Templates \cup {NoTemplate} /\ override \in Overrides
    /\ unrecorded \in BOOLEAN
    /\ works \in [Clusters -> Work \cup {NoWork}]
    /\ cmWorks \in [Clusters -> Work \cup {NoWork}]
    /\ queued \in BOOLEAN
    /\ sync \in Reconciliation \cup {Idle}
    /\ missed \in SUBSET Clusters
    /\ events \in 0..MaxEvents /\ faults \in 0..MaxFaults

\* Nobody has anything left to do about the binding.
Quiet == ~queued /\ sync = Idle /\ cmRB = rb /\ ~unrecorded

UpToDate(w) == w # NoWork /\ w.manifest = [template |-> template, override |-> override]
                          /\ ~w.deleting

Leaving(w) == w = NoWork \/ w.deleting

\* When the binding controller comes to rest (binding_controller.go:110-152),
\* however clusters failed one by one (common.go:150), processes restarted and
\* the template, the overrides and the clusters changed meanwhile, every
\* cluster the binding names has the Work of the current template and every
\* cluster it does not name is losing its Work.  The only exception is a
\* cluster whose Work was left alone on the word of an old cached copy.
QuietMeansPropagated ==
    Quiet /\ Live /\ template # NoTemplate =>
        \A c \in Clusters \ missed :
            IF c \in rb.clusters \cup rb.requiredBy THEN UpToDate(works[c])
            ELSE rb.tasks[c] # "Gracefully" => Leaving(works[c])

\* The same without the exception: "ensureWork ensure Work to be created or
\* updated" (common.go:52).
EveryWorkEnsured ==
    Quiet /\ Live /\ template # NoTemplate =>
        \A c \in rb.clusters \cup rb.requiredBy : UpToDate(works[c])

\* A binding leaves (removeFinalizer, binding_controller.go:96-107) only after all
\* its Works: whatever failed or changed before, none it has seen stays behind.
GoneLeavesNoWork ==
    rb = Gone => \A c \in Clusters \ missed : Leaving(works[c])

\* Evicted Directly, and not kept by a binding that requires this one.
PurgedDirectly(b) == ClustersWithPurgeModeDirectly(b) \ MergeTargetClusters(b)

\* The old instance goes before a new one is created
\* (checkDirectPurgeOrphanWorks, binding_controller.go:174-183): a reconciliation
\* that knows of an eviction with PurgeMode Directly creates no Work while
\* the evicted cluster still has one it could see.
OldBeforeNew ==
    [][\A d \in Clusters : works[d] = NoWork /\ works'[d] # NoWork =>
          \A c \in PurgedDirectly(sync.rb) \ missed : works[c] = NoWork]_vars

\* The same without the exception: "it is crucial to ensure that the old
\* application is removed before creating a new one"
\* (apis/policy/v1alpha1/propagation_types.go:293).
NeverTwoInstances ==
    [][\A d \in Clusters : works[d] = NoWork /\ works'[d] # NoWork =>
          \A c \in PurgedDirectly(sync.rb) : works[c] = NoWork]_vars

\* Errors, conflicts, deletions under way and evicted clusters make the
\* controller try again (binding_controller.go:121-126); the tries end.
Settles == <>[]Quiet

\* A deleted template takes the binding with it, and the binding is not held
\* back for ever by a Work that cannot be deleted at once
\* (binding_controller.go:83-90).
TemplateTakesBinding == template = NoTemplate ~> rb = Gone
=============================================================================
