------------------------------- MODULE Failover -------------------------------
(***************************************************************************)
(* Scheduling and eviction of one ResourceBinding.                         *)
(*                                                                         *)
(* Four writers share the object.  The scheduler (its own process and      *)
(* cache) reads a cached copy, computes a result, then sends two merge     *)
(* patches that carry no resourceVersion: spec and annotation, then        *)
(* status.  The taint manager and the graceful eviction controller         *)
(* (karmada-controller-manager) write under the optimistic lock.  The      *)
(* detector and users change replicas, placement and the reschedule        *)
(* trigger.  Reports of member health arrive through the status            *)
(* controller; here any report may arrive, Propagation models its origin.  *)
(*                                                                         *)
(* A cache catches up with the API server at any time and only forwards.   *)
(* The optimistic lock is "the cached copy is the stored object": a write  *)
(* from an older copy is refused and its queue key retried, which changes  *)
(* nothing, so the refusal needs no action.  Only the scheduler's two      *)
(* patches go without it.                                                  *)
(***************************************************************************)
EXTENDS ResourceBinding

CONSTANTS
    Taints,      \* the taints a cluster may carry: a subset of TaintKind
    MaxEvents,   \* bound on changes made by users, the detector and cluster taints
    MaxReports,  \* bound on changes of reported health
    MaxFaults,   \* bound on refused patches, capacity shortages, restarts and
                 \* decisions taken on a stale copy of the cluster taints
    Rebalance,   \* reschedules may be triggered
    Same         \* a field a merge patch leaves out

\* Untolerated taints; a tolerated one is no taint for this binding.
TaintKind == {"none", "noSchedule", "noExecute"}

ASSUME BoundsAssumption ==
    /\ Taints \subseteq TaintKind /\ "none" \in Taints
    /\ MaxEvents \in Nat /\ MaxReports \in Nat /\ MaxFaults \in Nat
    /\ Rebalance \in BOOLEAN
    /\ Same \notin Assignment \cup Placements

VARIABLES
    schedRB,     \* the binding in the scheduler's cache
    pending,     \* the binding is in the scheduling queue
    sched,       \* the scheduling attempt under way, or Idle
    taint,       \* cluster taints in the API server
    schedTaint,  \* ... in the scheduler's cache
    cmTaint,     \* ... in karmada-controller-manager's cache
    evictQ,      \* clusters whose (cluster, binding) key is in the eviction queue
    expired,     \* clusters whose eviction task outlived its grace period
    owed,        \* a reschedule was asked for, after the first success, and no attempt
                 \* has read the request
    events, reports, faults

schedVars == <<schedRB, schedTaint, pending, sched>>
evictVars == <<cmRB, cmTaint, evictQ, expired>>
envVars   == <<taint, events, reports, faults>>
vars      == <<rb, schedVars, evictVars, envVars, owed>>

Idle == [pc |-> "idle"]

\* An attempt keeps the generation it read and the patches it is about to send.
Attempt ==
    [pc : {"patchSpec", "patchStatus", "observe"},
     gen : Nat,                              \* of the copy that was read
     clusters : Assignment \cup {Same},      \* new spec.clusters, if they differ
     applied : Placements \cup {Same},       \* new annotation, if it differs
     observed : BOOLEAN,                     \* the copy had this generation observed
     ok : BOOLEAN, retry : BOOLEAN]

\* The scheduler never reads the aggregated status.
SchedulerView(b) == [b EXCEPT !.healthy = {}]

Init ==
    /\ \E n \in 1..MaxReplicas, p \in Placements : rb = CreatedBinding(n, p)
    /\ schedRB = SchedulerView(rb) /\ cmRB = rb
    /\ pending = TRUE
    /\ sched = Idle
    /\ taint = [c \in Clusters |-> "none"] /\ schedTaint = taint /\ cmTaint = taint
    /\ evictQ = {} /\ expired = {}
    /\ owed = FALSE
    /\ events = 0 /\ reports = 0 /\ faults = 0

Fault == faults < MaxFaults /\ faults' = faults + 1

\* Without a bound, two caches that never catch up would trade a cluster
\* back and forth for ever.
ReadTaints(copy) == IF copy = taint THEN UNCHANGED faults ELSE Fault

-----------------------------------------------------------------------------
(***************************************************************************)
(* The scheduler.                                                          *)
(***************************************************************************)
\* Updates that leave the generation alone are ignored.
OnResourceBindingUpdate ==
    /\ schedRB # SchedulerView(rb)
    /\ schedRB' = SchedulerView(rb)
    /\ pending' = (pending \/ schedRB.gen # rb.gen)
    /\ UNCHANGED <<rb, schedTaint, sched, evictVars, envVars, owed>>

\* A changed cluster re-queues every binding whose affinity matches it.
UpdateCluster(c) ==
    /\ schedTaint[c] # taint[c]
    /\ schedTaint' = [schedTaint EXCEPT ![c] = taint[c]]
    /\ pending' = (pending \/ c \in schedRB.placement)
    /\ UNCHANGED <<rb, schedRB, sched, evictVars, envVars, owed>>

\* The filter plugins ClusterAffinity, ClusterEviction and TaintToleration.
FindClustersThatFit(b, taints) ==
    {c \in b.placement : /\ ~ClusterInGracefulEvictionTasks(b, c)
                         /\ TargetContains(b, c) \/ taints[c] = "none"}

\* What AssignReplicas may return: Duplicated is a function of the clusters;
\* for Divided any division of the replicas stands for the weights.
AssignReplicas(b, fit) ==
    IF Duplicated
    THEN {[c \in Clusters |-> IF c \in fit THEN b.replicas ELSE 0]}
    ELSE {f \in Assignment : /\ \A c \in Clusters : f[c] > 0 => c \in fit
                             /\ GetSumOfReplicas(f) = b.replicas}

PlacementChanged(b) == b.applied # b.placement

\* Mutant: Duplicated bindings are not scheduled again whatever happened.
NeedScheduleOnChange(b) ==
    PlacementChanged(b) \/ IsBindingReplicasChanged(b) \/ RescheduleRequired(b)

NeedSchedule(b) ==
    PlacementChanged(b) \/ IsBindingReplicasChanged(b) \/ RescheduleRequired(b) \/ Duplicated

\* The patches hold the fields in which the result differs from the copy read.
Begin(pc, result, ok, retry) ==
    /\ sched' = [pc |-> pc, gen |-> schedRB.gen,
                 clusters |-> IF result = schedRB.clusters THEN Same ELSE result,
                 applied |-> IF schedRB.applied = schedRB.placement THEN Same
                             ELSE schedRB.placement,
                 observed |-> schedRB.obsGen = schedRB.gen, ok |-> ok, retry |-> retry]
    /\ owed' = (owed /\ ~schedRB.resched)
    /\ UNCHANGED <<rb, schedRB, schedTaint, evictVars, taint, events, reports>>

Pop ==
    /\ sched = Idle /\ pending
    /\ pending' = FALSE

Schedule ==
    LET fit == FindClustersThatFit(schedRB, schedTaint) IN
    /\ Pop
    /\ NeedSchedule(schedRB)
    /\ \E result \in AssignReplicas(schedRB, fit) :
          fit # {} /\ Begin("patchSpec", result, TRUE, FALSE)
    /\ ReadTaints(schedTaint)

\* FitError: the result is cleaned up, and the attempt is not retried.
ScheduleNoClusterFit ==
    /\ Pop
    /\ NeedSchedule(schedRB)
    /\ FindClustersThatFit(schedRB, schedTaint) = {}
    /\ Begin("patchSpec", Nowhere, FALSE, FALSE)
    /\ ReadTaints(schedTaint)

\* The estimators report too little capacity: nothing is patched but the condition.
ScheduleUnschedulable ==
    /\ Pop
    /\ NeedSchedule(schedRB)
    /\ ~Duplicated /\ FindClustersThatFit(schedRB, schedTaint) # {}
    /\ Fault
    /\ Begin("patchStatus", schedRB.clusters, FALSE, TRUE)

\* Nothing to schedule: confirm the generation, if that is still to be done.
ScheduleNotNeeded ==
    /\ Pop
    /\ ~NeedSchedule(schedRB)
    /\ IF schedRB.gen # schedRB.obsGen
       THEN Begin("observe", schedRB.clusters, TRUE, FALSE)
       ELSE UNCHANGED <<rb, schedRB, schedTaint, sched, evictVars, taint, events, reports, owed>>
    /\ UNCHANGED faults

\* A merge patch overwrites whatever the object holds by now.
PatchScheduleResult ==
    /\ sched # Idle /\ sched.pc = "patchSpec"
    /\ rb' = Write(rb, [rb EXCEPT
            !.clusters = IF sched.clusters = Same THEN @ ELSE sched.clusters,
            !.applied  = IF sched.applied = Same THEN @ ELSE sched.applied])
    /\ sched' = [sched EXCEPT !.pc = "patchStatus"]
    /\ UNCHANGED <<schedRB, schedTaint, pending, evictVars, envVars, owed>>

\* Mutant: the generation is taken from the stored object.
PatchBindingStatusConditionOfStored ==
    /\ sched # Idle /\ sched.pc = "patchStatus"
    /\ rb' = IF sched.ok THEN [rb EXCEPT !.obsGen = rb.gen, !.last = TRUE, !.resched = FALSE]
             ELSE rb
    /\ sched' = Idle
    /\ pending' = (pending \/ sched.retry)
    /\ UNCHANGED <<schedRB, schedTaint, evictVars, envVars, owed>>

\* The observed generation is the one of the copy that was read, and the
\* last scheduled time is now.
PatchBindingStatusCondition ==
    /\ sched # Idle /\ sched.pc = "patchStatus"
    /\ rb' = IF sched.ok
             THEN [rb EXCEPT !.obsGen = IF sched.observed THEN @ ELSE sched.gen,
                             !.last = TRUE, !.resched = FALSE]
             ELSE rb
    /\ sched' = Idle
    /\ pending' = (pending \/ sched.retry)
    /\ UNCHANGED <<schedRB, schedTaint, evictVars, envVars, owed>>

PatchObservedGeneration ==
    /\ sched # Idle /\ sched.pc = "observe"
    /\ rb' = [rb EXCEPT !.obsGen = sched.gen]
    /\ sched' = Idle
    /\ UNCHANGED <<schedRB, schedTaint, pending, evictVars, envVars, owed>>

\* Mutant: a refused patch ends the attempt and is not retried.
PatchFailsForGood ==
    /\ sched # Idle
    /\ Fault
    /\ sched' = Idle
    /\ UNCHANGED <<rb, schedRB, schedTaint, pending, evictVars, taint, events, reports, owed>>

\* The API server refuses a patch: a refused result is still reported in the
\* condition, and the attempt is retried either way.  An empty one is not sent.
PatchFails ==
    /\ sched # Idle
    /\ sched.pc = "patchSpec" => sched.clusters # Same \/ sched.applied # Same
    /\ Fault
    /\ IF sched.pc = "patchSpec"
       THEN /\ sched' = [sched EXCEPT !.pc = "patchStatus", !.ok = FALSE, !.retry = TRUE]
            /\ UNCHANGED pending
       ELSE sched' = Idle /\ pending' = TRUE
    /\ UNCHANGED <<rb, schedRB, schedTaint, evictVars, taint, events, reports, owed>>

\* The scheduler starts again: an attempt is lost, caches are listed afresh
\* and every binding gets an add event.
RestartScheduler ==
    /\ Fault
    /\ schedRB' = SchedulerView(rb) /\ schedTaint' = taint
    /\ pending' = TRUE
    /\ sched' = Idle
    /\ UNCHANGED <<rb, evictVars, taint, events, reports, owed>>

-----------------------------------------------------------------------------
(***************************************************************************)
(* karmada-controller-manager: the taint manager and the graceful eviction *)
(* controller.                                                             *)
(***************************************************************************)
CacheBinding ==
    /\ cmRB # rb
    /\ cmRB' = rb
    /\ UNCHANGED <<rb, schedVars, cmTaint, evictQ, expired, envVars, owed>>

CacheCluster(c) ==
    /\ cmTaint[c] # taint[c]
    /\ cmTaint' = [cmTaint EXCEPT ![c] = taint[c]]
    /\ UNCHANGED <<rb, schedVars, cmRB, evictQ, expired, envVars, owed>>

\* Mutant: the wrong taint effect is looked at.
SyncClusterOnNoSchedule(c) ==
    /\ cmTaint[c] = "noSchedule"
    /\ TargetContains(cmRB, c)
    /\ evictQ' = evictQ \cup {c}
    /\ UNCHANGED <<rb, schedVars, cmRB, cmTaint, expired, envVars, owed>>

\* Runs on every cluster event and then periodically.
SyncCluster(c) ==
    /\ cmTaint[c] = "noExecute"
    /\ TargetContains(cmRB, c)
    /\ evictQ' = evictQ \cup {c}
    /\ UNCHANGED <<rb, schedVars, cmRB, cmTaint, expired, envVars, owed>>

\* The key is dropped: the binding has left the cluster, or the taint is gone.
SyncBindingEvictionSkip(c) ==
    /\ c \in evictQ
    /\ \/ ~TargetContains(cmRB, c)
       \/ cmRB.applied # NoPlacement /\ cmTaint[c] # "noExecute"
    /\ evictQ' = evictQ \ {c}
    /\ UNCHANGED <<rb, schedVars, cmRB, cmTaint, expired, envVars, owed>>

SyncBindingEviction(c) ==
    /\ c \in evictQ
    /\ TargetContains(cmRB, c)
    /\ cmRB.applied # NoPlacement
    /\ cmTaint[c] = "noExecute"
    /\ cmRB = rb
    /\ rb' = Write(rb, GracefulEvictCluster(rb, c))
    /\ evictQ' = evictQ \ {c}
    /\ ReadTaints(cmTaint)
    /\ UNCHANGED <<schedVars, cmRB, cmTaint, expired, taint, events, reports, owed>>

AllScheduledResourceInHealthyState(b) == \A c \in Targets(b) : c \in b.healthy

\* Mutant: the grace period is not looked at.
AssessSingleTaskWithoutTimeout(b, c) ==
    IF b.obsGen = b.gen /\ AllScheduledResourceInHealthyState(b) THEN "none" ELSE "waiting"

AssessSingleTask(b, c) ==
    IF \/ c \in expired
       \/ b.obsGen = b.gen /\ AllScheduledResourceInHealthyState(b)
    THEN "none" ELSE "waiting"

\* A new task is only stamped; the others are kept or dropped.
AssessEvictionTasks(b) ==
    [c \in Clusters |-> CASE b.tasks[c] = "none"    -> "none"
                          [] b.tasks[c] = "new"     -> "waiting"
                          [] b.tasks[c] = "waiting" -> AssessSingleTask(b, c)]

\* Mutant: the tasks are patched without the optimistic lock.
SyncGracefulEvictionUnlocked ==
    LET kept == AssessEvictionTasks(cmRB) IN
    /\ kept # cmRB.tasks
    /\ rb' = Write(rb, [rb EXCEPT !.tasks = kept])
    /\ expired' = expired \ {c \in Clusters : rb.tasks[c] # kept[c]}
    /\ UNCHANGED <<schedVars, cmRB, cmTaint, evictQ, envVars, owed>>

SyncGracefulEviction ==
    LET kept == AssessEvictionTasks(cmRB) IN
    /\ kept # cmRB.tasks
    /\ cmRB = rb
    /\ rb' = Write(rb, [rb EXCEPT !.tasks = kept])
    /\ expired' = expired \ {c \in Clusters : rb.tasks[c] # kept[c]}
    /\ UNCHANGED <<schedVars, cmRB, cmTaint, evictQ, envVars, owed>>

\* Time passes: the grace period of a stamped task ends.
Expire(c) ==
    /\ rb.tasks[c] = "waiting" /\ c \notin expired
    /\ expired' = expired \cup {c}
    /\ UNCHANGED <<rb, schedVars, cmRB, cmTaint, evictQ, envVars, owed>>

\* Queues are lost; caches are listed afresh and every cluster is reconciled.
RestartControllerManager ==
    /\ Fault
    /\ cmRB' = rb /\ cmTaint' = taint
    /\ evictQ' = {}
    /\ UNCHANGED <<rb, schedVars, expired, taint, events, reports, owed>>

-----------------------------------------------------------------------------
(***************************************************************************)
(* The environment of the failover path.                                   *)
(***************************************************************************)
Event == events < MaxEvents /\ events' = events + 1

\* The detector copies a change of the template or of the policy.
ChangeReplicas(n) ==
    /\ Event
    /\ cmRB = rb
    /\ rb.replicas # n
    /\ rb' = Write(rb, [rb EXCEPT !.replicas = n])
    /\ UNCHANGED <<schedVars, evictVars, taint, reports, faults, owed>>

ChangePlacement(p) ==
    /\ Event
    /\ cmRB = rb
    /\ rb.placement # p
    /\ rb' = Write(rb, [rb EXCEPT !.placement = p])
    /\ UNCHANGED <<schedVars, evictVars, taint, reports, faults, owed>>

\* The workload rebalancer sets spec.rescheduleTriggeredAt to its own creation
\* time, which is later than an earlier trigger and "fresh" if it is also later
\* than the last success.
TriggerReschedule(fresh) ==
    /\ Event
    /\ Rebalance
    /\ cmRB = rb
    /\ fresh \/ (rb.last /\ ~rb.resched)
    /\ rb' = [rb EXCEPT !.resched = fresh, !.gen = @ + 1]
    /\ owed' = (owed \/ (fresh /\ rb.last))
    /\ UNCHANGED <<schedVars, evictVars, taint, reports, faults>>

ChangeTaint(c, t) ==
    /\ Event
    /\ taint[c] # t
    /\ taint' = [taint EXCEPT ![c] = t]
    /\ UNCHANGED <<rb, schedVars, evictVars, reports, faults, owed>>

\* The status controller rewrites the aggregated status from all the Works.
ReportHealth(healthy) ==
    /\ reports < MaxReports /\ reports' = reports + 1
    /\ cmRB = rb
    /\ rb.healthy # healthy
    /\ rb' = [rb EXCEPT !.healthy = healthy]
    /\ UNCHANGED <<schedVars, evictVars, taint, events, faults, owed>>

-----------------------------------------------------------------------------
Scheduler ==
    \/ OnResourceBindingUpdate
    \/ \E c \in Clusters : UpdateCluster(c)
    \/ Schedule
    \/ ScheduleNoClusterFit
    \/ ScheduleUnschedulable
    \/ ScheduleNotNeeded
    \/ PatchScheduleResult
    \/ PatchBindingStatusCondition
    \/ PatchObservedGeneration
    \/ PatchFails
    \/ RestartScheduler

Eviction ==
    \/ CacheBinding
    \/ \E c \in Clusters : \/ CacheCluster(c)
                           \/ SyncCluster(c)
                           \/ SyncBindingEvictionSkip(c)
                           \/ SyncBindingEviction(c)
                           \/ Expire(c)
    \/ SyncGracefulEviction
    \/ RestartControllerManager

Environment ==
    \/ \E n \in 1..MaxReplicas : ChangeReplicas(n)
    \/ \E p \in Placements : ChangePlacement(p)
    \/ \E fresh \in BOOLEAN : TriggerReschedule(fresh)
    \/ \E c \in Clusters, t \in Taints : ChangeTaint(c, t)
    \/ \E healthy \in SUBSET Clusters : ReportHealth(healthy)

Next == Scheduler \/ Eviction \/ Environment

(***************************************************************************)
(* Every queue has workers, every watch delivers, and time passes; users,  *)
(* reports and faults owe nothing.                                         *)
(***************************************************************************)
Fairness ==
    /\ WF_vars(OnResourceBindingUpdate)
    /\ WF_vars(Schedule \/ ScheduleNoClusterFit \/ ScheduleNotNeeded)
    /\ WF_vars(PatchScheduleResult)
    /\ WF_vars(PatchBindingStatusCondition)
    /\ WF_vars(PatchObservedGeneration)
    /\ WF_vars(CacheBinding)
    /\ WF_vars(SyncGracefulEviction)
    /\ \A c \in Clusters :
          /\ WF_vars(UpdateCluster(c))
          /\ WF_vars(CacheCluster(c))
          /\ WF_vars(SyncCluster(c))
          /\ WF_vars(SyncBindingEviction(c))
          /\ WF_vars(SyncBindingEvictionSkip(c))
          /\ WF_vars(Expire(c))

Spec     == Init /\ [][Next]_vars
FairSpec == Spec /\ Fairness

-----------------------------------------------------------------------------
(***************************************************************************)
(* Properties.                                                             *)
(***************************************************************************)
\* Every variable keeps its type, the half-done attempt of the scheduler included.
TypeOK ==
    /\ rb \in Binding /\ cmRB \in Binding /\ schedRB \in Binding
    /\ pending \in BOOLEAN
    /\ sched \in Attempt \cup {Idle}
    /\ taint \in [Clusters -> TaintKind]
    /\ schedTaint \in [Clusters -> TaintKind]
    /\ cmTaint \in [Clusters -> TaintKind]
    /\ evictQ \subseteq Clusters /\ expired \subseteq Clusters
    /\ owed \in BOOLEAN
    /\ events \in Nat /\ reports \in Nat /\ faults \in Nat

\* What a spec looks like that the scheduler would leave as it is.
Confirmed(b) ==
    IF Duplicated
    THEN \A c \in Targets(b) : /\ c \in b.placement
                               /\ ~ClusterInGracefulEvictionTasks(b, c)
                               /\ b.clusters[c] = b.replicas
    ELSE GetSumOfReplicas(b.clusters) = b.replicas

\* When schedulerObservedGeneration equals generation, the stored result is one
\* the scheduler stands by for that very spec, although it reads a stale copy
\* and patches spec and status separately and without a lock.
ObservedIsConfirmed == rb.obsGen = rb.gen => Confirmed(rb)

\* A confirmed result is not empty: "healthy on every target", by which the
\* graceful eviction controller drops a task, is never vacuously true.
ConfirmedSomewhere == rb.obsGen = rb.gen => Targets(rb) # {}

\* A task that has its timestamp keeps it until it ends (a late writer neither
\* restarts nor drops it), and ends only when its grace period is over or when
\* the object stored at that moment is scheduled and healthy on every target.
TaskEndsForCause ==
    [][\A c \in Clusters :
          rb.tasks[c] = "waiting" /\ rb'.tasks[c] # "waiting" =>
             /\ rb'.tasks[c] = "none"
             /\ \/ c \in expired
                \/ rb.obsGen = rb.gen /\ Targets(rb) \subseteq rb.healthy]_vars

\* A cluster that keeps an untolerated NoExecute taint ends up without the
\* binding, although a stale scheduling result may put it back meanwhile.
TaintedClusterIsLeft ==
    \A c \in Clusters :
       <>[](taint[c] = "noExecute") => <>[](~TargetContains(rb, c))

\* Every eviction task ends.
TasksEnd == \A c \in Clusters : rb.tasks[c] # "none" ~> rb.tasks[c] = "none"

\* The scheduler ends up having confirmed the current generation, unless no
\* cluster fits it.
SchedulerSettles ==
    <>[](rb.obsGen = rb.gen \/ FindClustersThatFit(rb, taint) = {})

\* A request to reschedule that no attempt has read is still visible.
RescheduleIsRemembered == owed => rb.resched

\* A confirmed generation is on clusters the placement selects.
ConfirmedWithinPlacement == rb.obsGen = rb.gen => Targets(rb) \subseteq rb.placement

=============================================================================
