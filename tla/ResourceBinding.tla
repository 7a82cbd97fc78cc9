--------------------------- MODULE ResourceBinding ---------------------------
(***************************************************************************)
(* The ResourceBinding object every controller of the failover path reads  *)
(* and writes, the copy of it in the informer cache of                     *)
(* karmada-controller-manager, and the helpers of the API package and of   *)
(* pkg/util that the controllers call on it.                               *)
(*                                                                         *)
(* One binding is modelled.  Its fields are                                *)
(*   gen, obsGen   metadata.generation, status.schedulerObservedGeneration *)
(*   replicas      spec.replicas of the template (a workload: at least 1)  *)
(*   placement     spec.placement, as the clusters its affinity selects    *)
(*   clusters      spec.clusters, as replicas per cluster, 0 if absent     *)
(*   tasks         spec.gracefulEvictionTasks, at most one per cluster:    *)
(*                 "new" has no creationTimestamp yet, "waiting" has one   *)
(*   applied       the policy-placement annotation, or NoPlacement         *)
(*   last          status.lastScheduledTime is set                         *)
(*   resched       spec.rescheduleTriggeredAt is set, and not before       *)
(*                 status.lastScheduledTime if that is set                 *)
(*   healthy       clusters whose item in status.aggregatedStatus says     *)
(*                 Healthy; an item that says otherwise and no item at all *)
(*                 are one case to every reader                            *)
(***************************************************************************)
EXTENDS Integers, FiniteSets, Functions

CONSTANTS
    Clusters,     \* the member clusters
    MaxReplicas,  \* bound on spec.replicas
    Placements,   \* the cluster affinities the policy may ask for
    Duplicated,   \* replicaScheduling is Duplicated (TRUE) or Divided (FALSE)
    NoPlacement   \* the annotation is not set

ASSUME ClustersAssumption == IsFiniteSet(Clusters) /\ Clusters # {}
ASSUME ReplicasAssumption == MaxReplicas \in Nat /\ MaxReplicas >= 1
ASSUME PlacementsAssumption ==
    Placements \subseteq SUBSET Clusters /\ Placements # {} /\ NoPlacement \notin Placements
ASSUME DuplicatedAssumption == Duplicated \in BOOLEAN

VARIABLES
    rb,    \* the object in the API server
    cmRB   \* the copy in the cache karmada-controller-manager's controllers share

Assignment == [Clusters -> 0..MaxReplicas]
TaskState  == {"none", "new", "waiting"}

Binding ==
    [gen : Nat, obsGen : Nat, replicas : 1..MaxReplicas, placement : Placements,
     clusters : Assignment, tasks : [Clusters -> TaskState],
     applied : Placements \cup {NoPlacement}, last : BOOLEAN, resched : BOOLEAN,
     healthy : SUBSET Clusters]

Nowhere == [c \in Clusters |-> 0]

\* A binding the detector has just created from a template and its policy.
CreatedBinding(n, p) ==
    [gen |-> 1, obsGen |-> 0, replicas |-> n, placement |-> p, clusters |-> Nowhere,
     tasks |-> [c \in Clusters |-> "none"], applied |-> NoPlacement, last |-> FALSE,
     resched |-> FALSE, healthy |-> {}]

(***************************************************************************)
(* The API server bumps metadata.generation exactly when spec changes;     *)
(* annotations and status are not part of it.                              *)
(***************************************************************************)
SpecOf(b) == <<b.replicas, b.placement, b.clusters, b.tasks>>

Write(old, new) ==
    IF SpecOf(new) = SpecOf(old) THEN new ELSE [new EXCEPT !.gen = old.gen + 1]

-----------------------------------------------------------------------------
\* Helpers of the API package and of pkg/util.
TargetContains(b, c) == b.clusters[c] > 0

Targets(b) == {c \in Clusters : TargetContains(b, c)}

ClusterInGracefulEvictionTasks(b, c) == b.tasks[c] # "none"

GetSumOfReplicas(assignment) == SumFunction(assignment)

\* No second task is built for a cluster that already has one.
GracefulEvictCluster(b, c) ==
    IF TargetContains(b, c)
    THEN [b EXCEPT !.clusters[c] = 0,
                   !.tasks[c] = IF ClusterInGracefulEvictionTasks(b, c) THEN @ ELSE "new"]
    ELSE b

IsBindingReplicasChanged(b) ==
    IF Duplicated
    THEN \E c \in Targets(b) : b.clusters[c] # b.replicas
    ELSE GetSumOfReplicas(b.clusters) # b.replicas

\* A trigger counts only after the first success; until then the binding waits
\* for that one.
RescheduleRequired(b) == b.last /\ b.resched

=============================================================================
