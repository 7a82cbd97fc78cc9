# A formal model of Karmada

Karmada runs workloads on many Kubernetes clusters from one control plane. Its
controllers never call each other: they share API objects, each reads them
through a cache that lags behind, and each writes back what it decided. What is
hard about it is therefore what several controllers do to one object, in an order
nobody chose. This directory holds TLA+ modules for the core of it, TLC
configurations that check them on small instances, and TLAPS proofs of what
holds on every instance.

    tlc -workers 2 -config MCFailoverDivided.cfg MCFailover
    tlapm Failover_proofs.tla

`PROJECT.json` lists the components, the runs, which lines each definition models
(`map`), the mutations each property is known to catch (`mutants`), the hazards
and the theorems.


## 1. Inventory

### The path of a workload

    template + policy --detector--> ResourceBinding --scheduler--> spec.clusters
       --binding controller--> Work per cluster --execution controller--> member
       --work status--> Work.status --binding status--> aggregatedStatus
       --detector--> template status

    cluster controller --taint--> Cluster --taint manager--> eviction task in the
       binding --graceful eviction controller--> task dropped --> Work removed

### Components

| Component | State it keeps | Operations | Interacts through |
|---|---|---|---|
| ResourceBinding API (`pkg/apis/work/v1alpha2`, `pkg/util/binding.go`) | the object: generation, replicas, placement, clusters, eviction tasks, status | helpers (`GracefulEvictCluster`, `IsBindingReplicasChanged`, ...) | read and written by everyone below |
| Scheduler driver and event handlers (`pkg/scheduler`) | informer cache, cluster cache, one attempt per worker | add/update/cluster events; `doScheduleBinding`; two patches | merge patches without resourceVersion |
| Scheduling queue (`pkg/scheduler/internal/queue`) | activeQ (heap, dirty, processing), backoffQ, unschedulableBindings, two locks | Push, Pop, Done, Forget, two pushes after failure, two flushes, Close | event handlers push, workers pop |
| Scheduling algorithm (`pkg/scheduler/core`, `framework`, `pkg/util/helper/webstermethod.go`) | none; the previous result | filter, score, select, divide replicas | from cluster snapshots and estimators |
| Scheduler cache (`pkg/scheduler/cache`) | assigning and assumed bindings (two feature gates) | add, remove, garbage collect | scheduler, informer events |
| Taint manager (`pkg/controllers/cluster/taint_manager.go`) | eviction queue (rate limited) | `syncCluster`, `syncBindingEviction` | updates bindings under the optimistic lock |
| Graceful eviction (`pkg/controllers/gracefuleviction`) | none but timers | stamp, assess, drop tasks | patches bindings under the optimistic lock |
| Detector (`pkg/detector`) | waiting objects, queues of templates and policies | claim, preempt, apply policy, lazy activation | creates and updates bindings |
| Workload rebalancer | status of its object | trigger reschedules, TTL | updates `spec.rescheduleTriggeredAt` |
| Binding controller (`pkg/controllers/binding`) | none | ensure Works, remove orphans, purge directly | creates, updates and deletes Works |
| Execution controller (`pkg/controllers/execution`) and object watcher (`pkg/util/objectwatcher`) | queue of Works, version record of each object, member informers | apply, delete or release a manifest, report Applied, remove the finalizer, handlers for member events | Works, objects in members |
| Work status controller (`pkg/controllers/status`) | queue of objects | register informers, reflect status and health | status of Works |
| Binding status controllers (same directory) | none | aggregate Works' status | status of bindings and of templates |
| Application failover | unhealthy-since cache | evict with `SuppressDeletion`, purge modes | updates bindings |
| Cluster and cluster status controllers | conditions, leases, condition cache | taint by condition, finalizers | taints of Clusters |
| Dependencies distributor | index of dependencies | attach and detach bindings | creates attached bindings |
| Federated quota, federated HPA, MCS, descheduler, estimators, search, operator, karmadactl | see `components` in PROJECT.json | | |

### Which behaviours are hard

* The scheduler decides on a cached copy, then sends the result and the status
  as two merge patches that overwrite whatever the object holds by then. Other
  controllers compare `schedulerObservedGeneration` with `generation` and act on it.
* The taint manager takes a cluster out of `spec.clusters`; a scheduling result
  computed before that puts it back.
* An eviction task keeps the old copy of a workload alive until the new one is
  healthy. Dropped too early the workload is gone for a while; never dropped, it
  runs twice for ever.
* The queue has two locks and a condition variable. Its `Pop` and `Done` run in
  the middle of a flush.
* The execution controller reads the member's object through an informer's cache,
  several times in one reconciliation, decides on what it saw and writes to a
  member in which others write, too. Events of the member are its only reason to
  look again, and it drops those it takes for its own.
* Execution and work status controller write the status of the same Work.
* The binding controller reads the Works it is about to write through a cache and
  is not woken by them: what it overlooks stays so until the binding changes.
* The binding status controller collects from one cache and skips a write on the
  word of another.
* Three kinds of worker of the detector write the same claim labels, each from its
  own copy of policies, template and binding.
* The scheduler has to know of its own last results before its informer shows them.
* Dividing replicas is arithmetic with ties, tiers, scarce room and a previous
  result that must not be disturbed.
* Either process may restart at any point; only what is in the object survives.

What makes each part correct: a confirmed generation must really be scheduled;
tasks must end for a cause, and must end; tainted clusters must be left; a
binding must be scheduled by one goroutine at a time, never twice in a queue,
never forgotten; a worker must not sleep while work waits; once the controllers
are at rest a member must have what its Work says and the Work must report what
the member has; what is not Karmada's must be left alone; a Work that is deleted
must go away, and not before its object; every cluster of a binding must have the
Work of the current template and no other cluster one; the status must be what the
Works say; a template must belong to a living policy that matches it; workloads of
an anti-affinity group must be apart; a division must be exact, fit and move nothing
without need. The hazards in
PROJECT.json are these, at the lines where they bite.


## 2. The modules

| Module | Models |
|---|---|
| `ResourceBinding` | the fields of one binding, generations, the API helpers |
| `Failover` | scheduler, taint manager, graceful eviction controller and the writers around them, sharing one binding |
| `MCFailover` | instances for TLC |
| `Failover_proofs` | theorems about `Failover` |
| `BindingQueue` | the abstract queue: what is asked for stays so until taken, and is held by one worker |
| `SchedulingQueue` | `activequeue` and `prioritySchedulingQueue`, with workers and event handlers |
| `MCSchedulingQueue` | instances for TLC |
| `SchedulingQueue_proofs` | theorems about `SchedulingQueue` |
| `Execution` | execution controller, object watcher and work status controller, on one Work and its object in a member |
| `MCExecution` | instances for TLC |
| `Execution_proofs` | theorems about `Execution` |
| `Propagation` | binding controller, from one binding to the Works of its clusters |
| `MCPropagation`, `Propagation_proofs` | instances for TLC; theorems |
| `BindingStatus` | binding status controller, from the Works back to binding and template |
| `MCBindingStatus`, `BindingStatus_proofs` | instances for TLC; theorems |
| `PolicyClaim` | detector: which policy a template belongs to |
| `MCPolicyClaim`, `PolicyClaim_proofs` | instances for TLC; theorems |
| `AssigningCache` | the scheduler's cache of assigning bindings and the anti-affinity plugin |
| `MCAssigningCache`, `AssigningCache_proofs` | instances for TLC; theorems |
| `Webster` | the Webster method, one seat at a time |
| `ReplicaDivision` | score, selection, overflow tiers and the four strategies; extends `Webster` |
| `MCReplicaDivision` | instances for TLC |
| `ReplicaDivision_proofs` | theorems about `Webster` and `ReplicaDivision` |

Definitions named "Mutant" are wrong variants of the definition that follows
them; no specification uses them. They document which bug a property would catch.

### `Failover`

| State | In the code |
|---|---|
| `rb` | the object in the API server |
| `schedRB`, `schedTaint` | the scheduler's caches of bindings and clusters |
| `cmRB`, `cmTaint` | the caches of karmada-controller-manager |
| `pending` | the binding is in the scheduling queue |
| `sched` | local variables of the attempt under way: generation read, patches to send |
| `evictQ` | keys in the taint manager's eviction worker |
| `expired` | which tasks outlived their grace period |
| `owed` | history: a reschedule was asked for and not read |

A cache only moves forward, to what is stored. A merge patch holds the fields in
which the result differs from the copy that was read, as `GenMergePatch` computes
it; the API server bumps the generation exactly when the spec changes. The
optimistic lock is "the cached copy is the stored one"; a refused write is retried
from its queue and changes nothing, so it needs no action.

`TriggerReschedule(fresh)` writes the creation time of the WorkloadRebalancer.
That time is "fresh" if it is later than the last successful scheduling, and
`PatchBindingStatusCondition` sets that one to now: a comparison of two timestamps
becomes the Boolean field `resched`.

Simplifications, all of the data or of a stated subset of inputs: one cluster
affinity; workloads with at least one replica; no spread constraints; no
terminating clusters, suspension or deletion of the binding; no empty workload
propagation; taints are untolerated ones; no `SuppressDeletion` (only application
failover sets it); clocks of the processes agree; the cluster event and the
asynchronous worker that re-queues bindings for it are one step. Duplicated
assignments are exact; for Divided, `AssignReplicas` may return any division over
the clusters that fit, which includes each one the weights produce.

### `SchedulingQueue`

An info is its priority, and `older` is the order of the timestamps. `bq.lock` is
held while `moving` is not empty: a flush or an event handler moves one info after
the other to activeQ and deletes it from the other queues in a later step, so that
`Pop` and `Done`, which take activeQ's lock only, run in between. Backoff and the
stay in `unschedulableBindings` are over whenever the model wants. `Change` is an
update of something the scheduling of the binding depends on; `notify` counts the
events the handlers have yet to see. `settled` and `saw` are history: whether a
successful attempt has read the last change.

### `Execution`

| State | In the code |
|---|---|
| `workLog`, `objLog` | the Work in the control plane and the object in the member, with every version they have had; a position is a resourceVersion, a deletion is a version `Absent` |
| `workCache`, `objCache` | the versions in the two informers' caches |
| `informer` | not started, started, or known to be synced (`IsInformerSynced`, which a controller refreshes) |
| `events` | events the execution controller's handlers have not run for yet |
| `record` | `VersionRecord` of the object watcher |
| `queued`, `ctl` | the Work's key in the workqueue; the local variables of the reconciliation under way |
| `statusOn`, `statusQ`, `stat` | the status controller's handler, its queue, the status about to be written |
| `ready`, `left` | the Ready condition of the cluster; how often the outside may still move |
| `overlooked` | history: what the code passed over and will not come back to |

A reconciliation is cut where the world can move: the read that decides between
create and update, the second read and the call in `Create`, the call in `Update`,
the record of the version, the condition; for a deletion the check, the call and
the finalizer. Everything an informer, a handler, the other controller, the binding
controller or somebody in the member does may come in between. `Restart` may too,
and `CallFails` lets a call report an error with or without having taken effect.

Simplifications: one Work with one manifest (which is all the binding controller writes)
in one life; no suspension (the Dispatching condition is written, and is True); no
cluster that is leaving; no finalizers in the member; `UpdateStatus` reads the Work when
it writes, `Reconcile` when it starts, and for the Dispatching condition, which comes
first, the two reads are one; reads of the member do not fail (`helper/cache.go:107`);
the informer manager exists (the cluster status controller creates it); the status
handler queues its key when the cache changes; `Delete` and the removal of the version
record are one step; the message of the Applied condition is left out. `Warm` says that
other Works of the same kind have the informer running already, `Reports` that the
status controller is enabled.

No guard reads `overlooked`; the properties about a controller at rest except what is in
it. "object": `Create` was content with an object that is not what the Work asks for; the
informer's first list showed none where there had been one; or the handlers were shown
one and let it pass, because the version of the last call was not on record yet, because
no version was recorded at all, or because it was a foreign object in an add event.
"record": `Create` was content without recording a version. "status": a status was not
written because the cached Work had it, and the stored one did not. A later look takes
the entry away. Each of these is necessary: without any one of them TLC finds a
counterexample (section 5 has the shortest of them).


### `Propagation`

| State | In the code |
|---|---|
| `rb`, `works` | the binding and the Work of each cluster in the API server |
| `cmRB`, `cmWorks` | the same in the manager's caches |
| `template`, `override` | the template and what the override policies make of it |
| `unrecorded` | the detector has not yet written the template's change to the binding |
| `queued`, `sync` | the binding's key; the local variables of the reconciliation under way |
| `missed` | history: clusters whose Work was left alone on the word of an older copy |

A reconciliation is cut at every cached read and every write: the finalizer, the list
of Works from which orphans are found, each deletion, the wait for Works that are
purged Directly, `ensureWork` cluster by cluster with the failures it collects, for a
deletion the list, the deletions and the finalizer. Scheduler, taint manager,
application failover and dependencies distributor are one action each: what they may
write to the binding. The execution controller is what it does to a Work that is being
deleted. Left out: what the interpreter and the overrides put into a manifest (a pair
of names), the division of Job completions, suspended dispatching.

### `BindingStatus`

A watch is a queue of versions; a restart replaces caches and watches by a list. A
reconciliation reads the binding, collects the Works, writes the aggregated status
unless the cached binding already has it, then the template's status. The event
filters (a Work's status changed, a Work went, the binding records another version of
the template) are those of `workPredicateFn` and `bindingPredicateFn`. `excused` is
history: since the last list an update was left out because of an old copy, or no event
woke the controller (section 5).

### `PolicyClaim`

One namespaced template that is not deleted, and the policies of its namespace. A
policy has a permanent ID per incarnation, a priority, the precision with which it
matches (0: not), whether some selector names the template's kind at all (which decides
what its deletion lists) and a version per edit. The Processor's worker finds or applies a
policy, claims the template and writes the binding; the policy worker lets go of
templates it no longer matches, looks at the waiting list, preempts, and cleans up when
the policy is deleted.

The template has a resource version, which the informer's copy (`cacheVersion`), the
Processor's copy and the binding built from it hold as well: a write from another version
is refused, and a rewritten template makes a binding different although claim and policy
are the same. Versions are only compared for equality and at most four copies hold one,
so five numbers are enough (`NewVersion` takes a free one). For the binding, whose version
is only ever compared with the present one, `bindingFresh` says who holds that.

An absent override that a policy depends on sends the template's key back before anything
has changed, which is no step; in the policy's worker it keeps the waiting templates in
the list (`WaitForOverrides`). A relist that delivers what is cached already is no step
either: the generation check of the update handler drops it.

`stale` is history: a worker went on with a copy of a policy that had been edited
("policy"), took another policy of the same name for the claim's ("id"), looked for its
claims in bindings that did not show them ("list"), deleted a policy whose selectors
named other kinds by then ("kind"), or left a binding as it was on the word of a cached
one or of a list of templates ("binding"). Left out: ClusterPropagationPolicy (the same
code on another type, with lower precedence), lazy activation, cluster-scoped templates.

### `AssigningCache`

All bindings are of one anti-affinity group. `log` has the versions of a binding,
`indexed` is the one in the informer's indexer and `seen` the last one its handler was
told of: the handler lags behind the indexer, the indexer behind the server. `items` is
`AssigningResourceBindingCache.items`; `cycle` is the scheduling of one binding, from
its copy over the snapshot of the items, the filter that lays them over the indexer,
cluster by cluster, and the patch to `Add`. `last`, `blind` and `late` are history. Left out: the assumptions of the
gate SchedulingOvercommitProtection, the affinity plugin, suspended bindings.

### `Webster` and `ReplicaDivision`

`Webster` is `AllocateWebsterSeats`: `party` holds votes, seats and the seats left, and
a step gives a seat to the head of the priority queue. Quotients are compared exactly;
the code's float64 values agree with that while votes and seats are below 2^26.
`ReplicaDivision` is what `Schedule` does after the filters. `Schedule` takes the
arguments of one call (replicas, feasible clusters, what each estimator reports, the
placement, whether a fresh division is asked for) and sorts and selects; one action per
strategy computes the votes of a tier's clusters; the seats are steps of `Webster`
(`DivideTier`); `FinishTier` adds them up, and `Return` makes the result the previous
result of the next call, or clears it if no cluster passed the filters. A workload of no
replicas goes to the selected clusters as it is if it has no requirements
(`propagateToAll`), and through the division otherwise. Clusters with no replicas are
left out of the result by `removeZeroReplicasCluster` or added again by
`attachZeroReplicasCluster`; both are a 0 here.

A placement has a spread constraint or has none, and MaxGroups, which is optional, is 0
where it is left out: the constraint then allows no cluster, as in the code. Static weights
make the scheduler ignore spread constraints, a `WeightPreference` that says nothing does
not (`emptyPreference`). int32 sums wrap at `MaxInt32`, which the instance sets to 127 for
2^31-1. Overflow tiers come with dynamic strategies only (`OverflowAssumption`): the
webhook refuses other placements (`pkg/util/validation/validation.go:109`). The loop that
exchanges selected clusters for larger ones is the recursive function `after`, the sums
are folds, and the sorted clusters are the one sequence `sortClusters` allows. Left out:
spread by region, zone, provider or label; workloads with several components and the
estimator for them.


## 3. What TLC checks

| Run | Instance | Shows |
|---|---|---|
| `failover_divided` | 2 clusters, up to 2 replicas, placements that exclude each other, all taints, reschedules; 1 event, 1 report, 1 fault | a confirmed generation is really scheduled; tasks end for a cause |
| `failover_duplicated` | 2 clusters, 1 replica each, a placement that grows or shrinks, `NoExecute`; 1 event, 2 reports, 1 fault | a confirmed binding is scheduled somewhere although an emptied result counts as "replicas unchanged" |
| `failover_liveness` | 2 clusters, Divided; 1 event, 1 fault; `FairSpec` | tainted clusters are left, tasks end, the last generation is confirmed |
| `queue` | 2 bindings, 2 workers, 2 priorities, 2 changes, may be closed | nothing forgotten, no lost wake-up, implements `BindingQueue`, in which a binding is held by one worker |
| `queue_liveness` | 2 bindings, 2 workers, 1 priority, 1 change; `FairSpec` | every change reaches a worker |
| `execution` | 1 manifest, warm informer, status reported; a removal with a restart, a failed call and an unready cluster, or with a restart and a change of health, or with a deletion in the member; 2 changes of health with a restart or with a deletion; `FairSpec`; 1,153,139 states | `DeletionEnds`; `QuietMeansReported` |
| `execution_shared` | 2 manifests, cold informer, Preserve; 2 updates and an edit; an update, 2 deletions and a foreign object; a restart with an update and an edit or with a deletion and a foreign object; an update, an edit, a deletion, a foreign object and a failed call; a removal, an edit, a foreign object, a restart and a failed call; symmetric; 5,115,711 states | `QuietMeansSynced`; `UnmanagedNotOverwritten`; `GoneLeavesNothing` |
| `propagation` | 2 clusters, 2 templates, 2 overrides, a dependent in the first cluster; 2 events, 2 faults; `FairSpec`; 500,201 states | at rest every cluster has the Work it should have; a binding that is gone leaves none; an instance purged Directly goes before a new one comes; the controller comes to rest; a deleted template takes its binding with it |
| `binding_status` | 2 clusters, 2 reports; 3 events, 1 fault; `FairSpec`; 669,200 states | at rest the aggregated status is what the Works say, FullyApplied is not premature, the template shows the binding's status; the controller comes to rest |
| `policy_claim` | 2 policies; the first exists at first and selects another kind, or the template with a priority below or above that of the second, which preempts; 2 events (faults included); `FairSpec`; 1,057,223 states | no matching policy is missed, no claim of a dead policy stays, the claim is the present one, the binding follows it (exceptions: section 5); the detector comes to rest |
| `assigning` | 2 bindings, 2 clusters, 4 writes, 1 fault; symmetric; 3,573,074 states | bindings of an anti-affinity group do not share a cluster (exceptions: section 5); the cache releases its items |
| `division` | 3 clusters, 0, 1 or 4 replicas, reports unknown, 0, 1 or 3, twelve placements (two with a constraint without MaxGroups, one with an empty preference), any sequence of calls; 513,639 states | divisions are exact, fit, disturb nothing, fill tiers in order, aggregate, fail only if they must; each tier is a Webster division |

The types of the proved modules (section 4) are theorems and no run repeats them.
`MCReplicaDivisionMore.cfg` checks the types and `FullTogether` on the instance of
`division`, and `MCPolicyClaimMore.cfg` the invariants of `policy_claim` with two policies
that may each select other templates of the kind besides (2,574,852 states); they hold.

**Bounds.** Two clusters are the fewest between which a workload can move. One event
suffices for a hazard because the first scheduling counts as another, and every actor
may be stale and late about both; the counterexamples of section 5 need more events and
have them. `MaxFaults` bounds refused patches, capacity shortages, restarts and
decisions on stale taints together: without a bound on the last kind, scheduler and
taint manager could trade a cluster back and forth for ever, each from a cache that
never catches up. Two workers and two bindings give every pair of queue operations; a
third of either would add a repetition of a case that exists. In `Execution` every step
is an interleaving point, so one or two moves of each kind meet every state of the
controllers; two manifests are what it takes for an object to be wrong, and in runs
without updates and edits one is enough. Manifests are only ever compared, which makes
exchanging them a symmetry. Both runs have every kind of move their properties are
about, each kind twice or together with the others it could meet; what the code then
overlooks is recorded and not kept out by the choice of moves. `execution_shared` removes a Work only without Overwrite, with which a cached
copy from before Karmada took the object over passes for a released one. (It also has no
deletion in the member together with a removal, to stay small; the proof of
`GoneLeavesNothing` covers both together.) A restart before the first step makes the
warm informer a cold one. In `Propagation` two clusters are an old and a new one, and
two events and two faults around an initial scheduling meet each step of a
reconciliation; in `BindingStatus` three events are the fewest with which a report, a
change of the clusters and a change of the template meet; in `PolicyClaim` two policies
suffice for every pair of workers and for a preemption, and two events for a policy that
is created and edited, edited to another kind and deleted, or deleted and created again,
and three priorities let one policy drop from above the other to below it; in
`AssigningCache` four writes let both bindings be scheduled, one be deleted and created
or moved. Three clusters in `ReplicaDivision` are two that compete in a tier and one in
another; four replicas exceed the room of a cluster, one is less than the clusters, and
zero is the special case of the estimators. The proofs remove the bounds for the
properties they cover. Deadlock is checked for `ReplicaDivision`, which always has
another call; elsewhere, with the bounded events used up, a system at rest is the
intended end.

**Fairness.** Each queue has workers, each watch delivers, timers fire, a patch
is sent or fails: weak fairness of those actions. Users, reports, faults and
capacity owe nothing. In `Execution` the same: workers, calls, watches and
handlers are weakly fair; `DeletionEnds` supposes that the cluster is ready from
some point on. In `Propagation`, `BindingStatus` and `PolicyClaim` informers
deliver and workers do not stop; the controllers around them (garbage collector,
detector, member clusters finishing a deletion) do what they owe, and an eviction task
ends by its timeout at the latest. In the queue, `bq.lock` is a `sync.Mutex`, which hands itself to
a waiter starved for a millisecond; taking it is strongly fair.
`EveryChangeIsTaken` is stated for equal priorities: with different ones a busy
queue starves the lowest by design.


## 4. What TLAPS proves

For every finite set of clusters, workers, bindings and policies, every set of
placements, templates, overrides, manifests and reports, any number of replicas,
priorities and weights, and any bound on events, faults and outside moves:

| Module | Theorem | Says |
|---|---|---|
| `Failover_proofs` | `TypeCorrect` | the types |
| | `ObservedGenerationIsConfirmed` | `ObservedIsConfirmed` |
| | `ConfirmedSomewhereAlways` | `ConfirmedSomewhere` |
| | `EvictionTasksEndForCause` | `TaskEndsForCause` |
| `SchedulingQueue_proofs` | `QueueTypeCorrect` | the types |
| | `NeverTwoWorkers` | `NoConcurrentProcessing` |
| | `NeverQueuedTwice` | `QueuedOnce` |
| | `NoChangeIsForgotten` | `NoBindingForgotten` |
| | `NoWakeupIsLost` | `NoLostWakeup` |
| | `QueueImplementsBindingQueue` | the refinement, `Implements` |
| `Execution_proofs` | `ExecutionTypeCorrect` | the types: every version anybody holds is in its log |
| | `UnmanagedIsSafe` | `UnmanagedNotOverwritten` |
| | `GoneIsReleased` | `GoneLeavesNothing`, with `Preserve` and without `Overwrite` |
| | `RestMeansSynced` | `QuietMeansSynced` |
| | `RestMeansReported` | `QuietMeansReported` |
| `Propagation_proofs` | `TypeCorrect` | the types |
| | `RestMeansPropagated` | `QuietMeansPropagated` |
| | `GoneIsGone` | `GoneLeavesNoWork` |
| | `OldGoesFirst` | `OldBeforeNew` |
| `BindingStatus_proofs` | `TypeCorrect` | the types |
| | `StatusReflectsWorksAlways` | `StatusReflectsWorks` |
| | `TemplateReflectsBindingAlways` | `TemplateReflectsBinding` |
| `PolicyClaim_proofs` | `TypeCorrect` | the types |
| | `NoPolicyMissedAlways` | `NoPolicyMissed` |
| | `ClaimIsAliveAlways` | `ClaimIsAlive` |
| | `ClaimIsCurrentAlways` | `ClaimIsCurrent` |
| | `BindingFollowsClaimAlways` | `BindingFollowsClaim` |
| `AssigningCache_proofs` | `TypeCorrect` | the types |
| | `SeparatedAlways` | `Separated` |
| | `ItemsAreReleasedAlways` | `ItemsAreReleased` |
| `ReplicaDivision_proofs` | `WebsterIsBalanced` | `WebsterSpec => []Balanced` |
| | `WebsterFillsTogether` | `WebsterSpec => []FullTogether` |
| | `TypeCorrect` | the types |
| | `DividesExactly` | `ExactlyDivided` |
| | `StaysWithinCapacity` | `WithinCapacity` |
| | `MovesNothing` | `Undisturbed` |
| | `TiersFillInOrder` | `TiersInOrder` |
| | `RefusedOnlyWithoutRoom` | `PlacedWhenPossible` |
| | `UsesFewestClusters` | `FewestClusters` |
| | `DivisionIsBalanced` | `Balanced` |

Assumptions: those stated with the constants (`ClustersAssumption`,
`ReplicasAssumption`, `PlacementsAssumption`, `DuplicatedAssumption`,
`BoundsAssumption`, `QueueAssumption`, `ExecutionAssumption`,
`PropagationAssumption`, `AbsenceAssumption`, `BindingStatusAssumption`,
`PoliciesAssumption`, `ContentsAssumption`, `NoneAssumption`, `AssigningAssumption`,
`GoneAssumption`, `WebsterAssumption`, `DivisionAssumption`, `OverflowAssumption`). TLC
evaluates them on each instance. They are
about types and bounds, and about names for "nothing" being no object.

One theorem about `Execution` has a hypothesis besides: `GoneIsReleased` is about
`Preserve` without `Overwrite` (section 5 has the counterexample without `Preserve`; with
`Overwrite` a cached copy from before Karmada took the object over passes for a released
one). The run `execution_shared` has `Preserve` and no `Overwrite`. The others hold for
any number of moves of every kind.

The theorems about `ReplicaDivision` suppose `FitsInt32`: some bound on spec.replicas and on
what the estimators report (MaxInt32 counts as no report) is so small that twice that bound for
every cluster fits into an int32. With 2^31-1 and a thousand clusters that is a million
replicas per workload and cluster. Without it the code's int32 sums wrap and a division
may fail or be wrong (section 5, item 7, is the case that needs no large number; the
theorems cover zero replicas as well, for what they say of it). The run's module assumes
`FitsInt32`, so TLC evaluates it on the instance of `division`, where it holds with the
bound 4.

**Why a confirmed generation is right although nothing is locked.** The status
patch carries the generation of the copy that was read. If that is still the
stored generation after the result patch, then the result patch changed nothing in
the spec, so the copy read, the stored spec and the result agree. The inductive
invariant has to say this about every copy in flight: `CacheIsPast` (a cached copy
with the stored generation has the stored spec, and none is from the future),
`AttemptIsSound` (an attempt that is going to succeed holds a result that is right
for the spec with its generation, or will bump the generation), and that no
observed generation is ahead of the generation.

**Why tasks end for a cause.** Of the writers only the graceful eviction
controller removes or stamps tasks, and it holds the optimistic lock, so what it
read is what is stored. The scheduler writes without one, but only
`spec.clusters`.

**Why a confirmed binding is somewhere.** The scheduler reads "the replicas have not
changed" off a sum, so an emptied result could pass for a good one. `Placed` says that
a result is right for its spec and not empty; `ObservedIsPlaced` carries it
through the same induction. It needs one fact about sums: a function that is zero
everywhere sums to zero (`NowhereSumsToNothing`). With no induction over data available
it is proved from a smallest counterexample, by the well-founded order on cardinalities.

**Queue.** `QueueInv` ties the worker goroutines to the sets: a binding is in
`processingBindings` exactly while some worker holds it, and then one only; the
heap is the dirty bindings nobody processes; a binding is in at most one of
backoffQ and unschedulableBindings, except for the one `moveToActiveQ` is about to
delete there. The refinement maps `todo` to all three queues and the infos a flush
holds. For the wake-ups `Enough` counts: while some goroutine sleeps there are at least
as many ready ones as entries in the heap. Every entry comes with a signal, which makes
one sleeper ready if there is one (`OneMoreReady`, `SignalMakesUp`); a ready goroutine
stops being one by taking an entry, or goes to sleep on an empty heap.

**Why an object of somebody else is safe.** The decision to update is taken on a
cached copy, but the update carries the resourceVersion of exactly that copy.
`LockedIsAllowed` says so of every reconciliation that is about to update or
release: the version it holds is in the log and is one that `allowUpdate` accepts.
Logs only grow, so no other actor can make that false; and if the API server
accepts the write, that version is the stored one. Deletion has no such lock
(section 5).

**Why a Work leaves nothing of Karmada's behind** (`GoneIsReleased`). A reconciliation
gets to the finalizer by a step that leaves the object released or deleted
(`FinalizerStep`), a release being an update under the lock. From there on it is not
Karmada's (`NotOurs`): `DeletionStays` says that a Work being deleted stays so in every
later version, `PhaseFits` that a reconciliation which read such a Work only cleans up,
and `NobodyApplies` that after the Work no cache and no reconciliation asks for the
object again.

**Why rest means synced and reported.** Events are the only thing that wakes the
controller, so the invariant `SyncInv` follows the last version the handlers have seen
(`Handled`). `EventsChained`: the events that wait lead from there to the cache, version
by version. `Promised`: once the controller is content (idle, or about to report
success) or about to record a version, and its key is not queued, the version last
handled or a later one is what the Work asks for, unless "object" is in `overlooked`.
When an event shows a wrong object, `IsNews` decides whether the key is queued, so the
record matters too: `Recorded` says that the version on record is one the Work asks for,
unless "record" is overlooked, and `RecordFits` the same of the version about to be
recorded; a wrong version is then not the recorded one, and is news; a deletion always
is. `ReadCurrent` says that a reconciliation works on the manifest of the cached Work or
will be repeated, and `DeletionStays` and `PhaseFits` keep the reconciliations of a Work
that is being deleted apart. At rest no event waits, so the version last handled is the
stored one, and there is no later one. For the health `Reported` does the same in one
step: what is written or about to be written (`Shown`) is the health of the cached
version of the object or of a later one, unless the key is queued or "status" is
overlooked.

**Why rest means propagated.** The controller is not woken by Works, so its last
reconciliation must have left each of them right. The inductive invariant of
`Propagation` says how far a reconciliation has come: `CacheIsPast` (the cached binding
is the stored one or an older generation), `SyncFitsCopy` (what is left to do is what
the copy it read asks for), `SeenOrMissed` (an orphan that the cache does not show is
counted in `missed`), `DeletedSoFar`, `DoneSoFar` and `PurgedFirst` (the clusters the
reconciliation has passed are as they should be) and `GoneLeavesNoWork`. If the binding changed since
it was read the key is queued, and nothing is claimed; if not, at the end every cluster
has been passed.

**Why the status is what the Works say.** `Watched` says that a cache and the versions on
their way to it end in what is stored, and that consecutive versions of a Work differ as
API objects can (`Follows`). `Collected` then relates items to cached Works, not stored
ones: unless the key is queued or an exception is recorded, what was collected, and later
what was written, says of each cached Work what its events have announced (`Says`). At
rest the watches are empty and the cache is the store. `TemplateSettled` is the same one
step on, and `AppliedAsWritten` ties FullyApplied to the items it was computed from.

**Why a claim is of a living policy.** Each worker holds copies; `PoliciesInOrder`,
`SyncFits` and `WorkerFits` say how old they can be: at most as new as the cache, which
is of the same incarnation as the policy or knows it to be deleted. `ClaimKept` says that
a claim the Processor has read is being cleaned up, is being replaced, or is `Guarded`:
its policy exists, and if it is being deleted, the policy's own worker has yet to clean
up, unless its list is going to be of other kinds, which is recorded ("kind").
`NothingMissed` is the handshake over the waiting list: a template without a claim is
about to be tried or in the list, and then every policy that matches has yet to look at
the list. `BInv` adds the binding: `BindingGuarded` and `UnbindFits` say who is going to
take a claim off it, and `BindingBuilt` that, once the Processor has read the template as
it is, it is about to build the binding from exactly that version (`Building`), or the
binding has that version and the edit of the cached policy, or the policy has yet to be
handled (`Built`).

**Why anti-affinity holds across a cache.** `Known(b)` is what the scheduler could know of
a binding: its own last result or what the indexer has, whichever is newer. `KnownApart`
is the property for these versions. Every step but the scheduler's patch only shrinks
`Known` ("calm" steps: other writers remove clusters, informers move forward), and the
patch assigns only clusters its filter saw free: `FitIsFree` carries that from filter to
patch, and `InSight` says that the last result is in the cache or in the indexer.

**Why a division is balanced.** A seat lowers the quotient of the party that gets it
and of no other (`SeatLowersQuotient`), and that party had the highest one
(`HeadIsHighest`); hence the quotient each party had before its last seat stays at
least as high as every quotient now (`SeatKeeps`). `FullTogether` follows by the same
induction: a party with as many seats as votes has a quotient below that of any party
with fewer (`FullGoesLast`).

**How sums and sorted lists are reasoned about.** The provers do not instantiate the
library's induction theorems, which take a predicate, so `ReplicaDivision_proofs` starts
with induction over a set of what is good: `EverySubset` (a set of subsets with the empty
one, closed under one element more, has the whole finite set) and `EveryNumber`, both from
the least element of a set of numbers. From these come the existence and uniqueness of
the fold behind `Sum` (`SumsExist`, `SumsAgree`), its equation, and the facts the proofs
use: it does not depend on the order, it is additive, monotone, and the largest elements
have the largest sum (`SumLargest`). `SortedExists` builds the sorted list from the rank of each cluster (how
many sort before it).

**Why a division is exact, fits and moves nothing.** The inductive invariant `DInv`
follows one call. `CallFits`: the call works on the binding's present result, and its
numbers keep int32 sums exact. `TiersFit`: the tiers divided so far are full, lie below
those still to be divided, and with what is left make up spec.replicas; a tier is left
with less than the rest only when it is full, which gives `TiersInOrder`. `TierFits`: what
the tier under way keeps and the seats it is going to have (`Target`, which no seat
changes) are its share; the seats are no more than the votes, and kept replicas plus votes
no more than the room. With `FullTogether`, seats that do not exceed the votes in sum
exceed none of them (`SeatsWithinVotes`): that is `WithinCapacity`, and since votes are
the present replicas when scaling down and what is kept is the present result when scaling
up (`Steady`), also `Undisturbed`. Each action keeps it by `DynamicKeeps` or `DispenseKeeps`,
with the votes it passes; `FinishKeeps` closes a tier.

**Why a refusal is justified.** `Exchanged(a, n, s, k)` is the invariant of the exchange loop
at its k-th cluster: unless there is enough room, the clusters from the k-th on are no
smaller than any of the rest, so at the end the selected ones are the largest (`SelectionIsBest`),
and if their sum is too small every choice of as many is (`SumLargest`). Dividing fails
only when the tier has no room, which with tiers never happens: a tier is asked for no
more than it has (`TierNoRoom`).

**Why an aggregated division uses few clusters.** Without the last of the clusters it
keeps there is no room (`AggregateFacts`); for a fresh division they are the largest, so no
smaller set has room (`AggregateIsLeast`); for one that adds replicas the clusters in use come
first, so a new one among them means that those in use were not enough
(`AggregateTakesPriorFirst`). `Frugal` carries this through the seats to the result, where
`SeatsWithinVotes` rules out that a cluster without votes is used.

**Only model-checked.** Liveness and the fairness it rests on, with ENABLED: `TasksEnd`,
`TaintedClusterIsLeft`, `SchedulerSettles`, `EveryChangeIsTaken`, `DeletionEnds`, the three `Settles` and
`TemplateTakesBinding`. Every invariant, action property and refinement of a run is a
theorem.


## 5. What the code does not promise

Properties that a comment, a doc or a reader would expect, and that TLC refutes. None
is part of a run; each is stated in its module and can be reproduced with

    tlc -workers 2 -config <cfg> MC<module>

1. **A reschedule can be lost** (`MCFailoverReschedule.cfg`, `RescheduleIsRemembered`,
   `scheduler.go:1020`). The status patch sets `lastScheduledTime` to the end of an
   attempt, not to the time at which it read the binding. A trigger in between looks
   older than a scheduling that never saw it, and is ignored; the rebalancer has
   already reported success.
2. **A confirmed result outside the placement** (`MCFailoverPlacement.cfg`,
   `ConfirmedWithinPlacement`, `scheduler.go:702`). A result from a stale copy replaces
   `spec.clusters` but leaves out the annotation when the copy's one was up to date. The
   next attempt compares the annotation of the newer placement with it, sees no change,
   and confirms clusters the placement does not select. It takes a placement changed and
   changed back while the scheduler's cache lags. The same rule is why
   `ObservedIsConfirmed` speaks of the placement for Duplicated bindings only, which are
   scheduled every time.
3. **A raised priority can be lost** (`MCSchedulingQueuePriority.cfg`,
   `PopsHighestPriority`, `active_queue.go:182`). A push of a binding that is being
   processed keeps the key only; `Done` queues the old info again.
4. **An update can be lost** (`MCExecutionUpdateLost.cfg`, `AlwaysSynced`,
   `objectwatcher.go:105`). `Create` reads the cache again and is content with any
   object. If it is the one an earlier reconciliation created, its add event has the
   recorded version and is ignored: the member keeps the old manifest and the Work is
   Applied.
5. **A Work can go before its object** (`MCExecutionLeak.cfg`, `GoneLeavesNothing`,
   `objectwatcher.go:218`). A cache that does not show the object yet counts as an
   object that is gone; the finalizer is removed and the object stays in the member.
6. **A policy that could preempt is not queued** (`MCPolicyClaimPreempt.cfg`,
   `DeprioritizedIsPreempted`, `preemption.go:282`). When a policy loses priority, the
   policies strictly between the new and the old priority are queued. One with exactly
   the old priority could not preempt before, can now, and is left out.
7. **Zero replicas may be unschedulable** (`MCReplicaDivisionZero.cfg`, `ZeroIsPlaced`,
   `core/util.go:69`, against the comment at `core/util.go:100`). For a workload with
   zero replicas each cluster counts with MaxInt32; on a fresh division the int32 sum of
   an even number of them is negative, less than zero, and the result is "not enough
   replicas".
8. **An edited policy can leave its claim when it is deleted** (`MCPolicyClaimKind.cfg`,
   `DeletionFreesTemplate`, `detector.go:1171`; "After a policy is removed, the label and
   annotations claimed on relevant resource template will be removed",
   `detector.go:1165`). Deletion lists the kinds the selectors name now. If they were
   edited to another kind, and the worker did not handle that edit before the deletion,
   it lists nothing and the finalizer goes. The claim stays; the Processor cleans it up
   only if the template's key is queued again for another reason.
9. **A spread constraint without MaxGroups refuses everything**
   (`MCReplicaDivisionUnlimited.cfg`, `UnlimitedIsPlaced`,
   `select_clusters_by_cluster.go:35`). MaxGroups is optional ("MaxGroups restricts the
   maximum number of cluster groups to be selected", `propagation_types.go:536`) and the
   webhook accepts 0 (`validation.go:287`); the selection takes it for a limit of 0
   clusters, and every workload with replicas is unschedulable.
10. **A status that changes back is not reported** (`MCExecutionFlapping.cfg`,
   `AlwaysReported`, `helper/status.go:63`). It is compared with a cached Work that does
   not show the first change, and skipped; the warning at `helper/status.go:40` is about
   this.

The passing properties of several modules have exceptions, kept in the history
variables. Without them, on the constants of the module's run:

| Property | Instance | What happens |
|---|---|---|
| `EveryWorkEnsured` | `propagation` | `ensureWork` compares with a cached Work; one that looks up to date hides a stored one that is not (written, or being deleted, by the previous reconciliation), and no event of the Work brings the controller back (`ctrlutil/work.go:67`, `common.go:52`). |
| `NeverTwoInstances` | `propagation` | The wait for purged instances looks at the cache; a Work created just before is not in it yet (`binding_controller.go:174`; "the old application is removed before creating a new one", `propagation_types.go:293`). |
| `AlwaysSeparated` | `assigning` | Two workloads of a group share a cluster after the answer of a patch is lost, after a deletion event removed the item of a binding that was created again (`cache.go:199` compares no versions), or when a binding is scheduled again from a copy older than its own last result (`propagation_types.go:624`). |
| `SkippedUpdatesConverge` | `binding_status`, `Spec`, `MaxEvents = 4`, `MaxFaults = 0` | A status that changes and changes back is compared with a cached binding that lacks the first change and is skipped; the binding keeps the value in between (`util/helper/status.go:46`). |
| `StatusReflectsWorks` without `excused` | `binding_status` | A restart between the scheduler's result patch and the patch that sets `lastScheduledTime` hides the binding from the new process (`status/common.go:61`); a relist shows a Work that went and came back as unchanged, or one that came and was reported on as new, which is no update (`Unannounced`). |
| `SelectorChangeFreesTemplate` | `policy_claim` | A policy finds the templates it no longer matches through cached bindings: a binding that is not there yet leaves the claim for ever (`detector.go:1242`). |

Others met in `PolicyClaim`, all from copies that are out of date and all excluded by
`stale`: a worker claims the template for a policy that has been deleted and created
again since; `removeResourceClaimMetadataIfNotMatched` removes the claim of another
policy, as it does not compare IDs; the Processor, which looks a claim's policy up by name
only, takes a policy that does not match for the former one of that name and keeps its
claim ("id"); a policy that is deleted lists templates, and one that no longer matches
lists cached bindings, so a claim that only the stored binding carries is left there
("binding"); item 8 ("kind"); `CreateOrUpdate` takes a cached binding for the
stored one and writes nothing (`detector.go:477`). `FullyApplied` may stay false in
`BindingStatus` when a cluster without a Work is dropped, which is why
`StatusReflectsWorks` speaks of one direction. The exceptions "id", "binding" and
`Unannounced` were found by proof attempts, in steps from states beyond the runs' bounds.

`Execution` has further counterexamples. No run includes them; each appears when a cfg
like `MCExecutionLeak.cfg` is given these constants (those not named as there) and
property:

| Property | Constants | What happens |
|---|---|---|
| `AlwaysSynced` | `Moves <- OneEdit`, `Manifests = {m1, m2}` | Events are dropped until a version is recorded, which happens after the create call returns (`execution_controller.go:550`). An edit in the member handled in between is not undone. |
| `AlwaysSynced` | `Moves <- OneDeletion`, `Warm = FALSE` | Objects are created before the informer has listed (`execution_controller.go:158`); one deleted before the list has no event, and nothing queues the Work when the informer is synced. |
| `AppliedIsReal` | `Moves <- OneForeign` | The second read of `Create` also accepts an object that is not Karmada's (`objectwatcher.go:105`): Applied, and nothing was applied. |
| `UnmanagedNotDeleted` | `Moves <- Replaced` | The label is checked on a cached copy, the deletion goes by name without a precondition (`objectwatcher.go:253`). |
| `DeletionEnds`, `FairSpec` | `Moves <- Reported`, `Preserve = TRUE` | With preserved resources a Work without object in the member is never removed: NotFound is an error (`execution_controller.go:244`). |
| `ReleaseCompletes`, `FairSpec` | `Moves <- Reported`, `Preserve = TRUE`, `Reports = TRUE` | Releasing the object cannot be repeated (`execution_controller.go:257`): if the finalizer's update is in conflict, every retry finds an object that is no longer Karmada's and is refused. |


## 6. What is not modelled

See `components` in PROJECT.json for each. By lines most of the repository is generated
(deep copies, clients, OpenAPI), API types, command line and installation code, and has
no behaviour of its own to model; the modules stand for a few thousand lines, those
that decide where a workload runs. Of the rest:

* webhooks, interpreters, estimators and overrides are functions of one object;
* search, proxies and the metrics adapter forward reads;
* karmadactl and the operator are sequences of API calls;
* certificates, namespaces, remediation and unified auth are reconcilers of one object
  that nobody else writes;
* federated HPA, quota, MCS, the descheduler, application failover and the dependencies
  distributor have behaviour of their own; they are in the plan or appear as inputs of a
  module (quota as a refused patch, application failover and dependencies as writes to
  the binding);
* within modelled components: several cluster affinities, suspension, terminating
  clusters, ClusterPropagationPolicy, lazy activation, the assumptions of
  SchedulingOvercommitProtection, spread by region, workloads with several components.


## 7. Plan

In this order:

1. Spread constraints by region and workloads with several components in
   `ReplicaDivision`; what remains of its theorems when int32 sums wrap.
2. `FailoverSystem`: `Failover` and `Propagation` on one binding. Property: an evicted
   workload is never absent everywhere while a healthy copy could run.
3. `ApplicationFailover`: unhealthy-since cache, purge modes, `SuppressDeletion`, racing
   with the taint manager.
4. `SchedulerAffinities`: several cluster affinities and the observed affinity name;
   suspension; terminating clusters.
5. ClusterPropagationPolicy and lazy activation in `PolicyClaim`; a Work that is created
   again in `Execution`.
6. The assumptions of SchedulingOvercommitProtection; toleration times of the taint
   manager; the cluster condition cache; the backoff duration.
7. Dependencies distributor, federated quota, rebalancer status.
