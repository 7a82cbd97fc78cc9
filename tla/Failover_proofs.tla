--------------------------- MODULE Failover_proofs ---------------------------
(***************************************************************************)
(* Proofs about Failover, for every set of clusters, every placement and   *)
(* every bound.                                                            *)
(***************************************************************************)
EXTENDS Failover, FiniteSetTheorems, NaturalsInduction, WellFoundedInduction, TLAPS

-----------------------------------------------------------------------------
(***************************************************************************)
(* Facts about the helpers of ResourceBinding.                             *)
(***************************************************************************)
\* Write only adds a generation, and exactly when the spec changes.
LEMMA WriteFacts ==
    ASSUME NEW old \in Binding, NEW new \in Binding, new.gen = old.gen
    PROVE  /\ Write(old, new) \in Binding
           /\ SpecOf(Write(old, new)) = SpecOf(new)
           /\ Write(old, new).obsGen = new.obsGen
           /\ Write(old, new).tasks = new.tasks
           /\ SpecOf(new) = SpecOf(old) => Write(old, new) = new
           /\ SpecOf(new) # SpecOf(old) => Write(old, new).gen = old.gen + 1
BY DEF Write, SpecOf, Binding

\* GracefulEvictCluster keeps the type and never touches a task that exists.
LEMMA EvictFacts ==
    ASSUME NEW b \in Binding, NEW c \in Clusters
    PROVE  /\ GracefulEvictCluster(b, c) \in Binding
           /\ GracefulEvictCluster(b, c).gen = b.gen
           /\ GracefulEvictCluster(b, c).obsGen = b.obsGen
           /\ \A d \in Clusters :
                 b.tasks[d] # "none" => GracefulEvictCluster(b, c).tasks[d] = b.tasks[d]
<1>1. CASE ~TargetContains(b, c)
  BY <1>1 DEF GracefulEvictCluster
<1>2. CASE TargetContains(b, c)
  <2> DEFINE t == IF ClusterInGracefulEvictionTasks(b, c) THEN b.tasks[c] ELSE "new"
  <2>1. GracefulEvictCluster(b, c) = [b EXCEPT !.clusters[c] = 0, !.tasks[c] = t]
    BY <1>2 DEF GracefulEvictCluster, ClusterInGracefulEvictionTasks
  <2>2. t \in TaskState
    BY DEF Binding, TaskState
  <2>3. 0 \in 0..MaxReplicas
    BY ReplicasAssumption
  <2>4. [b EXCEPT !.clusters[c] = 0, !.tasks[c] = t] \in Binding
    BY <2>2, <2>3 DEF Binding, Assignment
  <2> QED
    BY <2>1, <2>4 DEF ClusterInGracefulEvictionTasks, Binding
<1> QED
  BY <1>1, <1>2

\* What a confirmed generation amounts to: a result that the scheduler would
\* leave as it is, and not an empty one.
Placed(b) == Confirmed(b) /\ Targets(b) # {}

\* Being placed is a property of the spec alone.
LEMMA PlacedOfSpec ==
    ASSUME NEW a \in Binding, NEW b \in Binding, SpecOf(a) = SpecOf(b), Placed(a)
    PROVE  Placed(b)
<1>1. a.replicas = b.replicas /\ a.placement = b.placement /\ a.clusters = b.clusters
      /\ a.tasks = b.tasks
  BY DEF SpecOf
<1> QED
  BY <1>1 DEF Placed, Confirmed, Targets, TargetContains, ClusterInGracefulEvictionTasks

\* The sum over no replicas is zero.  The sum is a recursive function on the
\* subsets of Clusters; a smallest subset with another sum cannot exist.
LEMMA NowhereSumsToNothing == SumFunction(Nowhere) = 0
<1> DEFINE pick(s) == CHOOSE x \in s : TRUE
           Sums(g) == g = [s \in SUBSET Clusters |->
                             IF s = {} THEN 0 ELSE Nowhere[pick(s)] + g[s \ {pick(s)}]]
           iter == CHOOSE g : Sums(g)
<1>1. ASSUME NEW s \in SUBSET Clusters, s # {}
      PROVE  /\ pick(s) \in s /\ Nowhere[pick(s)] = 0
             /\ s \ {pick(s)} \in SUBSET Clusters
  <2>1. pick(s) \in s
    BY <1>1
  <2> QED
    BY <2>1 DEF Nowhere
<1>2. SumFunction(Nowhere) = iter[Clusters]
  <2>1. DOMAIN Nowhere = Clusters
    BY DEF Nowhere
  <2> QED
    BY <2>1 DEF SumFunction, SumFunctionOnSet, FoldFunctionOnSet, MapThenFoldSet
<1>3. Sums(iter)
  <2>1. Sums([s \in SUBSET Clusters |-> 0])
    <3> HIDE DEF pick
    <3> QED
      BY <1>1
  <2> HIDE DEF Sums
  <2> QED
    BY <2>1
<1> HIDE DEF iter
<1>4. ASSUME NEW s \in SUBSET Clusters, s # {}
      PROVE  iter[s] = 0 + iter[s \ {pick(s)}]
  <2> HIDE DEF pick
  <2> QED
    BY <1>1, <1>3, <1>4
<1>5. iter[{}] = 0
  BY <1>3
<1>6. ASSUME NEW s \in SUBSET Clusters, iter[s] # 0 PROVE FALSE
  <2> DEFINE Bad == {Cardinality(x) : x \in {y \in SUBSET Clusters : iter[y] # 0}}
  <2>1. \A x \in SUBSET Clusters : IsFiniteSet(x) /\ Cardinality(x) \in Nat
    BY ClustersAssumption, FS_Subset, FS_CardinalityType
  <2>2. Bad \subseteq Nat /\ Bad # {}
    BY <1>6, <2>1
  <2>3. PICK n \in Bad : \A m \in Bad : ~(m < n)
    <3>1. PICK n \in Bad : \A m \in Bad : <<m, n>> \notin OpToRel(<, Nat)
      BY <2>2, NatLessThanWellFounded, WFMin, Zenon
    <3> QED
      BY <2>2, <3>1 DEF OpToRel
  <2>4. PICK x \in SUBSET Clusters : iter[x] # 0 /\ n = Cardinality(x)
    BY <2>3
  <2>5. x # {}
    BY <1>5, <2>4
  <2> DEFINE rest == x \ {pick(x)}
  <2>6. pick(x) \in x /\ rest \in SUBSET Clusters /\ iter[x] = 0 + iter[rest]
    BY <1>1, <1>4, <2>5
  <2>7. Cardinality(rest) = Cardinality(x) - 1
    BY <2>1, <2>6, FS_RemoveElement
  <2>8. iter[rest] # 0
    BY <2>4, <2>6
  <2>9. Cardinality(rest) \in Bad
    BY <2>6, <2>8
  <2> QED
    BY <2>1, <2>3, <2>4, <2>7, <2>9
<1> QED
  BY <1>2, <1>6

\* A division that sums up to at least one replica puts one somewhere.
LEMMA DividedIsSomewhere ==
    ASSUME NEW b \in Binding, GetSumOfReplicas(b.clusters) = b.replicas
    PROVE  Targets(b) # {}
<1> SUFFICES ASSUME Targets(b) = {} PROVE FALSE
  OBVIOUS
<1>1. b.clusters = Nowhere
  BY DEF Targets, TargetContains, Binding, Assignment, Nowhere
<1> QED
  BY <1>1, NowhereSumsToNothing DEF GetSumOfReplicas, Binding

\* Whatever the assignment algorithm returns for clusters that fit is placed
\* once it is stored.
LEMMA AssignedIsPlaced ==
    ASSUME NEW b \in Binding, NEW taints \in [Clusters -> TaintKind],
           FindClustersThatFit(b, taints) # {},
           b.clusters \in AssignReplicas(b, FindClustersThatFit(b, taints))
    PROVE  Placed(b)
<1>1. CASE Duplicated
  <2>1. Confirmed(b)
    BY <1>1 DEF AssignReplicas, FindClustersThatFit, Confirmed, Targets, TargetContains
  <2>2. PICK c \in FindClustersThatFit(b, taints) : c \in Clusters
    BY PlacementsAssumption DEF FindClustersThatFit, Binding
  <2>3. b.clusters[c] = b.replicas
    BY <1>1, <2>2 DEF AssignReplicas
  <2> QED
    BY <2>1, <2>2, <2>3 DEF Placed, Targets, TargetContains, Binding
<1>2. CASE ~Duplicated
  <2>1. GetSumOfReplicas(b.clusters) = b.replicas
    BY <1>2 DEF AssignReplicas
  <2> QED
    BY <1>2, <2>1, DividedIsSomewhere DEF Placed, Confirmed
<1> QED
  BY <1>1, <1>2

\* A result that needs no scheduling is placed: a Duplicated one, of which an
\* emptied spec.clusters would pass as unchanged, always needs it.
LEMMA NotNeededIsPlaced ==
    ASSUME NEW b \in Binding, ~NeedSchedule(b)
    PROVE  Placed(b)
<1>1. ~Duplicated /\ GetSumOfReplicas(b.clusters) = b.replicas
  BY DuplicatedAssumption DEF NeedSchedule, IsBindingReplicasChanged
<1> QED
  BY <1>1, DividedIsSomewhere DEF Placed, Confirmed

\* Assessing the tasks yields tasks.
LEMMA AssessTypes ==
    ASSUME NEW b \in Binding
    PROVE  AssessEvictionTasks(b) \in [Clusters -> TaskState]
BY DEF AssessEvictionTasks, AssessSingleTask, TaskState, Binding

\* The empty assignment and every result of the algorithm are assignments.
LEMMA ResultTypes ==
    /\ Nowhere \in Assignment
    /\ \A b \in Binding, fit \in SUBSET Clusters : AssignReplicas(b, fit) \subseteq Assignment
<1>1. Nowhere \in Assignment
  BY ReplicasAssumption DEF Nowhere, Assignment
<1>2. ASSUME NEW b \in Binding, NEW fit \in SUBSET Clusters
      PROVE  AssignReplicas(b, fit) \subseteq Assignment
  <2>1. [c \in Clusters |-> IF c \in fit THEN b.replicas ELSE 0] \in Assignment
    BY ReplicasAssumption DEF Assignment, Binding
  <2> QED
    BY <2>1 DEF AssignReplicas
<1> QED
  BY <1>1, <1>2

-----------------------------------------------------------------------------
(***************************************************************************)
(* The inductive invariant behind ObservedIsConfirmed and                  *)
(* ConfirmedSomewhere.  It says what the scheduler may rely on between     *)
(* reading its copy and sending the second of two patches that carry no    *)
(* resourceVersion: if the generation is still the one it read, so is the  *)
(* spec.                                                                   *)
(***************************************************************************)
\* A generation names one spec, in the scheduler's cache as in the API server.
CacheIsPast ==
    /\ schedRB.gen <= rb.gen
    /\ schedRB.gen = rb.gen => SpecOf(schedRB) = SpecOf(rb)

\* What is left to send is right for the stored object, if no other writer
\* has changed the spec since it was read; a patch that has something to change
\* in spec.clusters will itself move the generation on.
AttemptIsSound ==
    sched # Idle =>
       /\ sched.gen <= rb.gen
       /\ sched.pc = "observe" => sched.ok
       /\ sched.gen = rb.gen /\ sched.ok =>
             IF sched.pc = "patchSpec" /\ sched.clusters # Same
             THEN sched.clusters # rb.clusters
             ELSE Placed(rb)

\* An observed generation has such a result.
ObservedIsPlaced == rb.obsGen = rb.gen => Placed(rb)

\* All of it that speaks of generations; TypeOK is the rest.
GenInv == CacheIsPast /\ AttemptIsSound /\ rb.obsGen <= rb.gen /\ ObservedIsPlaced

-----------------------------------------------------------------------------
\* A binding as it is created has its type, and so has everything else.
LEMMA TypeInit == Init => TypeOK
<1> SUFFICES ASSUME Init PROVE TypeOK
  OBVIOUS
<1>1. PICK n \in 1..MaxReplicas, p \in Placements : rb = CreatedBinding(n, p)
  BY DEF Init
<1>2. rb \in Binding
  BY <1>1, ResultTypes DEF CreatedBinding, Binding, TaskState
<1>3. schedRB \in Binding
  BY <1>2 DEF Init, SchedulerView, Binding
<1> QED
  BY <1>2, <1>3 DEF Init, TypeOK, TaintKind

\* Every action keeps the types.
LEMMA TypeStep == TypeOK /\ [Next]_vars => TypeOK'
<1> SUFFICES ASSUME TypeOK, [Next]_vars PROVE TypeOK'
  OBVIOUS
<1> USE DEF TypeOK
<1>0. ASSUME NEW b \in Binding PROVE SchedulerView(b) \in Binding
  BY DEF SchedulerView, Binding
<1>1. CASE OnResourceBindingUpdate
  BY <1>0, <1>1 DEF OnResourceBindingUpdate, evictVars, envVars
<1>2. ASSUME NEW c \in Clusters, UpdateCluster(c) PROVE TypeOK'
  BY <1>2 DEF UpdateCluster, evictVars, envVars
<1>3. ASSUME NEW pc \in {"patchSpec", "patchStatus", "observe"}, NEW result \in Assignment,
             NEW ok \in BOOLEAN, NEW retry \in BOOLEAN,
             Begin(pc, result, ok, retry), Pop, Fault \/ UNCHANGED faults
      PROVE  TypeOK'
  <2>1. sched' \in Attempt
    BY <1>3 DEF Begin, Attempt, Binding
  <2>2. faults' \in Nat
    BY <1>3 DEF Fault
  <2>3. pending' \in BOOLEAN /\ owed' \in BOOLEAN
    BY <1>3 DEF Begin, Pop
  <2> QED
    BY <1>3, <2>1, <2>2, <2>3 DEF Begin, evictVars
<1>4. ASSUME NEW b \in Binding, NEW taints \in [Clusters -> TaintKind]
      PROVE  FindClustersThatFit(b, taints) \in SUBSET Clusters
  BY PlacementsAssumption DEF FindClustersThatFit, Binding
<1>5. CASE Schedule
  BY <1>3, <1>4, <1>5, ResultTypes DEF Schedule, ReadTaints
<1>6. CASE ScheduleNoClusterFit
  BY <1>3, <1>6, ResultTypes DEF ScheduleNoClusterFit, ReadTaints
<1>7. CASE ScheduleUnschedulable
  <2>1. schedRB.clusters \in Assignment
    BY DEF Binding
  <2> QED
    BY <1>3, <1>7, <2>1 DEF ScheduleUnschedulable
<1>8. CASE ScheduleNotNeeded
  <2>1. schedRB.clusters \in Assignment
    BY DEF Binding
  <2> QED
    BY <1>3, <1>8, <2>1 DEF ScheduleNotNeeded, Pop, evictVars
<1>9. CASE PatchScheduleResult
  <2> DEFINE new == [rb EXCEPT
          !.clusters = IF sched.clusters = Same THEN @ ELSE sched.clusters,
          !.applied  = IF sched.applied = Same THEN @ ELSE sched.applied]
  <2>1. sched \in Attempt /\ sched.pc = "patchSpec"
    BY <1>9 DEF PatchScheduleResult
  <2>2. new \in Binding /\ new.gen = rb.gen
    BY <2>1 DEF Attempt, Binding
  <2>3. rb' \in Binding
    BY <1>9, <2>2, WriteFacts DEF PatchScheduleResult
  <2>4. sched' \in Attempt
    BY <1>9, <2>1 DEF PatchScheduleResult, Attempt
  <2> QED
    BY <1>9, <2>3, <2>4 DEF PatchScheduleResult, evictVars, envVars
<1>10. CASE PatchBindingStatusCondition
  <2>1. rb' \in Binding
    BY <1>10 DEF PatchBindingStatusCondition, Binding, Attempt
  <2>2. sched.retry \in BOOLEAN
    BY <1>10 DEF PatchBindingStatusCondition, Attempt
  <2> QED
    BY <1>10, <2>1, <2>2 DEF PatchBindingStatusCondition, evictVars, envVars
<1>11. CASE PatchObservedGeneration
  <2>1. rb' \in Binding
    BY <1>11 DEF PatchObservedGeneration, Binding, Attempt
  <2> QED
    BY <1>11, <2>1 DEF PatchObservedGeneration, evictVars, envVars
<1>12. CASE PatchFails
  <2>1. sched' \in Attempt \cup {Idle}
    BY <1>12 DEF PatchFails, Attempt
  <2>2. faults' \in Nat
    BY <1>12 DEF PatchFails, Fault
  <2>3. pending' \in BOOLEAN
    BY <1>12 DEF PatchFails
  <2> QED
    BY <1>12, <2>1, <2>2, <2>3 DEF PatchFails, evictVars
<1>13. CASE RestartScheduler
  BY <1>0, <1>13 DEF RestartScheduler, Fault, evictVars
<1>14. CASE CacheBinding
  BY <1>14 DEF CacheBinding, schedVars, envVars
<1>15. ASSUME NEW c \in Clusters, CacheCluster(c) \/ SyncCluster(c) \/
                 SyncBindingEvictionSkip(c) \/ Expire(c)
       PROVE  TypeOK'
  BY <1>15 DEF CacheCluster, SyncCluster, SyncBindingEvictionSkip, Expire, schedVars, envVars
<1>16. ASSUME NEW c \in Clusters, SyncBindingEviction(c) PROVE TypeOK'
  <2>1. rb' \in Binding
    BY <1>16, EvictFacts, WriteFacts DEF SyncBindingEviction
  <2> QED
    BY <1>16, <2>1 DEF SyncBindingEviction, schedVars, ReadTaints, Fault
<1>17. CASE SyncGracefulEviction
  <2>1. AssessEvictionTasks(cmRB) \in [Clusters -> TaskState]
    BY AssessTypes DEF TypeOK
  <2>2. [rb EXCEPT !.tasks = AssessEvictionTasks(cmRB)] \in Binding
    BY <2>1 DEF Binding
  <2>3. rb' \in Binding
    BY <1>17, <2>2, WriteFacts DEF SyncGracefulEviction, Binding
  <2> QED
    BY <1>17, <2>3 DEF SyncGracefulEviction, schedVars, envVars
<1>18. CASE RestartControllerManager
  BY <1>18 DEF RestartControllerManager, schedVars, Fault
<1>19. ASSUME NEW n \in 1..MaxReplicas, ChangeReplicas(n) PROVE TypeOK'
  <2>1. [rb EXCEPT !.replicas = n] \in Binding
    BY DEF Binding
  <2>2. rb' \in Binding
    BY <1>19, <2>1, WriteFacts DEF ChangeReplicas, Binding
  <2> QED
    BY <1>19, <2>2 DEF ChangeReplicas, Event, schedVars, evictVars
<1>20. ASSUME NEW p \in Placements, ChangePlacement(p) PROVE TypeOK'
  <2>1. [rb EXCEPT !.placement = p] \in Binding
    BY DEF Binding
  <2>2. rb' \in Binding
    BY <1>20, <2>1, WriteFacts DEF ChangePlacement, Binding
  <2> QED
    BY <1>20, <2>2 DEF ChangePlacement, Event, schedVars, evictVars
<1>21. ASSUME NEW fresh \in BOOLEAN, TriggerReschedule(fresh) PROVE TypeOK'
  <2>1. PICK g \in Nat : rb' = [rb EXCEPT !.resched = fresh, !.gen = g]
    <3>1. rb.gen + 1 \in Nat
      BY DEF Binding
    <3> QED
      BY <1>21, <3>1 DEF TriggerReschedule
  <2>2. rb' \in Binding
    BY <2>1 DEF Binding
  <2>3. events' \in Nat
    BY <1>21 DEF TriggerReschedule, Event
  <2>4. owed' \in BOOLEAN
    BY <1>21, Zenon DEF TriggerReschedule, Binding
  <2> QED
    BY <1>21, <2>2, <2>3, <2>4, Zenon DEF TriggerReschedule, schedVars, evictVars
<1>22. ASSUME NEW c \in Clusters, NEW t \in Taints, ChangeTaint(c, t) PROVE TypeOK'
  BY <1>22, BoundsAssumption DEF ChangeTaint, Event, schedVars, evictVars
<1>23. ASSUME NEW h \in SUBSET Clusters, ReportHealth(h) PROVE TypeOK'
  <2>1. rb' \in Binding
    BY <1>23 DEF ReportHealth, Binding
  <2> QED
    BY <1>23, <2>1 DEF ReportHealth, schedVars, evictVars
<1>24. CASE UNCHANGED vars
  BY <1>24 DEF vars, schedVars, evictVars, envVars
<1> QED
  BY <1>1, <1>2, <1>5, <1>6, <1>7, <1>8, <1>9, <1>10, <1>11, <1>12, <1>13, <1>14, <1>15,
     <1>16, <1>17, <1>18, <1>19, <1>20, <1>21, <1>22, <1>23, <1>24
     DEF Next, Scheduler, Eviction, Environment

\* Every variable keeps its type: the half-done attempt, the caches and the
\* object itself under every writer.
THEOREM TypeCorrect == Spec => []TypeOK
BY TypeInit, TypeStep, PTL DEF Spec

-----------------------------------------------------------------------------
\* A write of the object keeps the invariant while the scheduler stands still,
\* because it either leaves the spec alone or moves the generation on.
LEMMA WriterKeepsGenInv ==
    ASSUME TypeOK, TypeOK', GenInv, UNCHANGED <<schedRB, sched>>, rb'.obsGen = rb.obsGen,
           \/ rb'.gen = rb.gen + 1
           \/ rb'.gen = rb.gen /\ SpecOf(rb') = SpecOf(rb)
    PROVE  GenInv'
<1>1. /\ rb.gen \in Nat /\ rb.obsGen \in Nat /\ schedRB.gen \in Nat
      /\ sched # Idle => sched.gen \in Nat
  BY DEF TypeOK, Binding, Attempt
<1>2. CASE rb'.gen = rb.gen + 1
  BY <1>1, <1>2 DEF GenInv, CacheIsPast, AttemptIsSound, ObservedIsPlaced
<1>3. CASE rb'.gen = rb.gen /\ SpecOf(rb') = SpecOf(rb)
  <2>1. rb \in Binding /\ rb' \in Binding
    BY DEF TypeOK
  <2>2. Placed(rb) => Placed(rb)'
    <3>1. Placed(rb) => Placed(rb')
      BY <1>3, <2>1, PlacedOfSpec
    <3> QED
      BY <3>1 DEF Placed, Confirmed, Targets, TargetContains, ClusterInGracefulEvictionTasks
  <2>3. rb'.clusters = rb.clusters
    BY <1>3 DEF SpecOf
  <2>4. CacheIsPast' /\ (rb.obsGen <= rb.gen)'
    BY <1>3 DEF GenInv, CacheIsPast, SpecOf
  <2>5. AttemptIsSound'
    BY <1>3, <2>2, <2>3 DEF GenInv, AttemptIsSound
  <2>6. ObservedIsPlaced'
    BY <1>3, <2>2 DEF GenInv, ObservedIsPlaced
  <2> QED
    BY <2>4, <2>5, <2>6 DEF GenInv
<1> QED
  BY <1>2, <1>3

\* The scheduler's own steps and everybody else's keep the invariant.
LEMMA GenStep == TypeOK /\ GenInv /\ [Next]_vars => GenInv'
<1> SUFFICES ASSUME TypeOK, GenInv, [Next]_vars PROVE GenInv'
  OBVIOUS
<1>0. TypeOK'
  BY TypeStep
<1>1. rb \in Binding /\ schedRB \in Binding /\ rb' \in Binding /\ schedRB' \in Binding
  BY <1>0 DEF TypeOK
<1>2. ASSUME NEW b \in Binding
      PROVE  /\ SchedulerView(b).gen = b.gen
             /\ SpecOf(SchedulerView(b)) = SpecOf(b)
  BY DEF SchedulerView, SpecOf, Binding
<1>3. rb.gen \in Nat /\ rb.obsGen \in Nat /\ schedRB.gen \in Nat
  BY <1>1 DEF Binding
<1>4. CASE OnResourceBindingUpdate
  BY <1>1, <1>2, <1>3, <1>4
     DEF OnResourceBindingUpdate, GenInv, CacheIsPast, AttemptIsSound, ObservedIsPlaced
<1>5. ASSUME NEW pc, NEW result \in Assignment, NEW ok \in BOOLEAN, NEW retry \in BOOLEAN,
             Begin(pc, result, ok, retry),
             ok /\ result = schedRB.clusters => Placed(schedRB),
             pc # "patchSpec" => result = schedRB.clusters,
             pc = "observe" => ok
      PROVE  GenInv'
  <2>1. /\ sched'.pc = pc /\ sched'.gen = schedRB.gen /\ sched'.ok = ok
        /\ sched'.clusters = IF result = schedRB.clusters THEN Same ELSE result
    BY <1>5 DEF Begin
  <2>2. UNCHANGED <<rb, schedRB>>
    BY <1>5 DEF Begin
  <2>3. Placed(rb)' <=> Placed(rb)
    BY <2>2 DEF Placed, Confirmed, Targets, TargetContains, ClusterInGracefulEvictionTasks
  <2>4. CacheIsPast' /\ (rb.obsGen <= rb.gen)' /\ ObservedIsPlaced'
    BY <2>2, <2>3 DEF GenInv, CacheIsPast, ObservedIsPlaced, SpecOf
  <2>5. CASE schedRB.gen = rb.gen
    <3>1. SpecOf(schedRB) = SpecOf(rb)
      BY <2>5 DEF GenInv, CacheIsPast
    <3>2. schedRB.clusters = rb.clusters
      BY <3>1 DEF SpecOf
    <3>3. Placed(schedRB) => Placed(rb)
      BY <1>1, <3>1, PlacedOfSpec
    <3>4. result # Same
      BY BoundsAssumption
    <3> QED
      BY <1>3, <1>5, <2>1, <2>2, <2>3, <2>4, <2>5, <3>2, <3>3, <3>4
         DEF GenInv, AttemptIsSound
  <2>6. CASE schedRB.gen # rb.gen
    BY <1>3, <1>5, <2>1, <2>2, <2>4, <2>6 DEF GenInv, AttemptIsSound, CacheIsPast
  <2> QED
    BY <2>5, <2>6
<1>6. CASE Schedule
  <2>1. PICK result \in AssignReplicas(schedRB, FindClustersThatFit(schedRB, schedTaint)) :
           /\ FindClustersThatFit(schedRB, schedTaint) # {}
           /\ Begin("patchSpec", result, TRUE, FALSE)
    BY <1>6 DEF Schedule
  <2>2. FindClustersThatFit(schedRB, schedTaint) \in SUBSET Clusters
    BY <1>1, PlacementsAssumption DEF FindClustersThatFit, Binding
  <2>3. result \in Assignment
    BY <1>1, <2>1, <2>2, ResultTypes
  <2>4. result = schedRB.clusters => Placed(schedRB)
    BY <1>1, <2>1, AssignedIsPlaced DEF TypeOK
  <2> QED
    BY <1>5, <2>1, <2>3, <2>4
<1>7. CASE ScheduleNoClusterFit
  BY <1>5, <1>7, ResultTypes DEF ScheduleNoClusterFit
<1>8. CASE ScheduleUnschedulable
  <2>1. schedRB.clusters \in Assignment
    BY <1>1 DEF Binding
  <2> QED
    BY <1>5, <1>8, <2>1 DEF ScheduleUnschedulable
<1>9. ASSUME UNCHANGED <<rb, schedRB, sched>> PROVE GenInv'
  BY <1>0, <1>9, WriterKeepsGenInv DEF SpecOf
<1>10. CASE ScheduleNotNeeded
  <2>1. schedRB.clusters \in Assignment
    BY <1>1 DEF Binding
  <2>2. Placed(schedRB)
    BY <1>1, <1>10, NotNeededIsPlaced DEF ScheduleNotNeeded
  <2>3. CASE schedRB.gen # schedRB.obsGen
    BY <1>5, <1>10, <2>1, <2>2, <2>3 DEF ScheduleNotNeeded
  <2>4. CASE schedRB.gen = schedRB.obsGen
    BY <1>9, <1>10, <2>4 DEF ScheduleNotNeeded
  <2> QED
    BY <2>3, <2>4
<1>11. CASE PatchScheduleResult
  <2> DEFINE new == [rb EXCEPT
          !.clusters = IF sched.clusters = Same THEN @ ELSE sched.clusters,
          !.applied  = IF sched.applied = Same THEN @ ELSE sched.applied]
  <2>1. sched # Idle /\ sched \in Attempt /\ sched.pc = "patchSpec"
    BY <1>11 DEF PatchScheduleResult, TypeOK
  <2>2. new \in Binding /\ new.gen = rb.gen /\ new.obsGen = rb.obsGen
    BY <1>1, <2>1 DEF Attempt, Binding
  <2>3. sched' # Idle /\ sched'.pc = "patchStatus" /\ sched'.gen = sched.gen
        /\ sched'.ok = sched.ok
    BY <1>11, <2>1 DEF PatchScheduleResult, Attempt, Idle
  <2>4. rb' = Write(rb, new) /\ schedRB' = schedRB
    BY <1>11 DEF PatchScheduleResult
  <2>5. sched.gen \in Nat /\ sched.gen <= rb.gen
    BY <2>1 DEF Attempt, GenInv, AttemptIsSound
  <2>6. CASE SpecOf(new) = SpecOf(rb)
    <3>1. rb'.gen = rb.gen /\ rb'.obsGen = rb.obsGen /\ SpecOf(rb') = SpecOf(rb)
      BY <1>1, <2>2, <2>4, <2>6, WriteFacts
    <3>2. Placed(rb) => Placed(rb)'
      <4>1. Placed(rb) => Placed(rb')
        BY <1>1, <3>1, PlacedOfSpec
      <4> QED
        BY <4>1 DEF Placed, Confirmed, Targets, TargetContains, ClusterInGracefulEvictionTasks
    <3>3. new.clusters = rb.clusters
      BY <2>6 DEF SpecOf
    <3>4. sched.clusters # Same => sched.clusters = rb.clusters
      BY <1>1, <3>3 DEF Binding
    <3>5. sched.gen = rb.gen /\ sched.ok => Placed(rb)
      BY <2>1, <3>4 DEF GenInv, AttemptIsSound
    <3>6. AttemptIsSound'
      BY <2>3, <2>5, <3>1, <3>2, <3>5 DEF AttemptIsSound
    <3> QED
      BY <2>4, <3>1, <3>2, <3>6 DEF GenInv, CacheIsPast, ObservedIsPlaced, SpecOf
  <2>7. CASE SpecOf(new) # SpecOf(rb)
    <3>1. rb'.gen = rb.gen + 1 /\ rb'.obsGen = rb.obsGen
      BY <1>1, <2>2, <2>4, <2>7, WriteFacts
    <3> QED
      BY <1>3, <2>3, <2>4, <2>5, <3>1 DEF GenInv, CacheIsPast, AttemptIsSound, ObservedIsPlaced
  <2> QED
    BY <2>6, <2>7
<1>12. ASSUME NEW g \in Nat, sched' = Idle, schedRB' = schedRB, SpecOf(rb') = SpecOf(rb),
              rb'.gen = rb.gen, rb'.obsGen = g, g <= rb.gen,
              g = rb.gen => Placed(rb)
       PROVE  GenInv'
  <2>1. Placed(rb) => Placed(rb)'
    <3>1. Placed(rb) => Placed(rb')
      BY <1>1, <1>12, PlacedOfSpec
    <3> QED
      BY <3>1 DEF Placed, Confirmed, Targets, TargetContains, ClusterInGracefulEvictionTasks
  <2> QED
    BY <1>12, <2>1 DEF GenInv, CacheIsPast, AttemptIsSound, ObservedIsPlaced, SpecOf
<1>13. CASE PatchBindingStatusCondition
  <2>1. sched # Idle /\ sched \in Attempt /\ sched.pc = "patchStatus"
    BY <1>13 DEF PatchBindingStatusCondition, TypeOK
  <2>2. sched.gen \in Nat /\ sched.gen <= rb.gen
        /\ (sched.ok /\ sched.gen = rb.gen => Placed(rb))
    BY <2>1 DEF Attempt, GenInv, AttemptIsSound
  <2>3. rb.obsGen <= rb.gen /\ (rb.obsGen = rb.gen => Placed(rb))
    BY DEF GenInv, ObservedIsPlaced
  <2>4. sched' = Idle /\ schedRB' = schedRB
    BY <1>13 DEF PatchBindingStatusCondition
  <2>5. CASE sched.ok
    <3> DEFINE g == IF sched.observed THEN rb.obsGen ELSE sched.gen
    <3>1. rb' = [rb EXCEPT !.obsGen = g, !.last = TRUE, !.resched = FALSE]
      BY <1>13, <2>5 DEF PatchBindingStatusCondition
    <3>2. g \in Nat /\ g <= rb.gen /\ (g = rb.gen => Placed(rb))
      BY <1>3, <2>2, <2>3, <2>5
    <3> HIDE DEF g
    <3>3. rb'.gen = rb.gen /\ rb'.obsGen = g /\ SpecOf(rb') = SpecOf(rb)
      BY <1>1, <3>1 DEF Binding, SpecOf
    <3> QED
      BY <1>12, <2>4, <3>2, <3>3
  <2>6. CASE ~sched.ok
    BY <1>3, <1>12, <1>13, <2>3, <2>4, <2>6 DEF PatchBindingStatusCondition
  <2> QED
    BY <2>5, <2>6
<1>14. CASE PatchObservedGeneration
  <2>1. sched # Idle /\ sched \in Attempt /\ sched.pc = "observe"
    BY <1>14 DEF PatchObservedGeneration, TypeOK
  <2>2. sched' = Idle /\ schedRB' = schedRB /\ rb' = [rb EXCEPT !.obsGen = sched.gen]
    BY <1>14 DEF PatchObservedGeneration
  <2>3. sched.gen \in Nat /\ sched.gen <= rb.gen /\ (sched.gen = rb.gen => Placed(rb))
    BY <2>1 DEF Attempt, GenInv, AttemptIsSound
  <2>4. rb'.gen = rb.gen /\ rb'.obsGen = sched.gen /\ SpecOf(rb') = SpecOf(rb)
    BY <1>1, <2>2 DEF Binding, SpecOf
  <2> QED
    BY <1>12, <2>2, <2>3, <2>4
<1>15. CASE PatchFails
  <2>1. UNCHANGED <<rb, schedRB>>
    BY <1>15 DEF PatchFails
  <2>2. Placed(rb)' <=> Placed(rb)
    BY <2>1 DEF Placed, Confirmed, Targets, TargetContains, ClusterInGracefulEvictionTasks
  <2>3. CASE sched.pc = "patchSpec"
    <3>1. sched \in Attempt /\ sched # Idle
      BY <1>15 DEF PatchFails, TypeOK
    <3>2. sched' = [sched EXCEPT !.pc = "patchStatus", !.ok = FALSE, !.retry = TRUE]
      BY <1>15, <2>3 DEF PatchFails
    <3>3. sched'.gen = sched.gen /\ sched'.ok = FALSE /\ sched'.pc = "patchStatus"
      BY <3>1, <3>2 DEF Attempt
    <3> QED
      BY <2>1, <2>2, <3>1, <3>3
         DEF GenInv, CacheIsPast, AttemptIsSound, ObservedIsPlaced, SpecOf
  <2>4. CASE sched.pc # "patchSpec"
    BY <1>15, <2>1, <2>2, <2>4
       DEF PatchFails, GenInv, CacheIsPast, AttemptIsSound, ObservedIsPlaced, SpecOf
  <2> QED
    BY <2>3, <2>4
<1>16. CASE RestartScheduler
  <2>1. rb' = rb /\ schedRB' = SchedulerView(rb) /\ sched' = Idle
    BY <1>16 DEF RestartScheduler
  <2>2. Placed(rb)' <=> Placed(rb)
    BY <2>1 DEF Placed, Confirmed, Targets, TargetContains, ClusterInGracefulEvictionTasks
  <2> QED
    BY <1>1, <1>2, <1>3, <2>1, <2>2
       DEF GenInv, CacheIsPast, AttemptIsSound, ObservedIsPlaced
<1>17. ASSUME NEW c \in Clusters,
              UpdateCluster(c) \/ CacheCluster(c) \/ SyncCluster(c) \/ Expire(c) \/
              SyncBindingEvictionSkip(c)
       PROVE  GenInv'
  BY <1>9, <1>17 DEF UpdateCluster, CacheCluster, SyncCluster, Expire, SyncBindingEvictionSkip,
     schedVars
<1>18. CASE CacheBinding \/ RestartControllerManager
  BY <1>9, <1>18 DEF CacheBinding, RestartControllerManager, schedVars
<1>19. ASSUME NEW c \in Clusters, NEW t \in Taints, ChangeTaint(c, t) PROVE GenInv'
  BY <1>9, <1>19 DEF ChangeTaint, schedVars
<1>20. ASSUME NEW new \in Binding, new.gen = rb.gen, new.obsGen = rb.obsGen,
              rb' = Write(rb, new), UNCHANGED schedVars
       PROVE  GenInv'
  <2>1. CASE SpecOf(new) = SpecOf(rb)
    BY <1>0, <1>1, <1>20, <2>1, WriteFacts, WriterKeepsGenInv DEF schedVars
  <2>2. CASE SpecOf(new) # SpecOf(rb)
    BY <1>0, <1>1, <1>20, <2>2, WriteFacts, WriterKeepsGenInv DEF schedVars
  <2> QED
    BY <2>1, <2>2
<1>21. ASSUME NEW c \in Clusters, SyncBindingEviction(c) PROVE GenInv'
  BY <1>1, <1>20, <1>21, EvictFacts DEF SyncBindingEviction
<1>22. CASE SyncGracefulEviction
  <2> DEFINE new == [rb EXCEPT !.tasks = AssessEvictionTasks(cmRB)]
  <2>1. AssessEvictionTasks(cmRB) \in [Clusters -> TaskState]
    BY AssessTypes DEF TypeOK
  <2>2. new \in Binding /\ new.gen = rb.gen /\ new.obsGen = rb.obsGen
    BY <1>1, <2>1 DEF Binding
  <2> QED
    BY <1>20, <1>22, <2>2 DEF SyncGracefulEviction
<1>23. ASSUME NEW n \in 1..MaxReplicas, ChangeReplicas(n) PROVE GenInv'
  <2>1. [rb EXCEPT !.replicas = n] \in Binding
    BY <1>1 DEF Binding
  <2> QED
    BY <1>1, <1>20, <1>23, <2>1 DEF ChangeReplicas, Binding
<1>24. ASSUME NEW p \in Placements, ChangePlacement(p) PROVE GenInv'
  <2>1. [rb EXCEPT !.placement = p] \in Binding
    BY <1>1 DEF Binding
  <2> QED
    BY <1>1, <1>20, <1>24, <2>1 DEF ChangePlacement, Binding
<1>25. ASSUME NEW fresh \in BOOLEAN, TriggerReschedule(fresh) PROVE GenInv'
  <2>1. rb' = [rb EXCEPT !.resched = fresh, !.gen = @ + 1]
    BY <1>25 DEF TriggerReschedule
  <2>2. rb'.gen = rb.gen + 1 /\ rb'.obsGen = rb.obsGen
    BY <1>1, <2>1 DEF Binding
  <2>3. UNCHANGED <<schedRB, sched>>
    BY <1>25 DEF TriggerReschedule, schedVars
  <2> QED
    BY <1>0, <2>2, <2>3, WriterKeepsGenInv
<1>26. ASSUME NEW h \in SUBSET Clusters, ReportHealth(h) PROVE GenInv'
  <2>1. rb'.gen = rb.gen /\ rb'.obsGen = rb.obsGen /\ SpecOf(rb') = SpecOf(rb)
    BY <1>1, <1>26 DEF ReportHealth, Binding, SpecOf
  <2>2. UNCHANGED <<schedRB, sched>>
    BY <1>26 DEF ReportHealth, schedVars
  <2> QED
    BY <1>0, <2>1, <2>2, WriterKeepsGenInv
<1>27. CASE UNCHANGED vars
  BY <1>9, <1>27 DEF vars, schedVars
<1> QED
  BY <1>4, <1>6, <1>7, <1>8, <1>10, <1>11, <1>13, <1>14, <1>15, <1>16, <1>17, <1>18, <1>19,
     <1>21, <1>22, <1>23, <1>24, <1>25, <1>26, <1>27
     DEF Next, Scheduler, Eviction, Environment

\* A generation the scheduler has observed has a result it would leave as it
\* is, and that is not empty.
LEMMA PlacedAlways == Spec => []ObservedIsPlaced
<1>1. Init => GenInv
  BY DEF Init, GenInv, CacheIsPast, AttemptIsSound, ObservedIsPlaced, CreatedBinding,
     SchedulerView, SpecOf
<1>2. TypeOK /\ GenInv /\ [Next]_vars => (TypeOK /\ GenInv)'
  BY TypeStep, GenStep
<1>3. GenInv => ObservedIsPlaced
  BY DEF GenInv
<1> QED
  BY <1>1, <1>2, <1>3, TypeInit, PTL DEF Spec

\* A generation the scheduler has observed carries a result it stands by for
\* that very spec: stale reads and the two unlocked patches cannot make a
\* result for one spec pass as confirmed for another.
THEOREM ObservedGenerationIsConfirmed == Spec => []ObservedIsConfirmed
<1>1. ObservedIsPlaced => ObservedIsConfirmed
  BY DEF ObservedIsPlaced, ObservedIsConfirmed, Placed
<1> QED
  BY <1>1, PlacedAlways, PTL

\* A binding whose generation the scheduler has observed is scheduled somewhere,
\* Duplicated or Divided, after its last cluster was evicted or no cluster fitted
\* an attempt: the graceful eviction controller never takes "no target" for
\* "healthy on every target".
THEOREM ConfirmedSomewhereAlways == Spec => []ConfirmedSomewhere
<1>1. ObservedIsPlaced => ConfirmedSomewhere
  BY DEF ObservedIsPlaced, ConfirmedSomewhere, Placed
<1> QED
  BY <1>1, PlacedAlways, PTL

\* An eviction task that has its timestamp keeps it until it ends, whichever of
\* the unlocked and the locked writers comes in between, and ends only by its
\* timeout or because the stored object was scheduled and healthy.
THEOREM EvictionTasksEndForCause == Spec => TaskEndsForCause
<1> DEFINE Cause == \A c \in Clusters :
          rb.tasks[c] = "waiting" /\ rb'.tasks[c] # "waiting" =>
             /\ rb'.tasks[c] = "none"
             /\ \/ c \in expired
                \/ rb.obsGen = rb.gen /\ Targets(rb) \subseteq rb.healthy
<1>1. TypeOK /\ [Next]_vars => [Cause]_vars
  <2> SUFFICES ASSUME TypeOK, [Next]_vars PROVE Cause \/ UNCHANGED vars
    OBVIOUS
  <2>1. rb \in Binding /\ rb' \in Binding
    BY TypeStep DEF TypeOK
  <2>2. ASSUME rb'.tasks = rb.tasks PROVE Cause
    BY <2>2
  <2>3. CASE PatchScheduleResult
    <3> DEFINE new == [rb EXCEPT
            !.clusters = IF sched.clusters = Same THEN @ ELSE sched.clusters,
            !.applied  = IF sched.applied = Same THEN @ ELSE sched.applied]
    <3>1. sched \in Attempt
      BY <2>3 DEF PatchScheduleResult, TypeOK
    <3>2. new \in Binding /\ new.gen = rb.gen /\ new.tasks = rb.tasks
      BY <2>1, <3>1 DEF Attempt, Binding
    <3> QED
      BY <2>1, <2>2, <2>3, <3>2, WriteFacts DEF PatchScheduleResult
  <2>4. ASSUME NEW d \in Clusters, SyncBindingEviction(d) PROVE Cause
    <3>1. rb'.tasks = GracefulEvictCluster(rb, d).tasks
      BY <2>1, <2>4, EvictFacts, WriteFacts DEF SyncBindingEviction
    <3> QED
      BY <2>1, <3>1, EvictFacts
  <2>5. CASE SyncGracefulEviction
    <3>1. cmRB = rb
      BY <2>5 DEF SyncGracefulEviction
    <3>2. AssessEvictionTasks(rb) \in [Clusters -> TaskState]
      BY AssessTypes DEF TypeOK
    <3>3. [rb EXCEPT !.tasks = AssessEvictionTasks(rb)] \in Binding
      BY <2>1, <3>2 DEF Binding
    <3>4. rb'.tasks = AssessEvictionTasks(rb)
      BY <2>1, <2>5, <3>1, <3>3, WriteFacts DEF SyncGracefulEviction, Binding
    <3>5. ASSUME NEW c \in Clusters, rb.tasks[c] = "waiting"
          PROVE  AssessEvictionTasks(rb)[c] = AssessSingleTask(rb, c)
      BY <3>5 DEF AssessEvictionTasks
    <3> QED
      BY <3>4, <3>5 DEF AssessSingleTask, AllScheduledResourceInHealthyState
  <2>6. ASSUME NEW n \in 1..MaxReplicas, ChangeReplicas(n) PROVE Cause
    <3>1. [rb EXCEPT !.replicas = n] \in Binding
      BY <2>1 DEF Binding
    <3> QED
      BY <2>1, <2>2, <2>6, <3>1, WriteFacts DEF ChangeReplicas, Binding
  <2>7. ASSUME NEW p \in Placements, ChangePlacement(p) PROVE Cause
    <3>1. [rb EXCEPT !.placement = p] \in Binding
      BY <2>1 DEF Binding
    <3> QED
      BY <2>1, <2>2, <2>7, <3>1, WriteFacts DEF ChangePlacement, Binding
  <2>8. CASE PatchBindingStatusCondition \/ PatchObservedGeneration
    <3>1. rb'.tasks = rb.tasks
      BY <2>1, <2>8 DEF PatchBindingStatusCondition, PatchObservedGeneration, Binding
    <3> QED
      BY <2>2, <3>1
  <2>9. CASE \/ \E fresh \in BOOLEAN : TriggerReschedule(fresh)
              \/ \E h \in SUBSET Clusters : ReportHealth(h)
    <3>1. rb'.tasks = rb.tasks
      BY <2>1, <2>9 DEF TriggerReschedule, ReportHealth, Binding
    <3> QED
      BY <2>2, <3>1
  <2>10. ASSUME rb' = rb PROVE Cause
    BY <2>2, <2>10
  <2>11. CASE \/ OnResourceBindingUpdate \/ (\E c \in Clusters : UpdateCluster(c))
              \/ PatchFails \/ RestartScheduler \/ CacheBinding \/ RestartControllerManager
    BY <2>10, <2>11 DEF OnResourceBindingUpdate, UpdateCluster, PatchFails, RestartScheduler,
       CacheBinding, RestartControllerManager
  <2>12. CASE Schedule \/ ScheduleNoClusterFit \/ ScheduleUnschedulable \/ ScheduleNotNeeded
    <3>1. rb' = rb
      BY <2>12 DEF Schedule, ScheduleNoClusterFit, ScheduleUnschedulable, ScheduleNotNeeded, Begin
    <3> QED
      BY <2>10, <3>1
  <2>13. CASE \E c \in Clusters : CacheCluster(c) \/ SyncCluster(c) \/ Expire(c) \/
                                  SyncBindingEvictionSkip(c)
    BY <2>10, <2>13 DEF CacheCluster, SyncCluster, Expire, SyncBindingEvictionSkip
  <2>14. CASE \E c \in Clusters, t \in Taints : ChangeTaint(c, t)
    BY <2>10, <2>14 DEF ChangeTaint
  <2> QED
    BY <2>3, <2>4, <2>5, <2>6, <2>7, <2>8, <2>9, <2>11, <2>12, <2>13, <2>14
       DEF Next, Scheduler, Eviction, Environment
<1>2. Spec => [][Cause]_vars
  BY <1>1, TypeCorrect, PTL DEF Spec
<1> QED
  BY <1>2 DEF TaskEndsForCause
=============================================================================
