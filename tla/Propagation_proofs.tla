-------------------------- MODULE Propagation_proofs --------------------------
(***************************************************************************)
(* Proofs about Propagation, for every set of clusters, every template and *)
(* every bound.                                                            *)
(***************************************************************************)
EXTENDS Propagation, TLAPS

-----------------------------------------------------------------------------
(***************************************************************************)
(* The inductive invariant.                                                *)
(***************************************************************************)
\* The clusters a reconciliation of b deletes Works from.
Unwanted(b) == IF b.deleting THEN Clusters
               ELSE Clusters \ ObtainBindingSpecExistingClusters(b)

\* The cache is the binding's past: a generation names one binding, and what
\* is deleted stays deleted.
CacheIsPast ==
    /\ rb # Gone => cmRB # Gone /\ cmRB.gen <= rb.gen
    /\ rb # Gone /\ cmRB.deleting => rb.deleting
    /\ rb = Gone => cmRB = Gone \/ cmRB.deleting

\* A reconciliation is of the kind its copy of the binding asks for, and reaches
\* only the clusters it should.
SyncFitsCopy ==
    sync # Idle =>
        /\ sync.pc = "delete" <=> sync.rb.deleting
        /\ sync.pc = "delete" => cmRB = Gone \/ cmRB.deleting
        /\ rb = Gone => sync.pc = "delete"
        /\ sync.pc = "ensure" => sync.todo \subseteq MergeTargetClusters(sync.rb)
                                 /\ sync.template \in Templates
        /\ sync.pc = "orphans" => sync.todo \subseteq Unwanted(sync.rb)

\* The Works that a reconciliation is to delete and cannot see are missed.
SeenOrMissed ==
    sync.pc = "orphans" =>
        \A c \in Unwanted(sync.rb) : works[c] # NoWork /\ cmWorks[c] = NoWork =>
            c \in missed /\ c \notin sync.todo

\* By the time it deletes no more, the Works it saw are leaving.
DeletedSoFar ==
    sync.pc = "delete" =>
        \A c \in Clusters \ (sync.todo \cup missed) : sync.failed \/ Leaving(works[c])

\* By the time it creates Works, those purged Directly are gone.
PurgedFirst ==
    sync.pc = "ensure" =>
        \A c \in PurgedDirectly(sync.rb) \ missed : works[c] = NoWork

\* Nothing has happened that the controller does not know of, or is not
\* about to be told.
Informed == ~queued /\ cmRB = rb /\ ~unrecorded /\ Live /\ template # NoTemplate

\* What an informed controller has already put right.
DoneSoFar ==
    Informed =>
        /\ sync = Idle =>
              \A c \in Clusters \ missed :
                  IF c \in MergeTargetClusters(rb) THEN UpToDate(works[c])
                  ELSE c \in Unwanted(rb) => Leaving(works[c])
        /\ sync # Idle => sync.rb = rb
        /\ sync.pc = "orphans" =>
              \A c \in Unwanted(rb) \ (sync.todo \cup missed) :
                  sync.failed \/ Leaving(works[c])
        /\ sync.pc = "ensure" =>
              /\ sync.template = template
              /\ \A c \in Unwanted(rb) \ missed : Leaving(works[c])
              /\ \A c \in MergeTargetClusters(rb) \ (sync.todo \cup missed) :
                     sync.failed \/ UpToDate(works[c])

IInv ==
    /\ TypeOK
    /\ CacheIsPast
    /\ SyncFitsCopy
    /\ SeenOrMissed
    /\ DeletedSoFar
    /\ PurgedFirst
    /\ GoneLeavesNoWork
    /\ DoneSoFar

-----------------------------------------------------------------------------
(***************************************************************************)
(* Types of what is built from typed parts.                                *)
(***************************************************************************)
\* A binding, its parts and a reconciliation are told apart from nothing.
LEMMA Distinct ==
    /\ \A b \in Binding : b # Gone /\ b.deleting \in BOOLEAN /\ b.gen \in Nat
                         /\ MergeTargetClusters(b) \subseteq Clusters
                         /\ Unwanted(b) \subseteq Clusters
    /\ \A w \in Work : w # NoWork /\ w.deleting \in BOOLEAN
    /\ \A r \in Reconciliation : r # Idle /\ r.pc # "idle" /\ r.rb \in Binding
                                /\ r.todo \subseteq Clusters /\ r.failed \in BOOLEAN
<1>1. \A b \in Binding : b # Gone /\ b.deleting \in BOOLEAN /\ b.gen \in Nat
  BY AbsenceAssumption DEF Binding
<1>2. \A b \in Binding : MergeTargetClusters(b) \subseteq Clusters /\ Unwanted(b) \subseteq Clusters
  BY DEF Binding, MergeTargetClusters, Unwanted
<1>3. \A w \in Work : w # NoWork /\ w.deleting \in BOOLEAN
  BY AbsenceAssumption DEF Work
<1>4. \A r \in Reconciliation : r # Idle /\ r.pc # "idle" /\ r.rb \in Binding
                              /\ r.todo \subseteq Clusters /\ r.failed \in BOOLEAN
  <2> SUFFICES ASSUME NEW r \in Reconciliation
               PROVE  r # Idle /\ r.pc # "idle" /\ r.rb \in Binding
                      /\ r.todo \subseteq Clusters /\ r.failed \in BOOLEAN
    OBVIOUS
  <2>1. r.pc # "idle" /\ r.rb \in Binding /\ r.todo \subseteq Clusters /\ r.failed \in BOOLEAN
    BY DEF Reconciliation
  <2>2. Idle.pc = "idle"
    BY DEF Idle
  <2> QED
    BY <2>1, <2>2
<1> QED
  BY <1>1, <1>2, <1>3, <1>4

\* An unwanted cluster is not one the binding names, and all that are neither
\* named nor left gracefully are unwanted.
LEMMA UnwantedFacts ==
    ASSUME NEW b \in Binding, ~b.deleting
    PROVE  /\ Unwanted(b) \cap MergeTargetClusters(b) = {}
           /\ PurgedDirectly(b) \subseteq Unwanted(b)
           /\ PurgedDirectly(b) \cap MergeTargetClusters(b) = {}
           /\ \A c \in Clusters : c \notin MergeTargetClusters(b) /\ b.tasks[c] # "Gracefully"
                                  => c \in Unwanted(b)
BY DEF Unwanted, ObtainBindingSpecExistingClusters, MergeTargetClusters, PurgedDirectly,
       ClustersWithPurgeModeDirectly

\* The bounds are respected.
LEMMA Bounded ==
    ASSUME TypeOK
    PROVE  /\ Event => events' \in 0..MaxEvents /\ faults' = faults
           /\ Fault => faults' \in 0..MaxFaults /\ events' = events
BY PropagationAssumption DEF TypeOK, Event, Fault

-----------------------------------------------------------------------------
(***************************************************************************)
(* The invariant holds initially.                                          *)
(***************************************************************************)
LEMMA InitIInv == Init => IInv
<1> SUFFICES ASSUME Init PROVE IInv
  OBVIOUS
<1>1. PICK S \in SUBSET Clusters : rb = NewBinding(S)
  BY DEF Init
<1>2. rb \in Binding
  BY <1>1 DEF NewBinding, Binding, TaskModes
<1>3. template \in Templates /\ override \in Overrides
  BY PropagationAssumption DEF Init
<1>4. TypeOK
  <2>1. 0 \in 0..MaxEvents /\ 0 \in 0..MaxFaults
    BY PropagationAssumption
  <2>2. [c \in Clusters |-> NoWork] \in [Clusters -> Work \cup {NoWork}]
    OBVIOUS
  <2> HIDE <1>1
  <2> QED
    BY <1>2, <1>3, <2>1, <2>2 DEF Init, TypeOK
<1>5. rb # Gone /\ cmRB = rb
  BY <1>2, Distinct DEF Init
<1>6. sync = Idle /\ sync.pc = "idle" /\ queued
  BY DEF Init, Idle
<1>7. CacheIsPast
  BY <1>2, <1>5, Distinct DEF CacheIsPast
<1> QED
  BY <1>4, <1>5, <1>6, <1>7 DEF IInv, SyncFitsCopy, SeenOrMissed, DeletedSoFar, PurgedFirst,
     GoneLeavesNoWork, DoneSoFar, Informed

-----------------------------------------------------------------------------
(***************************************************************************)
(* The binding changes: the cache is behind, so nobody is informed.        *)
(***************************************************************************)
LEMMA WriteStep ==
    ASSUME IInv, Live, NEW b \in Binding, Write(b),
           unrecorded' \in BOOLEAN, events' \in 0..MaxEvents,
           UNCHANGED <<template, override, works, cacheVars, queued, sync, missed, faults>>
    PROVE  IInv'
<1> USE DEF IInv
<1>0. rb \in Binding /\ rb # Gone /\ ~rb.deleting
  BY Distinct DEF TypeOK, Live
<1>w. rb' \in Binding /\ rb'.gen = rb.gen + 1
  <2>1. rb.gen + 1 \in Nat
    BY <1>0, Distinct
  <2> QED
    BY <2>1 DEF Write, Binding
<1>1. rb \in Binding /\ rb # Gone /\ rb' # Gone /\ ~rb.deleting
  BY <1>0, <1>w, Distinct
<1>2. cmRB \in Binding /\ cmRB' = cmRB /\ cmRB.gen < rb'.gen /\ ~cmRB.deleting
  BY <1>1, <1>w, Distinct DEF CacheIsPast, cacheVars, TypeOK
<1>3. TypeOK'
  BY <1>w DEF TypeOK, cacheVars
<1>4. CacheIsPast'
  BY <1>1, <1>2, <1>w, Distinct DEF CacheIsPast
<1>5. SyncFitsCopy'
  BY <1>1, <1>2 DEF SyncFitsCopy, MergeTargetClusters, Unwanted, ObtainBindingSpecExistingClusters
<1>6. SeenOrMissed'
  BY DEF SeenOrMissed, cacheVars, Unwanted, ObtainBindingSpecExistingClusters, MergeTargetClusters
<1>7. DeletedSoFar'
  BY DEF DeletedSoFar, Leaving
<1>8. PurgedFirst'
  BY DEF PurgedFirst, PurgedDirectly, ClustersWithPurgeModeDirectly, MergeTargetClusters
<1>9. GoneLeavesNoWork'
  BY <1>1 DEF GoneLeavesNoWork
<1>10. DoneSoFar'
  <2>1. cmRB' # rb'
    BY <1>1, <1>2, <1>w, Distinct
  <2> QED
    BY <2>1 DEF DoneSoFar, Informed
<1> QED
  BY <1>3, <1>4, <1>5, <1>6, <1>7, <1>8, <1>9, <1>10

\* Whoever writes the binding writes a binding.
LEMMA BindingWriters ==
    ASSUME IInv,
           \/ \E S \in SUBSET Clusters : Schedule(S)
           \/ \E S \in Dependents : Require(S)
           \/ \E c \in Clusters, mode \in {"Gracefully", "Directly"} : Evict(c, mode)
           \/ \E c \in Clusters : EndTask(c)
           \/ BuildResourceBinding \/ CollectGarbage
    PROVE  IInv'
<1> USE DEF othersUnchanged, inputVars, bounds
<1>1. /\ Live => rb \in Binding
      /\ Event => events' \in 0..MaxEvents /\ faults' = faults
      /\ events \in 0..MaxEvents /\ unrecorded \in BOOLEAN
  BY Bounded DEF IInv, TypeOK, Live
<1>2. ASSUME NEW S \in SUBSET Clusters, Schedule(S) PROVE IInv'
  <2>1. Live /\ Write([rb EXCEPT !.clusters = S])
    BY <1>2 DEF Schedule
  <2>2. [rb EXCEPT !.clusters = S] \in Binding
    BY <1>1, <2>1 DEF Binding
  <2> QED
    BY <1>1, <1>2, <2>1, <2>2, WriteStep DEF Schedule
<1>3. ASSUME NEW S \in Dependents, Require(S) PROVE IInv'
  <2>1. Live /\ Write([rb EXCEPT !.requiredBy = S])
    BY <1>3 DEF Require
  <2>2. [rb EXCEPT !.requiredBy = S] \in Binding
    BY <1>1, <2>1, PropagationAssumption DEF Binding
  <2> QED
    BY <1>1, <1>3, <2>1, <2>2, WriteStep DEF Require
<1>4. ASSUME NEW c \in Clusters, NEW mode \in {"Gracefully", "Directly"}, Evict(c, mode) PROVE IInv'
  <2> DEFINE b == [rb EXCEPT !.clusters = @ \ {c}, !.tasks[c] = mode]
  <2>1. Live /\ Write(b)
    BY <1>4 DEF Evict
  <2>2. b \in Binding
    BY <1>1, <2>1 DEF Binding, TaskModes
  <2> HIDE DEF b
  <2> QED
    BY <1>1, <1>4, <2>1, <2>2, WriteStep DEF Evict
<1>5. ASSUME NEW c \in Clusters, EndTask(c) PROVE IInv'
  <2>1. Live /\ Write([rb EXCEPT !.tasks[c] = "none"])
    BY <1>5 DEF EndTask
  <2>2. [rb EXCEPT !.tasks[c] = "none"] \in Binding
    BY <1>1, <2>1 DEF Binding, TaskModes
  <2> QED
    BY <1>1, <1>5, <2>1, <2>2, WriteStep DEF EndTask
<1>6. ASSUME BuildResourceBinding PROVE IInv'
  <2>1. Live /\ Write(rb)
    BY <1>6 DEF BuildResourceBinding
  <2>2. rb \in Binding
    BY <1>1, <2>1 DEF Binding
  <2> QED
    BY <1>1, <1>6, <2>1, <2>2, WriteStep DEF BuildResourceBinding
<1>7. ASSUME CollectGarbage PROVE IInv'
  <2>1. Live /\ Write([rb EXCEPT !.deleting = TRUE])
    BY <1>7 DEF CollectGarbage
  <2>2. [rb EXCEPT !.deleting = TRUE] \in Binding
    BY <1>1, <2>1 DEF Binding
  <2> QED
    BY <1>1, <1>7, <2>1, <2>2, WriteStep DEF CollectGarbage
<1> QED
  BY <1>2, <1>3, <1>4, <1>5, <1>6, <1>7

-----------------------------------------------------------------------------
(***************************************************************************)
(* A changed template is unrecorded, a changed override policy queues the  *)
(* binding.                                                                *)
(***************************************************************************)
LEMMA InputStep ==
    ASSUME IInv,
           \/ \E t \in Templates : UpdateTemplate(t)
           \/ \E o \in Overrides : UpdateOverridePolicy(o)
           \/ DeleteTemplate
    PROVE  IInv'
<1> USE DEF IInv
<1>1. /\ UNCHANGED <<rb, works, cmRB, cmWorks, sync, missed, faults>>
      /\ template' \in Templates \cup {NoTemplate} /\ override' \in Overrides
      /\ unrecorded' \in BOOLEAN /\ queued' \in BOOLEAN /\ events' \in 0..MaxEvents
  <2> USE Bounded DEF TypeOK, othersUnchanged, cacheVars, Live
  <2>1. CASE \E t \in Templates : UpdateTemplate(t)
    BY <2>1 DEF UpdateTemplate
  <2>2. CASE \E o \in Overrides : UpdateOverridePolicy(o)
    BY <2>2 DEF UpdateOverridePolicy
  <2>3. CASE DeleteTemplate
    BY <2>3 DEF DeleteTemplate
  <2> QED
    BY <2>1, <2>2, <2>3
<1>2. TypeOK'
  BY <1>1 DEF TypeOK
<1>3. CacheIsPast' /\ SyncFitsCopy' /\ SeenOrMissed' /\ DeletedSoFar' /\ PurgedFirst'
      /\ GoneLeavesNoWork'
  BY <1>1 DEF CacheIsPast, SyncFitsCopy, SeenOrMissed, DeletedSoFar, PurgedFirst,
     GoneLeavesNoWork, Leaving, Unwanted, ObtainBindingSpecExistingClusters,
     MergeTargetClusters, PurgedDirectly, ClustersWithPurgeModeDirectly
<1>4. ~Informed'
  <2>1. CASE \E t \in Templates : UpdateTemplate(t)
    BY <1>1, <2>1 DEF UpdateTemplate, Informed, Live
  <2>2. CASE \E o \in Overrides : UpdateOverridePolicy(o)
    BY <1>1, <2>2 DEF UpdateOverridePolicy, Informed, Live
  <2>3. CASE DeleteTemplate
    BY <1>1, <2>3 DEF DeleteTemplate, Informed
  <2> QED
    BY <2>1, <2>2, <2>3
<1> QED
  BY <1>2, <1>3, <1>4 DEF DoneSoFar

-----------------------------------------------------------------------------
(***************************************************************************)
(* Works that are being deleted go, and the caches catch up.               *)
(***************************************************************************)
LEMMA FinishWorkStep ==
    ASSUME IInv, NEW c \in Clusters, FinishWork(c)
    PROVE  IInv'
<1> USE DEF IInv
<1>1. /\ UNCHANGED <<rb, template, override, unrecorded, cmRB, cmWorks, queued, sync, missed,
                     events, faults>>
      /\ works' = [works EXCEPT ![c] = NoWork]
      /\ works[c] # NoWork /\ works[c].deleting
  BY DEF FinishWork, inputVars, cacheVars, bounds
<1>2. /\ works'[c] = NoWork
      /\ \A d \in Clusters : d # c => works'[d] = works[d]
      /\ works' \in [Clusters -> Work \cup {NoWork}]
  BY <1>1 DEF TypeOK
<1>3. /\ \A d \in Clusters : Leaving(works[d]) => Leaving(works[d])'
      /\ \A d \in Clusters : UpToDate(works[d]) => UpToDate(works[d])'
      /\ \A d \in Clusters : works'[d] # NoWork => works[d] # NoWork
  BY <1>1, <1>2 DEF Leaving, UpToDate
<1>4. TypeOK'
  BY <1>1, <1>2 DEF TypeOK
<1>5. \A r \in Reconciliation : /\ MergeTargetClusters(r.rb) \subseteq Clusters
                                /\ Unwanted(r.rb) \subseteq Clusters
                                /\ PurgedDirectly(r.rb) \subseteq Clusters
  BY Distinct DEF PurgedDirectly, ClustersWithPurgeModeDirectly
<1>6. sync \in Reconciliation \/ sync.pc = "idle"
  BY DEF TypeOK, Idle
<1>7. CacheIsPast' /\ SyncFitsCopy'
  BY <1>1 DEF CacheIsPast, SyncFitsCopy, Unwanted, ObtainBindingSpecExistingClusters,
     MergeTargetClusters
<1>8. SeenOrMissed'
  <2> SUFFICES ASSUME sync.pc = "orphans", NEW d \in Unwanted(sync.rb), works'[d] # NoWork,
                      cmWorks[d] = NoWork
               PROVE  d \in missed /\ d \notin sync.todo
    BY <1>1 DEF SeenOrMissed, Unwanted, ObtainBindingSpecExistingClusters, MergeTargetClusters
  <2>1. d \in Clusters
    BY <1>5, <1>6
  <2> QED
    BY <1>3, <2>1 DEF SeenOrMissed
<1>9. DeletedSoFar' /\ GoneLeavesNoWork'
  BY <1>1, <1>3 DEF DeletedSoFar, GoneLeavesNoWork, Leaving
<1>10. PurgedFirst'
  BY <1>1, <1>3, <1>5, <1>6 DEF PurgedFirst, PurgedDirectly, ClustersWithPurgeModeDirectly,
     MergeTargetClusters
<1>11. DoneSoFar'
  <2> SUFFICES ASSUME Informed PROVE DoneSoFar'
    BY <1>1 DEF DoneSoFar, Informed, Live
  <2>1. rb \in Binding /\ MergeTargetClusters(rb) \subseteq Clusters /\ Unwanted(rb) \subseteq Clusters
    BY Distinct DEF Informed, Live, TypeOK
  <2>2. MergeTargetClusters(rb)' = MergeTargetClusters(rb) /\ Unwanted(rb)' = Unwanted(rb)
    BY <1>1 DEF MergeTargetClusters, Unwanted, ObtainBindingSpecExistingClusters
  <2> QED
    BY <1>1, <1>3, <2>1, <2>2 DEF DoneSoFar
<1> QED
  BY <1>4, <1>7, <1>8, <1>9, <1>10, <1>11

LEMMA OnBindingStep ==
    ASSUME IInv, OnBinding
    PROVE  IInv'
<1> USE DEF IInv
<1>1. /\ UNCHANGED <<rb, template, override, unrecorded, works, cmWorks, sync, missed, events,
                     faults>>
      /\ cmRB' = rb /\ queued' = TRUE
  BY DEF OnBinding, inputVars, bounds
<1>2. TypeOK'
  BY <1>1 DEF TypeOK
<1>3. CacheIsPast'
  BY <1>1, Distinct DEF CacheIsPast, TypeOK
<1>4. SyncFitsCopy'
  BY <1>1 DEF SyncFitsCopy, CacheIsPast, Unwanted, ObtainBindingSpecExistingClusters,
     MergeTargetClusters
<1>5. SeenOrMissed' /\ DeletedSoFar' /\ PurgedFirst' /\ GoneLeavesNoWork'
  BY <1>1 DEF SeenOrMissed, DeletedSoFar, PurgedFirst, GoneLeavesNoWork, Leaving, Unwanted,
     ObtainBindingSpecExistingClusters, MergeTargetClusters, PurgedDirectly,
     ClustersWithPurgeModeDirectly
<1>6. DoneSoFar'
  BY <1>1 DEF DoneSoFar, Informed
<1> QED
  BY <1>2, <1>3, <1>4, <1>5, <1>6

LEMMA OnWorkStep ==
    ASSUME IInv, NEW c \in Clusters, OnWork(c)
    PROVE  IInv'
<1> USE DEF IInv
<1>1. /\ UNCHANGED <<rb, template, override, unrecorded, works, cmRB, queued, sync, missed, events,
                     faults>>
      /\ cmWorks' = [cmWorks EXCEPT ![c] = works[c]]
  BY DEF OnWork, inputVars, bounds
<1>2. TypeOK'
  BY <1>1 DEF TypeOK
<1>3. CacheIsPast' /\ SyncFitsCopy' /\ DeletedSoFar' /\ PurgedFirst' /\ GoneLeavesNoWork'
  BY <1>1 DEF CacheIsPast, SyncFitsCopy, DeletedSoFar, PurgedFirst, GoneLeavesNoWork, Leaving,
     Unwanted, ObtainBindingSpecExistingClusters, MergeTargetClusters, PurgedDirectly,
     ClustersWithPurgeModeDirectly
<1>4. SeenOrMissed'
  <2> SUFFICES ASSUME sync.pc = "orphans", NEW d \in Unwanted(sync.rb), works[d] # NoWork,
                      cmWorks'[d] = NoWork
               PROVE  d \in missed /\ d \notin sync.todo
    BY <1>1 DEF SeenOrMissed, Unwanted, ObtainBindingSpecExistingClusters, MergeTargetClusters
  <2>1. sync \in Reconciliation
    BY DEF TypeOK, Idle
  <2>2. d \in Clusters
    BY <2>1, Distinct
  <2>3. cmWorks[d] = NoWork
    BY <1>1, <2>2 DEF TypeOK
  <2> QED
    BY <2>3 DEF SeenOrMissed
<1>5. DoneSoFar'
  BY <1>1 DEF DoneSoFar, Informed, Live, Leaving, UpToDate, Unwanted,
     ObtainBindingSpecExistingClusters, MergeTargetClusters
<1> QED
  BY <1>2, <1>3, <1>4, <1>5

-----------------------------------------------------------------------------
(***************************************************************************)
(* A reconciliation that ends, or is cut short, and that left something to *)
(* do is queued again.                                                     *)
(***************************************************************************)
LEMMA EndStep ==
    ASSUME IInv, sync' = Idle, queued' \in BOOLEAN, ~Informed',
           cmRB' = cmRB \/ cmRB' = rb,
           cmWorks' \in [Clusters -> Work \cup {NoWork}],
           faults' \in 0..MaxFaults,
           UNCHANGED <<rb, inputVars, works, missed, events>>
    PROVE  IInv'
<1> USE DEF IInv
<1>1. sync'.pc = "idle"
  BY DEF Idle
<1>2. TypeOK'
  BY DEF TypeOK, inputVars
<1>3. CacheIsPast'
  BY Distinct DEF CacheIsPast, TypeOK
<1>4. SyncFitsCopy' /\ SeenOrMissed' /\ DeletedSoFar' /\ PurgedFirst' /\ DoneSoFar'
  BY <1>1 DEF SyncFitsCopy, SeenOrMissed, DeletedSoFar, PurgedFirst, DoneSoFar
<1>5. GoneLeavesNoWork'
  BY DEF GoneLeavesNoWork, Leaving
<1> QED
  BY <1>2, <1>3, <1>4, <1>5

LEMMA RestartStep ==
    ASSUME IInv, Restart
    PROVE  IInv'
<1>1. ~Informed'
  BY DEF Restart, Informed, Live
<1>2. faults' \in 0..MaxFaults /\ events' = events
  BY Bounded DEF IInv, Restart
<1> QED
  BY <1>1, <1>2, EndStep DEF IInv, TypeOK, Restart

LEMMA FailCallStep ==
    ASSUME IInv, FailCall
    PROVE  IInv'
<1>1. queued' = TRUE /\ sync' = Idle
  BY DEF FailCall, End, IInv, TypeOK
<1>2. faults' \in 0..MaxFaults /\ events' = events
  BY Bounded DEF IInv, FailCall
<1> QED
  BY <1>1, <1>2, EndStep DEF IInv, TypeOK, FailCall, Informed, cacheVars

\* After a loop's last cluster: an error or a Work purged Directly queues the key
\* again; without a template nobody is informed; else the Works of the
\* unwanted clusters are leaving and the second loop starts.
LEMMA RemovedOrphansStep ==
    ASSUME IInv, RemovedOrphans
    PROVE  IInv'
<1> USE DEF IInv
<1>0. /\ UNCHANGED <<rb, template, override, unrecorded, works, cmRB, cmWorks, missed, events,
                     faults>>
      /\ sync.pc = "orphans" /\ sync.todo = {}
  BY DEF RemovedOrphans, inputVars, cacheVars, bounds
<1>1. sync \in Reconciliation /\ sync # Idle /\ sync.rb \in Binding /\ ~sync.rb.deleting
      /\ sync.failed \in BOOLEAN
  BY <1>0, Distinct DEF TypeOK, Idle, SyncFitsCopy
<1>2. CASE sync' = Idle
  <2>1. queued' = TRUE \/ template = NoTemplate
    BY <1>2, Distinct DEF RemovedOrphans, End, Begin, Idle
  <2>2. queued' \in BOOLEAN
    BY <1>2 DEF RemovedOrphans, End, TypeOK
  <2>3. ~Informed'
    BY <1>0, <2>1 DEF Informed
  <2> QED
    BY <1>0, <1>2, <2>2, <2>3, EndStep DEF TypeOK, inputVars
<1>3. CASE sync' # Idle
  <2>1. /\ ~sync.failed
        /\ CachedWorks(ClustersWithPurgeModeDirectly(sync.rb)) = {}
        /\ template # NoTemplate
        /\ sync' = [pc |-> "ensure", rb |-> sync.rb, todo |-> MergeTargetClusters(sync.rb),
                    template |-> template, failed |-> FALSE]
        /\ queued' = queued
    BY <1>3 DEF RemovedOrphans, End, Begin
  <2>2. /\ sync'.pc = "ensure" /\ sync'.rb = sync.rb /\ sync'.template = template
        /\ sync'.todo = MergeTargetClusters(sync.rb)
    BY <2>1
  <2>3. template \in Templates /\ MergeTargetClusters(sync.rb) \in SUBSET Clusters
    BY <1>1, <2>1, Distinct DEF TypeOK
  <2>4. sync' \in Reconciliation
    BY <1>1, <2>1, <2>3 DEF Reconciliation
  <2>5. TypeOK'
    BY <1>0, <2>1, <2>4 DEF TypeOK
  <2>6. CacheIsPast' /\ GoneLeavesNoWork'
    BY <1>0 DEF CacheIsPast, GoneLeavesNoWork, Leaving
  <2>7. SyncFitsCopy'
    BY <1>0, <1>1, <2>2, <2>3 DEF SyncFitsCopy, MergeTargetClusters
  <2>8. SeenOrMissed' /\ DeletedSoFar'
    BY <2>2 DEF SeenOrMissed, DeletedSoFar
  <2>9. PurgedFirst'
    <3> SUFFICES ASSUME NEW c \in PurgedDirectly(sync.rb) \ missed
                 PROVE  works[c] = NoWork
      BY <1>0, <2>2 DEF PurgedFirst, PurgedDirectly, ClustersWithPurgeModeDirectly,
         MergeTargetClusters
    <3>1. c \in ClustersWithPurgeModeDirectly(sync.rb) /\ c \in Clusters
      BY DEF PurgedDirectly, ClustersWithPurgeModeDirectly
    <3>2. cmWorks[c] = NoWork
      BY <2>1, <3>1 DEF CachedWorks
    <3>3. c \in Unwanted(sync.rb)
      BY <1>1, UnwantedFacts
    <3> QED
      BY <1>0, <3>2, <3>3 DEF SeenOrMissed
  <2>10. DoneSoFar'
    <3> SUFFICES ASSUME Informed PROVE DoneSoFar'
      BY <1>0, <2>1 DEF DoneSoFar, Informed, Live
    <3>1. /\ sync.rb = rb
          /\ \A c \in Unwanted(rb) \ missed : Leaving(works[c])
      BY <1>0, <1>1, <2>1 DEF DoneSoFar
    <3>2. \A c \in Unwanted(rb)' \ missed' : Leaving(works[c])'
      BY <1>0, <3>1 DEF Leaving, Unwanted, ObtainBindingSpecExistingClusters, MergeTargetClusters
    <3>3. MergeTargetClusters(rb)' \ sync'.todo = {}
      BY <1>0, <2>2, <3>1 DEF MergeTargetClusters
    <3> QED
      BY <1>0, <1>3, <2>2, <3>1, <3>2, <3>3 DEF DoneSoFar
  <2> QED
    BY <2>5, <2>6, <2>7, <2>8, <2>9, <2>10
<1> QED
  BY <1>2, <1>3

LEMMA EnsuredWorksStep ==
    ASSUME IInv, EnsuredWorks
    PROVE  IInv'
<1> USE DEF IInv
<1>0. /\ UNCHANGED <<rb, template, override, unrecorded, works, cmRB, cmWorks, missed, events,
                     faults>>
      /\ sync.pc = "ensure" /\ sync.todo = {}
      /\ sync' = Idle /\ queued' = (queued \/ sync.failed)
  BY DEF EnsuredWorks, End, inputVars, cacheVars, bounds
<1>1. sync \in Reconciliation /\ sync # Idle /\ sync.rb \in Binding /\ ~sync.rb.deleting
      /\ sync.failed \in BOOLEAN
  BY <1>0, Distinct DEF TypeOK, Idle, SyncFitsCopy
<1>2. queued' \in BOOLEAN
  BY <1>0
<1>3. CASE ~Informed'
  BY <1>0, <1>2, <1>3, EndStep DEF TypeOK, inputVars
<1>4. CASE Informed'
  <2>1. Informed /\ ~sync.failed
    BY <1>0, <1>4 DEF Informed, Live
  <2>2. /\ sync.rb = rb
        /\ \A c \in Unwanted(rb) \ missed : Leaving(works[c])
        /\ \A c \in MergeTargetClusters(rb) \ missed : UpToDate(works[c])
    BY <1>0, <1>1, <2>1 DEF DoneSoFar
  <2>3. sync'.pc = "idle"
    BY <1>0 DEF Idle
  <2>4. TypeOK'
    BY <1>0, <1>2 DEF TypeOK
  <2>5. CacheIsPast' /\ GoneLeavesNoWork'
    BY <1>0 DEF CacheIsPast, GoneLeavesNoWork, Leaving
  <2>6. SyncFitsCopy' /\ SeenOrMissed' /\ DeletedSoFar' /\ PurgedFirst'
    BY <1>0, <2>3 DEF SyncFitsCopy, SeenOrMissed, DeletedSoFar, PurgedFirst
  <2>7. /\ \A c \in Unwanted(rb)' \ missed' : Leaving(works[c])'
        /\ \A c \in MergeTargetClusters(rb)' \ missed' : UpToDate(works[c])'
    BY <1>0, <2>2 DEF Leaving, UpToDate, Unwanted, ObtainBindingSpecExistingClusters,
       MergeTargetClusters
  <2>8. DoneSoFar'
    BY <1>0, <2>3, <2>7 DEF DoneSoFar
  <2> QED
    BY <2>4, <2>5, <2>6, <2>8
<1> QED
  BY <1>3, <1>4

\* A binding that goes has seen its Works off, and its cached copy is a
\* deleted one.
LEMMA RemoveFinalizerStep ==
    ASSUME IInv, RemoveFinalizer
    PROVE  IInv'
<1> USE DEF IInv
<1>0. /\ UNCHANGED <<template, override, unrecorded, works, cmRB, cmWorks, missed, events, faults>>
      /\ sync.pc = "delete" /\ sync.todo = {} /\ sync' = Idle
      /\ rb' = IF sync.failed \/ sync.rb # rb THEN rb ELSE Gone
      /\ queued' = (queued \/ (sync.failed \/ sync.rb # rb))
  BY DEF RemoveFinalizer, End, inputVars, cacheVars, bounds
<1>1. sync \in Reconciliation /\ sync # Idle /\ sync.rb \in Binding /\ sync.rb.deleting
      /\ sync.failed \in BOOLEAN
  BY <1>0, Distinct DEF TypeOK, Idle, SyncFitsCopy
<1>2. queued' \in BOOLEAN
  BY <1>0
<1>3. CASE sync.failed \/ sync.rb # rb
  <2>1. rb' = rb /\ queued' = TRUE
    BY <1>0, <1>3
  <2>2. ~Informed'
    BY <2>1 DEF Informed
  <2> QED
    BY <1>0, <1>2, <2>1, <2>2, EndStep DEF TypeOK, inputVars
<1>4. CASE ~sync.failed /\ sync.rb = rb
  <2>1. rb' = Gone
    BY <1>0, <1>4
  <2>2. cmRB = Gone \/ cmRB.deleting
    BY <1>0, <1>1 DEF SyncFitsCopy
  <2>3. sync'.pc = "idle"
    BY <1>0 DEF Idle
  <2>4. \A c \in Clusters \ missed : Leaving(works[c])
    BY <1>0, <1>4 DEF DeletedSoFar
  <2>5. TypeOK'
    BY <1>0, <1>2, <2>1 DEF TypeOK
  <2>6. CacheIsPast' /\ GoneLeavesNoWork'
    BY <1>0, <2>1, <2>2, <2>4 DEF CacheIsPast, GoneLeavesNoWork, Leaving
  <2>7. SyncFitsCopy' /\ SeenOrMissed' /\ DeletedSoFar' /\ PurgedFirst' /\ DoneSoFar'
    BY <1>0, <2>1, <2>3 DEF SyncFitsCopy, SeenOrMissed, DeletedSoFar, PurgedFirst, DoneSoFar,
       Informed, Live
  <2> QED
    BY <2>5, <2>6, <2>7
<1> QED
  BY <1>3, <1>4

-----------------------------------------------------------------------------
(***************************************************************************)
(* A key is taken: the Works that are to go are listed or missed.          *)
(***************************************************************************)
LEMMA ReconcileStep ==
    ASSUME IInv, Reconcile
    PROVE  IInv'
<1> USE DEF IInv
<1>0. /\ UNCHANGED <<rb, template, override, unrecorded, works, cmRB, cmWorks, events, faults>>
      /\ queued' = FALSE /\ sync = Idle
  BY DEF Reconcile, inputVars, cacheVars, bounds
<1>1. CASE cmRB = Gone
  <2>1. sync' = Idle /\ missed' = missed
    BY <1>0, <1>1 DEF Reconcile
  <2>2. rb = Gone
    BY <1>1 DEF CacheIsPast
  <2>3. ~Informed'
    BY <1>0, <2>2 DEF Informed, Live
  <2> QED
    BY <1>0, <2>1, <2>3, EndStep DEF TypeOK, inputVars
<1>2. CASE cmRB # Gone
  <2> DEFINE pc == IF cmRB.deleting THEN "delete" ELSE "orphans"
             U  == Unwanted(cmRB)
  <2>1. cmRB \in Binding /\ cmRB.deleting \in BOOLEAN /\ U \subseteq Clusters
    BY <1>2, Distinct DEF TypeOK
  <2>2. /\ sync' = [pc |-> pc, rb |-> cmRB, todo |-> CachedWorks(U), template |-> NoTemplate,
                    failed |-> FALSE]
        /\ missed' = missed \cup Overlooked(U)
    BY <1>2 DEF Reconcile, Begin, Unwanted
  <2>3. sync'.pc = pc /\ sync'.rb = cmRB /\ sync'.todo = CachedWorks(U) /\ sync'.failed = FALSE
    BY <2>2
  <2>4. /\ CachedWorks(U) \in SUBSET Clusters /\ CachedWorks(U) \subseteq U
        /\ Overlooked(U) \in SUBSET Clusters
        /\ \A c \in U : c \notin CachedWorks(U) => cmWorks[c] = NoWork
        /\ \A c \in U : works[c] # NoWork /\ cmWorks[c] = NoWork
                         => c \in Overlooked(U) /\ c \notin CachedWorks(U)
    BY <2>1 DEF CachedWorks, Overlooked
  <2>5. sync' \in Reconciliation
    BY <2>1, <2>2, <2>4 DEF Reconciliation
  <2>6. \A c \in U : c \notin CachedWorks(U) \cup missed' => Leaving(works[c])
    BY <2>2, <2>4 DEF Leaving
  <2>7. Unwanted(sync.rb)' = U /\ (cmRB.deleting => U = Clusters)
    BY <2>3 DEF Unwanted, ObtainBindingSpecExistingClusters, MergeTargetClusters
  <2>8. TypeOK'
    BY <1>0, <2>2, <2>4, <2>5 DEF TypeOK
  <2>9. CacheIsPast'
    BY <1>0 DEF CacheIsPast
  <2>10. GoneLeavesNoWork'
    BY <1>0, <2>2 DEF GoneLeavesNoWork, Leaving
  <2>11. SyncFitsCopy'
    BY <1>0, <1>2, <2>1, <2>3, <2>4, <2>7 DEF SyncFitsCopy, CacheIsPast
  <2>12. SeenOrMissed'
    <3> SUFFICES ASSUME pc = "orphans", NEW c \in U, works[c] # NoWork, cmWorks[c] = NoWork
                 PROVE  c \in missed' /\ c \notin CachedWorks(U)
      BY <1>0, <2>3, <2>7 DEF SeenOrMissed
    <3> QED
      BY <2>2, <2>4
  <2>13. DeletedSoFar'
    <3> SUFFICES ASSUME cmRB.deleting, NEW c \in Clusters \ (CachedWorks(U) \cup missed')
                 PROVE  Leaving(works[c])
      BY <1>0, <2>3 DEF DeletedSoFar, Leaving
    <3> QED
      BY <2>6, <2>7
  <2>14. PurgedFirst'
    BY <2>3 DEF PurgedFirst
  <2>15. DoneSoFar'
    <3> SUFFICES ASSUME Informed' PROVE DoneSoFar'
      BY DEF DoneSoFar
    <3>1. cmRB = rb /\ ~rb.deleting
      BY <1>0 DEF Informed, Live
    <3>2. \A c \in Unwanted(rb)' \ (sync'.todo \cup missed') : Leaving(works[c])'
      BY <1>0, <2>3, <2>6, <2>7, <3>1 DEF Leaving, Unwanted, ObtainBindingSpecExistingClusters,
         MergeTargetClusters
    <3>3. sync' # Idle /\ sync'.pc = "orphans"
      BY <2>3, <2>5, <3>1, Distinct
    <3> QED
      BY <1>0, <2>3, <3>1, <3>2, <3>3 DEF DoneSoFar
  <2> QED
    BY <2>8, <2>9, <2>10, <2>11, <2>12, <2>13, <2>14, <2>15
<1> QED
  BY <1>1, <1>2

-----------------------------------------------------------------------------
(***************************************************************************)
(* One cluster of a loop.                                                  *)
(***************************************************************************)
\* What a step of a loop does to the reconciliation.
LEMMA StepFacts ==
    ASSUME NEW c \in Clusters, NEW ok \in BOOLEAN, sync \in Reconciliation, Step(c, ok)
    PROVE  /\ sync' \in Reconciliation /\ sync' # Idle /\ sync # Idle
           /\ sync'.pc = sync.pc /\ sync'.rb = sync.rb /\ sync'.template = sync.template
           /\ sync'.todo = sync.todo \ {c}
           /\ sync'.failed = (sync.failed \/ ~ok)
<1>1. sync' = [sync EXCEPT !.todo = @ \ {c}, !.failed = @ \/ ~ok]
  BY DEF Step
<1>2. /\ sync'.pc = sync.pc /\ sync'.rb = sync.rb /\ sync'.template = sync.template
      /\ sync'.todo = sync.todo \ {c}
      /\ sync'.failed = (sync.failed \/ ~ok)
  BY <1>1 DEF Reconciliation
<1>3. (sync.failed \/ ~ok) \in BOOLEAN
  BY DEF Reconciliation
<1>4. sync' \in Reconciliation
  BY <1>1, <1>3 DEF Reconciliation
<1> QED
  BY <1>2, <1>4, Distinct

\* A cluster that fails puts nothing right and nothing wrong.
LEMMA FailedStep ==
    ASSUME IInv, NEW c \in Clusters, sync # Idle, c \in sync.todo, Step(c, FALSE),
           faults' \in 0..MaxFaults, missed' \in SUBSET Clusters,
           missed' = missed \/ (missed' = missed \ {c} /\ works[c] = NoWork),
           UNCHANGED <<rb, inputVars, works, cacheVars, queued, events>>
    PROVE  IInv'
<1> USE DEF IInv
<1>0. sync \in Reconciliation /\ sync.pc # "idle"
  BY Distinct DEF TypeOK
<1>1. /\ sync' \in Reconciliation /\ sync' # Idle
      /\ sync'.pc = sync.pc /\ sync'.rb = sync.rb /\ sync'.template = sync.template
      /\ sync'.todo = sync.todo \ {c} /\ sync'.failed = TRUE
  BY <1>0, StepFacts
<1>2. UNCHANGED <<rb, template, override, unrecorded, works, cmRB, cmWorks, queued, events>>
  BY DEF inputVars, cacheVars
<1>3. Unwanted(sync.rb)' = Unwanted(sync.rb) /\ PurgedDirectly(sync.rb)' = PurgedDirectly(sync.rb)
      /\ MergeTargetClusters(sync.rb)' = MergeTargetClusters(sync.rb)
      /\ Unwanted(rb)' = Unwanted(rb) /\ MergeTargetClusters(rb)' = MergeTargetClusters(rb)
  BY <1>1, <1>2 DEF Unwanted, ObtainBindingSpecExistingClusters, MergeTargetClusters,
     PurgedDirectly, ClustersWithPurgeModeDirectly
<1>4. TypeOK'
  BY <1>1, <1>2 DEF TypeOK
<1>5. CacheIsPast' /\ GoneLeavesNoWork'
  BY <1>2 DEF CacheIsPast, GoneLeavesNoWork, Leaving
<1>6. SyncFitsCopy'
  BY <1>0, <1>1, <1>2, <1>3, Distinct DEF SyncFitsCopy
<1>7. SeenOrMissed' /\ DeletedSoFar' /\ PurgedFirst'
  BY <1>1, <1>2, <1>3 DEF SeenOrMissed, DeletedSoFar, PurgedFirst
<1>8. DoneSoFar'
  <2> SUFFICES ASSUME Informed PROVE DoneSoFar'
    BY <1>2 DEF DoneSoFar, Informed, Live
  <2>1. sync.rb = rb
    BY DEF DoneSoFar
  <2>2. sync.pc = "ensure" => \A d \in Unwanted(rb) \ missed' : Leaving(works[d])
    BY DEF DoneSoFar, Leaving
  <2>3. sync'.pc = "ensure" => \A d \in Unwanted(rb)' \ missed' : Leaving(works[d])'
    BY <1>1, <1>2, <1>3, <2>2 DEF Leaving
  <2>4. sync'.pc = "ensure" => sync'.template = template'
    BY <1>1, <1>2 DEF DoneSoFar
  <2> QED
    BY <1>1, <1>2, <2>1, <2>3, <2>4 DEF DoneSoFar
<1> QED
  BY <1>4, <1>5, <1>6, <1>7, <1>8

LEMMA FailWorkStep ==
    ASSUME IInv, NEW c \in Clusters, FailWork(c)
    PROVE  IInv'
<1>1. faults' \in 0..MaxFaults /\ events' = events
  BY Bounded DEF IInv, FailWork
<1>2. missed' = missed /\ missed' \in SUBSET Clusters
  BY DEF IInv, TypeOK, FailWork
<1>3. sync # Idle /\ c \in sync.todo /\ Step(c, FALSE)
  BY DEF FailWork
<1>4. UNCHANGED <<rb, inputVars, works, cacheVars, queued, events>>
  BY <1>1 DEF FailWork
<1>5. missed' = missed \/ (missed' = missed \ {c} /\ works[c] = NoWork)
  BY <1>2
<1> QED
  BY <1>1, <1>2, <1>3, <1>4, <1>5, FailedStep

\* A Work that is deleted is leaving; one that has already gone has left.
LEMMA DeleteWorkStep ==
    ASSUME IInv, NEW c \in Clusters, DeleteWork(c)
    PROVE  IInv'
<1> USE DEF IInv
<1>0. /\ UNCHANGED <<rb, template, override, unrecorded, cmRB, cmWorks, queued, events, faults>>
      /\ sync.pc \in {"orphans", "delete"} /\ c \in sync.todo
      /\ missed' = missed \ {c}
  BY DEF DeleteWork, inputVars, cacheVars, bounds
<1>1. sync \in Reconciliation /\ sync # Idle /\ sync.rb \in Binding /\ sync.pc # "ensure"
  BY <1>0, Distinct DEF TypeOK, Idle
<1>2. CASE works[c] = NoWork /\ sync.pc = "orphans"
  <2>1. Step(c, FALSE) /\ UNCHANGED works
    BY <1>0, <1>2 DEF DeleteWork
  <2>2. missed' \in SUBSET Clusters /\ faults' \in 0..MaxFaults
    BY <1>0 DEF TypeOK
  <2> QED
    BY <1>0, <1>1, <1>2, <2>1, <2>2, FailedStep DEF inputVars, cacheVars
<1>3. CASE ~(works[c] = NoWork /\ sync.pc = "orphans")
  <2>1. Step(c, TRUE)
    BY <1>0, <1>3 DEF DeleteWork
  <2>2. /\ sync' \in Reconciliation /\ sync' # Idle
        /\ sync'.pc = sync.pc /\ sync'.rb = sync.rb /\ sync'.template = sync.template
        /\ sync'.todo = sync.todo \ {c} /\ sync'.failed = (sync.failed \/ ~TRUE)
    BY <1>1, <2>1, StepFacts
  <2>3. /\ works' \in [Clusters -> Work \cup {NoWork}]
        /\ Leaving(works[c])'
        /\ \A d \in Clusters : d # c => works'[d] = works[d]
        /\ \A d \in Clusters : works'[d] = NoWork <=> works[d] = NoWork
    <3>1. CASE works[c] = NoWork
      BY <3>1 DEF DeleteWork, TypeOK, Leaving
    <3>2. CASE works[c] # NoWork
      <4>1. works' = [works EXCEPT ![c].deleting = TRUE] /\ works[c] \in Work
        BY <3>2 DEF DeleteWork, TypeOK
      <4>2. [works[c] EXCEPT !.deleting = TRUE] \in Work
        BY <4>1 DEF Work
      <4>3. works'[c] = [works[c] EXCEPT !.deleting = TRUE]
        BY <4>1 DEF TypeOK
      <4>4. works'[c].deleting = TRUE /\ works'[c] # NoWork
        BY <4>1, <4>2, <4>3, Distinct DEF Work
      <4>5. \A d \in Clusters : d # c => works'[d] = works[d]
        BY <4>1 DEF TypeOK
      <4>6. works' \in [Clusters -> Work \cup {NoWork}]
        BY <4>1, <4>2 DEF TypeOK
      <4> QED
        BY <3>2, <4>4, <4>5, <4>6 DEF Leaving
    <3> QED
      BY <3>1, <3>2
  <2>4. \A d \in Clusters : Leaving(works[d]) => Leaving(works[d])'
    BY <2>3 DEF Leaving
  <2>5. Unwanted(sync.rb)' = Unwanted(sync.rb) /\ Unwanted(sync.rb) \subseteq Clusters
        /\ Unwanted(rb)' = Unwanted(rb)
    BY <1>0, <1>1, <2>2, Distinct DEF Unwanted, ObtainBindingSpecExistingClusters,
       MergeTargetClusters
  <2>6. TypeOK'
    BY <1>0, <2>2, <2>3 DEF TypeOK
  <2>7. CacheIsPast'
    BY <1>0 DEF CacheIsPast
  <2>8. GoneLeavesNoWork'
    BY <1>0, <2>3, <2>4 DEF GoneLeavesNoWork
  <2>9. SyncFitsCopy'
    BY <1>0, <1>1, <2>2, <2>5 DEF SyncFitsCopy
  <2>10. SeenOrMissed'
    <3> SUFFICES ASSUME sync.pc = "orphans", NEW d \in Unwanted(sync.rb), works'[d] # NoWork,
                        cmWorks[d] = NoWork
                 PROVE  d \in missed' /\ d \notin sync'.todo
      BY <1>0, <2>2, <2>5 DEF SeenOrMissed
    <3>1. d \in missed /\ d \notin sync.todo
      BY <2>3, <2>5 DEF SeenOrMissed
    <3> QED
      BY <1>0, <2>2, <3>1
  <2>11. DeletedSoFar'
    BY <1>0, <2>2, <2>3, <2>4 DEF DeletedSoFar
  <2>12. PurgedFirst'
    BY <1>1, <2>2 DEF PurgedFirst
  <2>13. DoneSoFar'
    <3> SUFFICES ASSUME Informed PROVE DoneSoFar'
      BY <1>0 DEF DoneSoFar, Informed, Live
    <3>1. sync.rb = rb /\ Unwanted(rb) \subseteq Clusters
      BY <1>1, <2>5 DEF DoneSoFar
    <3>2. sync.pc = "orphans" =>
             \A d \in Unwanted(rb) \ (sync.todo \cup missed) : sync.failed \/ Leaving(works[d])
      BY DEF DoneSoFar
    <3>3. sync'.pc = "orphans" =>
             \A d \in Unwanted(rb)' \ (sync'.todo \cup missed') : sync'.failed \/ Leaving(works[d])'
      BY <1>0, <2>2, <2>3, <2>4, <2>5, <3>1, <3>2
    <3> QED
      BY <1>0, <1>1, <2>2, <3>1, <3>3 DEF DoneSoFar
  <2> QED
    BY <2>6, <2>7, <2>8, <2>9, <2>10, <2>11, <2>12, <2>13
<1> QED
  BY <1>2, <1>3

\* The Work of a named cluster is up to date, or the step failed, or the cluster
\* is missed.
LEMMA CreateOrUpdateWorkStep ==
    ASSUME IInv, NEW c \in Clusters, CreateOrUpdateWork(c)
    PROVE  IInv'
<1> USE DEF IInv
<1> DEFINE desired == [manifest |-> [template |-> sync.template, override |-> override],
                       deleting |-> FALSE]
<1>0. /\ UNCHANGED <<rb, template, override, unrecorded, cmRB, cmWorks, queued, events, faults>>
      /\ sync.pc = "ensure" /\ c \in sync.todo
  BY DEF CreateOrUpdateWork, inputVars, cacheVars, bounds
<1>1. sync \in Reconciliation /\ sync # Idle /\ sync.rb \in Binding /\ ~sync.rb.deleting
      /\ sync.template \in Templates /\ rb # Gone
      /\ c \in MergeTargetClusters(sync.rb)
  BY <1>0, Distinct DEF TypeOK, Idle, SyncFitsCopy
<1>2. desired \in Work /\ desired # NoWork
  BY <1>1, Distinct DEF TypeOK, Work, Manifest
<1>3. CASE Step(c, FALSE) /\ UNCHANGED <<works, missed>>
  <2>1. missed' \in SUBSET Clusters /\ faults' \in 0..MaxFaults
    BY <1>0, <1>3 DEF TypeOK
  <2>2. UNCHANGED <<rb, inputVars, works, cacheVars, queued, events>>
    BY <1>0, <1>3 DEF inputVars, cacheVars
  <2>3. missed' = missed \/ (missed' = missed \ {c} /\ works[c] = NoWork)
    BY <1>3
  <2> QED
    BY <1>0, <1>1, <1>3, <2>1, <2>2, <2>3, FailedStep
<1>4. CASE /\ Step(c, TRUE)
           /\ works' \in [Clusters -> Work \cup {NoWork}]
           /\ missed' \in SUBSET Clusters
           /\ works'[c] = desired \/ c \in missed'
           /\ \A d \in Clusters : d # c => works'[d] = works[d] /\ (d \in missed' <=> d \in missed)
  <2>1. /\ sync' \in Reconciliation /\ sync' # Idle
        /\ sync'.pc = sync.pc /\ sync'.rb = sync.rb /\ sync'.template = sync.template
        /\ sync'.todo = sync.todo \ {c} /\ sync'.failed = (sync.failed \/ ~TRUE)
    BY <1>1, <1>4, StepFacts
  <2>2. /\ MergeTargetClusters(sync.rb)' = MergeTargetClusters(sync.rb)
        /\ PurgedDirectly(sync.rb)' = PurgedDirectly(sync.rb)
        /\ MergeTargetClusters(rb)' = MergeTargetClusters(rb) /\ Unwanted(rb)' = Unwanted(rb)
    BY <1>0, <2>1 DEF Unwanted, ObtainBindingSpecExistingClusters, MergeTargetClusters,
       PurgedDirectly, ClustersWithPurgeModeDirectly
  <2>3. TypeOK'
    BY <1>0, <1>4, <2>1 DEF TypeOK
  <2>4. CacheIsPast' /\ GoneLeavesNoWork'
    BY <1>0, <1>1 DEF CacheIsPast, GoneLeavesNoWork
  <2>5. SyncFitsCopy'
    BY <1>0, <1>1, <2>1, <2>2 DEF SyncFitsCopy
  <2>6. SeenOrMissed' /\ DeletedSoFar'
    BY <1>0, <2>1 DEF SeenOrMissed, DeletedSoFar
  <2>7. PurgedFirst'
    <3>1. c \notin PurgedDirectly(sync.rb) /\ PurgedDirectly(sync.rb) \subseteq Clusters
      BY <1>1, UnwantedFacts DEF PurgedDirectly, ClustersWithPurgeModeDirectly
    <3> QED
      BY <1>0, <1>4, <2>1, <2>2, <3>1 DEF PurgedFirst
  <2>8. DoneSoFar'
    <3> SUFFICES ASSUME Informed PROVE DoneSoFar'
      BY <1>0 DEF DoneSoFar, Informed, Live
    <3>1. /\ sync.rb = rb /\ sync.template = template
          /\ \A d \in Unwanted(rb) \ missed : Leaving(works[d])
          /\ \A d \in MergeTargetClusters(rb) \ (sync.todo \cup missed) :
                 sync.failed \/ UpToDate(works[d])
      BY <1>0, <1>1 DEF DoneSoFar
    <3>2. /\ c \notin Unwanted(rb) /\ Unwanted(rb) \subseteq Clusters
          /\ MergeTargetClusters(rb) \subseteq Clusters
      BY <1>1, <3>1, UnwantedFacts, Distinct
    <3>3. \A d \in Unwanted(rb)' \ missed' : Leaving(works[d])'
      BY <1>4, <2>2, <3>1, <3>2 DEF Leaving
    <3>4. c \notin missed' => UpToDate(works[c])'
      BY <1>0, <1>2, <1>4, <3>1 DEF UpToDate
    <3>5. \A d \in MergeTargetClusters(rb)' \ (sync'.todo \cup missed') :
             sync'.failed \/ UpToDate(works[d])'
      <4> SUFFICES ASSUME NEW d \in MergeTargetClusters(rb), d \notin sync'.todo, d \notin missed'
                   PROVE  sync'.failed \/ UpToDate(works[d])'
        BY <2>2
      <4>1. CASE d = c
        BY <3>4, <4>1
      <4>2. CASE d # c
        BY <1>0, <1>4, <2>1, <3>1, <3>2, <4>2 DEF UpToDate
      <4> QED
        BY <4>1, <4>2
    <3> QED
      BY <1>0, <2>1, <3>1, <3>3, <3>5 DEF DoneSoFar
  <2> QED
    BY <2>3, <2>4, <2>5, <2>6, <2>7, <2>8
<1>5. CASE cmWorks[c] = desired
  <2>1. /\ Step(c, TRUE) /\ works' = works
        /\ missed' = IF works[c] = desired THEN missed \ {c} ELSE missed \cup {c}
    BY <1>5 DEF CreateOrUpdateWork
  <2> HIDE DEF desired
  <2> QED
    BY <1>4, <2>1 DEF TypeOK
<1>6. CASE cmWorks[c] # desired /\ works[c] = cmWorks[c] /\ (cmWorks[c] = NoWork \/ ~cmWorks[c].deleting)
  <2>1. /\ Step(c, TRUE) /\ works' = [works EXCEPT ![c] = desired]
        /\ missed' = missed \ {c}
    BY <1>6 DEF CreateOrUpdateWork
  <2> HIDE DEF desired
  <2> QED
    BY <1>2, <1>4, <2>1 DEF TypeOK
<1>7. CASE cmWorks[c] # desired /\ ~(works[c] = cmWorks[c] /\ (cmWorks[c] = NoWork \/ ~cmWorks[c].deleting))
  BY <1>3, <1>7 DEF CreateOrUpdateWork
<1> QED
  BY <1>5, <1>6, <1>7

-----------------------------------------------------------------------------
(***************************************************************************)
(* The theorems.                                                           *)
(***************************************************************************)
\* Every step preserves the invariant.
LEMMA NextIInv == IInv /\ [Next]_vars => IInv'
<1> SUFFICES ASSUME IInv, [Next]_vars PROVE IInv'
  OBVIOUS
<1>1. CASE Environment
  BY <1>1, BindingWriters, InputStep DEF Environment
<1>2. CASE Collaborators
  BY <1>2, BindingWriters, FinishWorkStep DEF Collaborators
<1>3. CASE Caches
  BY <1>3, OnBindingStep, OnWorkStep DEF Caches
<1>4. CASE Controller
  BY <1>4, ReconcileStep, DeleteWorkStep, CreateOrUpdateWorkStep, RemovedOrphansStep,
     EnsuredWorksStep, RemoveFinalizerStep DEF Controller
<1>5. CASE Failures
  BY <1>5, RestartStep, FailCallStep, FailWorkStep DEF Failures
<1>6. CASE UNCHANGED vars
  BY <1>6 DEF vars, inputVars, cacheVars, bounds, IInv, TypeOK, CacheIsPast, SyncFitsCopy,
     SeenOrMissed, DeletedSoFar, PurgedFirst, GoneLeavesNoWork, DoneSoFar, Informed, Live,
     Leaving, UpToDate, Unwanted, ObtainBindingSpecExistingClusters, MergeTargetClusters,
     PurgedDirectly, ClustersWithPurgeModeDirectly
<1> QED
  BY <1>1, <1>2, <1>3, <1>4, <1>5, <1>6 DEF Next

\* The invariant is one of the specification.
LEMMA Invariance == Spec => []IInv
<1>1. Init => IInv
  BY InitIInv
<1>2. IInv /\ [Next]_vars => IInv'
  BY NextIInv
<1> QED
  BY <1>1, <1>2, PTL DEF Spec

\* Types are kept: no Work is ever built from a template that is gone.
THEOREM TypeCorrect == Spec => []TypeOK
<1>1. IInv => TypeOK
  BY DEF IInv
<1> QED
  BY <1>1, Invariance, PTL

\* However the caches lag, clusters fail, processes restart and the binding
\* changes, a binding controller at rest has left every cluster right, except
\* one it was shown an old Work of (binding_controller.go:110-152).
THEOREM RestMeansPropagated == Spec => []QuietMeansPropagated
<1>1. IInv => QuietMeansPropagated
  <2> SUFFICES ASSUME IInv, Quiet, Live, template # NoTemplate, NEW c \in Clusters \ missed
               PROVE  IF c \in rb.clusters \cup rb.requiredBy THEN UpToDate(works[c])
                      ELSE rb.tasks[c] # "Gracefully" => Leaving(works[c])
    BY DEF QuietMeansPropagated
  <2>1. Informed /\ sync = Idle
    BY DEF Quiet, Informed
  <2>2. IF c \in MergeTargetClusters(rb) THEN UpToDate(works[c])
        ELSE c \in Unwanted(rb) => Leaving(works[c])
    BY <2>1 DEF IInv, DoneSoFar
  <2>3. rb \in Binding /\ ~rb.deleting
    BY DEF IInv, TypeOK, Live
  <2> QED
    BY <2>2, <2>3, UnwantedFacts DEF MergeTargetClusters
<1> QED
  BY <1>1, Invariance, PTL

\* A binding that is gone has left no Work behind that the controller could see
\* (DeleteWorks and removeFinalizer, binding_controller.go:83-107).
THEOREM GoneIsGone == Spec => []GoneLeavesNoWork
<1>1. IInv => GoneLeavesNoWork
  BY DEF IInv
<1> QED
  BY <1>1, Invariance, PTL

\* No Work is created while a cluster evicted with PurgeMode Directly has one the
\* controller could see (checkDirectPurgeOrphanWorks, binding_controller.go:174-183).
THEOREM OldGoesFirst == Spec => OldBeforeNew
<1> DEFINE A == \A d \in Clusters : works[d] = NoWork /\ works'[d] # NoWork =>
                   \A c \in PurgedDirectly(sync.rb) \ missed : works[c] = NoWork
<1>1. IInv /\ [Next]_vars => [A]_vars
  <2> SUFFICES ASSUME IInv, Next, NEW d \in Clusters, works[d] = NoWork, works'[d] # NoWork
               PROVE  \A c \in PurgedDirectly(sync.rb) \ missed : works[c] = NoWork
    OBVIOUS
  <2>1. works \in [Clusters -> Work \cup {NoWork}]
    BY DEF IInv, TypeOK
  <2>2. CASE Environment \/ Caches \/ Failures
    BY <2>2 DEF Environment, Caches, Failures, Schedule, Require, Evict, UpdateTemplate,
       UpdateOverridePolicy, DeleteTemplate, OnBinding, OnWork, Restart, FailCall, FailWork,
       othersUnchanged
  <2>3. CASE Collaborators
    BY <2>1, <2>3 DEF Collaborators, EndTask, FinishWork, BuildResourceBinding, CollectGarbage,
       othersUnchanged
  <2>4. CASE Controller
    <3>1. CASE \E c \in Clusters : CreateOrUpdateWork(c)
      BY <3>1 DEF CreateOrUpdateWork, IInv, PurgedFirst
    <3>2. CASE \E c \in Clusters : DeleteWork(c)
      BY <2>1, <3>2 DEF DeleteWork
    <3>3. CASE Reconcile \/ RemovedOrphans \/ EnsuredWorks \/ RemoveFinalizer
      BY <3>3 DEF Reconcile, RemovedOrphans, EnsuredWorks, RemoveFinalizer
    <3> QED
      BY <2>4, <3>1, <3>2, <3>3 DEF Controller
  <2> QED
    BY <2>2, <2>3, <2>4 DEF Next
<1> QED
  BY <1>1, Invariance, PTL DEF Spec, OldBeforeNew
=============================================================================
