--------------------------- MODULE AssigningCache ---------------------------
(***************************************************************************)
(* What the scheduler knows of its own last decisions: the cache of        *)
(* assigning bindings of karmada-scheduler and the workload anti-affinity  *)
(* plugin that relies on it (feature gate WorkloadAffinity).               *)
(*                                                                         *)
(* All Bindings are of one anti-affinity group.  One worker schedules one  *)
(* binding at a time; the informer's indexer lags behind the API server,   *)
(* and the informer's event handler lags behind the indexer.               *)
(*                                                                         *)
(* A binding's history is a sequence; a resource version is a position in  *)
(* it.  Results are patched without a lock, so each is the latest object   *)
(* with other clusters.                                                    *)
(***************************************************************************)
EXTENDS Integers, Sequences

CONSTANTS
    Bindings,     \* the bindings of one anti-affinity group
    Clusters,     \* the member clusters
    Gone,         \* the binding does not exist
    MaxWrites,    \* bound on the changes of all bindings
    MaxFaults     \* bound on lost answers, errors, relists and restarts

ASSUME AssigningAssumption == MaxWrites \in Nat /\ MaxFaults \in Nat

VARIABLES
    log,      \* the versions of each binding in the API server
    indexed,  \* the version in the informer's indexer
    pending,  \* versions the handler has not been told of
    seen,     \* the version the handler was last told of
    items,    \* AssigningResourceBindingCache.items: a version, or 0
    cycle,    \* the scheduling cycle under way, or Idle
    last,     \* the last version written by the scheduler, or 0; history
    blind,    \* bindings the scheduler has lost sight of once; history
    late,     \* bindings whose item the handler was never told of; history
    writes, faults

informerVars == <<indexed, pending, seen>>
historyVars  == <<last, blind, late>>
bounds       == <<writes, faults>>
vars         == <<log, informerVars, items, cycle, historyVars, bounds>>

\* spec.clusters and the condition FullyApplied.
Object == [clusters : SUBSET Clusters, applied : BOOLEAN]

ASSUME GoneAssumption == Gone \notin Object

Versions == 1..(MaxWrites + 1)

Idle == [pc |-> "idle"]

Cycle ==
    [pc : {"filter", "index", "add"},
     binding : Bindings,
     copy : Versions,                    \* the version it was read at
     todo : SUBSET Clusters,             \* clusters not yet filtered
     fit : SUBSET Clusters,              \* clusters that passed
     snapshot : [Bindings -> 0..(MaxWrites + 1)]]   \* GetBindings, for the next cluster

Latest(b)  == log[b][Len(log[b])]

Fresh == [clusters |-> {}, applied |-> FALSE]

NoItems == [b \in Bindings |-> 0]

Init ==
    /\ log = [b \in Bindings |-> <<Fresh>>]
    /\ indexed = [b \in Bindings |-> 1] /\ seen = indexed
    /\ pending = [b \in Bindings |-> <<>>]
    /\ items = NoItems /\ cycle = Idle
    /\ last = [b \in Bindings |-> 0] /\ blind = {} /\ late = {}
    /\ writes = 0 /\ faults = 0

Fault == faults < MaxFaults /\ faults' = faults + 1

Write(b, o) ==
    /\ writes < MaxWrites /\ writes' = writes + 1
    /\ log' = [log EXCEPT ![b] = Append(@, o)]

-----------------------------------------------------------------------------
(***************************************************************************)
(* Everybody else.  Only the scheduler adds clusters.                      *)
(***************************************************************************)
Other(b, o) ==
    /\ o # Latest(b)
    /\ Write(b, o)
    /\ UNCHANGED <<informerVars, items, cycle, historyVars, faults>>

Evict(b, c) ==
    Latest(b) # Gone /\ Other(b, [Latest(b) EXCEPT !.clusters = @ \ {c}])

AggregateStatus(b, applied) ==
    Latest(b) # Gone /\ Other(b, [Latest(b) EXCEPT !.applied = applied])

Delete(b) == Other(b, Gone)

Create(b) == Latest(b) = Gone /\ Other(b, Fresh)

-----------------------------------------------------------------------------
(***************************************************************************)
(* The informer: the indexer first, the handler later.                     *)
(***************************************************************************)
Index(b, v) ==
    /\ indexed' = [indexed EXCEPT ![b] = v]
    /\ pending' = [pending EXCEPT ![b] = Append(@, v)]
    /\ UNCHANGED <<log, seen, items, cycle, historyVars, writes>>

Watch(b) ==
    /\ indexed[b] < Len(log[b])
    /\ Index(b, indexed[b] + 1)
    /\ UNCHANGED faults

\* A list after a broken watch shows the latest version only.
Relist(b) ==
    /\ Fault
    /\ indexed[b] + 1 < Len(log[b])
    /\ Index(b, Len(log[b]))

\* Mutant: a binding that is fully applied is kept.
OnBindingUpdateKeep(b, v) ==
    items' = [items EXCEPT ![b] = IF @ = 0 \/ v < @ THEN @ ELSE v]

OnBindingUpdate(b, v) ==
    items' = [items EXCEPT ![b] = IF @ = 0 \/ v < @ THEN @
                                  ELSE IF log[b][v].applied THEN 0 ELSE v]

OnBindingDelete(b) ==
    items' = [items EXCEPT ![b] = 0]

\* onResourceBindingUpdate and onResourceBindingDelete; an addition does not
\* touch the cache.
Handle(b) ==
    LET v == Head(pending[b])
        old == log[b][seen[b]]
        new == log[b][v]
    IN /\ pending[b] # <<>>
       /\ pending' = [pending EXCEPT ![b] = Tail(@)]
       /\ seen' = [seen EXCEPT ![b] = v]
       /\ IF old # Gone /\ new # Gone
          THEN /\ OnBindingUpdate(b, v)
               /\ late' = IF items[b] <= v THEN late \ {b} ELSE late
               /\ UNCHANGED blind
          ELSE IF old # Gone
          THEN /\ OnBindingDelete(b)
               /\ late' = late \ {b}
               /\ blind' = IF items[b] > indexed[b] THEN blind \cup {b} ELSE blind
          ELSE UNCHANGED <<items, blind, late>>
       /\ UNCHANGED <<log, indexed, cycle, last, bounds>>

-----------------------------------------------------------------------------
(***************************************************************************)
(* The scheduler.                                                          *)
(***************************************************************************)
\* The worker reads the binding from the indexer.
Begin(b) ==
    /\ cycle = Idle
    /\ log[b][indexed[b]] # Gone
    /\ cycle' = [pc |-> "filter", binding |-> b, copy |-> indexed[b], todo |-> Clusters,
                 fit |-> {}, snapshot |-> NoItems]
    /\ UNCHANGED <<log, informerVars, items, historyVars, bounds>>

\* findClustersThatFit takes the assigning bindings anew for every cluster ...
GetBindings ==
    /\ cycle.pc = "filter" /\ cycle.todo # {}
    /\ cycle' = [cycle EXCEPT !.pc = "index", !.snapshot = items]
    /\ UNCHANGED <<log, informerVars, items, historyVars, bounds>>

\* Mutant: the plugin trusts the indexer.
ExistingIndexed(b, snapshot) == log[b][indexed[b]]

\* The newer of the indexed and the assigning version.
Existing(b, snapshot) ==
    log[b][IF snapshot[b] > indexed[b] THEN snapshot[b] ELSE indexed[b]]

\* The bindings of the group are those the indexer has.
ObeyAntiAffinityGroup(b, c, snapshot) ==
    \A o \in Bindings \ {b} :
        log[o][indexed[o]] # Gone => c \notin Existing(o, snapshot).clusters

\* ... and the plugin then lists the group from the indexer.
FilterWithContext(c) ==
    LET b == cycle.binding
        passes == \/ c \in log[b][cycle.copy].clusters
                  \/ ObeyAntiAffinityGroup(b, c, cycle.snapshot)
    IN /\ cycle.pc = "index" /\ c \in cycle.todo
       /\ cycle' = [cycle EXCEPT !.pc = "filter", !.todo = @ \ {c},
                                 !.fit = IF passes THEN @ \cup {c} ELSE @,
                                 !.snapshot = NoItems]
       /\ UNCHANGED <<log, informerVars, items, historyVars, bounds>>

\* What is selected among the clusters that fit is up to other plugins; nothing
\* fits means an empty result.
Suggested(S) == S \subseteq cycle.fit /\ (S = {} <=> cycle.fit = {})

Filtered == cycle.pc = "filter" /\ cycle.todo = {}

\* The copy is as new as the last result, and of the object that still exists.
UpToDate ==
    LET b == cycle.binding
    IN last[b] <= cycle.copy /\ \A v \in cycle.copy..Len(log[b]) : log[b][v] # Gone

\* patchScheduleResultForResourceBinding.  The answer of a patch may be lost.
Patch(S, answered) ==
    LET b == cycle.binding
    IN /\ Filtered /\ Suggested(S)
       /\ S # log[b][cycle.copy].clusters
       /\ Latest(b) # Gone
       /\ Write(b, [Latest(b) EXCEPT !.clusters = S])
       /\ last' = [last EXCEPT ![b] = Len(log[b]) + 1]
       /\ blind' = IF answered /\ UpToDate THEN blind ELSE blind \cup {b}
       /\ IF answered
          THEN cycle' = [cycle EXCEPT !.pc = "add", !.fit = {}] /\ UNCHANGED faults
          ELSE cycle' = Idle /\ Fault
       /\ UNCHANGED <<informerVars, items, late>>

\* Nothing to patch, nothing there to patch, or an error before the patch.
EndCycle ==
    LET b == cycle.binding
    IN /\ cycle # Idle /\ cycle.pc # "add"
       /\ \/ /\ Filtered /\ UNCHANGED faults
             /\ \/ Suggested(log[b][cycle.copy].clusters)
                \/ Latest(b) = Gone
          \/ Fault
       /\ cycle' = Idle
       /\ UNCHANGED <<log, informerVars, items, historyVars, writes>>

\* The answer of the patch is remembered.
Add ==
    LET b == cycle.binding
    IN /\ cycle.pc = "add"
       /\ items' = [items EXCEPT ![b] = last[b]]
       /\ late' = late \cup {b}
       /\ cycle' = Idle
       /\ UNCHANGED <<log, informerVars, last, blind, bounds>>

\* Mutant: the new process does not wait for its informer.
RestartUnsynced ==
    /\ Fault
    /\ indexed' = [b \in Bindings |-> 0] /\ seen' = indexed'
    /\ pending' = [b \in Bindings |-> <<>>]
    /\ items' = NoItems
    /\ cycle' = Idle
    /\ late' = {}
    /\ UNCHANGED <<log, last, blind, writes>>

\* A new process starts with what it lists.
Restart ==
    /\ Fault
    /\ indexed' = [b \in Bindings |-> Len(log[b])] /\ seen' = indexed'
    /\ pending' = [b \in Bindings |-> <<>>]
    /\ items' = NoItems
    /\ cycle' = Idle
    /\ late' = {}
    /\ UNCHANGED <<log, last, blind, writes>>

-----------------------------------------------------------------------------
Others ==
    \E b \in Bindings :
        \/ \E c \in Clusters : Evict(b, c)
        \/ \E v \in BOOLEAN : AggregateStatus(b, v)
        \/ Delete(b) \/ Create(b)

Informer == \E b \in Bindings : Watch(b) \/ Relist(b) \/ Handle(b)

Scheduler ==
    \/ \E b \in Bindings : Begin(b)
    \/ GetBindings \/ \E c \in Clusters : FilterWithContext(c)
    \/ \E S \in SUBSET Clusters, answered \in BOOLEAN : Patch(S, answered)
    \/ EndCycle \/ Add \/ Restart

Next == Others \/ Informer \/ Scheduler

Spec == Init /\ [][Next]_vars

-----------------------------------------------------------------------------
(***************************************************************************)
(* Properties.                                                             *)
(***************************************************************************)
TypeOK ==
    /\ log \in [Bindings -> Seq(Object \cup {Gone})]
    /\ \A b \in Bindings : Len(log[b]) \in Versions
    /\ indexed \in [Bindings -> Versions] /\ seen \in [Bindings -> Versions]
    /\ pending \in [Bindings -> Seq(Versions)]
    /\ items \in [Bindings -> 0..(MaxWrites + 1)]
    /\ cycle \in Cycle \cup {Idle}
    /\ last \in [Bindings -> 0..(MaxWrites + 1)]
    /\ blind \subseteq Bindings /\ late \subseteq Bindings
    /\ writes \in 0..MaxWrites /\ faults \in 0..MaxFaults

Clustered(b) == IF Latest(b) = Gone THEN {} ELSE Latest(b).clusters

\* Workloads of one anti-affinity group "will be separated"
\* (propagation_types.go:624) although every decision but the last may still be
\* missing from the indexer: no two bindings share a cluster
\* (workload_anti_affinity.go:70-127 with cache.go:170-224).  Bindings the
\* scheduler has lost sight of are excepted: the answer of a patch was lost, a
\* deletion older than the item removed it, or the binding was scheduled again
\* from a copy older than its own last result or than its deletion.
Separated ==
    \A b, o \in Bindings \ blind : b # o => Clustered(b) \cap Clustered(o) = {}

\* The same without the exceptions.
AlwaysSeparated ==
    \A b, o \in Bindings : b # o => Clustered(b) \cap Clustered(o) = {}

AtRest == cycle = Idle /\ \A b \in Bindings : pending[b] = <<>> /\ seen[b] = Len(log[b])

\* The cache does not leak (OnBindingUpdate, cache.go:170-205): when all events
\* are handled, what is left in it is neither fully applied nor deleted, except
\* for items added after the handler was told of them, the race
\* scheduler.go:708-709 describes.
ItemsAreReleased ==
    AtRest => \A b \in Bindings \ late :
        items[b] # 0 => Latest(b) # Gone /\ ~Latest(b).applied
=============================================================================
