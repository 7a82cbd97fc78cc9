------------------------- MODULE AssigningCache_proofs -------------------------
(***************************************************************************)
(* Proofs about AssigningCache, for any bindings, clusters and bounds.     *)
(***************************************************************************)
EXTENDS AssigningCache, SequenceTheorems, TLAPS

-----------------------------------------------------------------------------
(***************************************************************************)
(* The inductive invariant.                                                *)
(***************************************************************************)
\* The clusters of a binding at one of its versions.
At(b, v) == IF log[b][v] = Gone THEN {} ELSE log[b][v].clusters

\* The newest version the scheduler has written or read.
Newest(b) == IF last[b] > indexed[b] THEN last[b] ELSE indexed[b]

Known(b) == At(b, Newest(b))

\* The informer is behind the API server, and the handler behind the informer.
InOrder ==
    \A b \in Bindings :
        /\ Len(log[b]) <= writes + 1
        /\ last[b] <= Len(log[b]) /\ indexed[b] <= Len(log[b]) /\ seen[b] <= indexed[b]
        /\ \A i \in 1..Len(pending[b]) : /\ seen[b] <= pending[b][i]
                                         /\ pending[b][i] <= indexed[b]
        /\ \A i, j \in 1..Len(pending[b]) : i <= j => pending[b][i] <= pending[b][j]

\* Only the scheduler adds clusters.
Shrinking ==
    \A b \in Bindings : \A v, w \in 1..Len(log[b]) :
        last[b] <= v /\ v <= w => At(b, w) \subseteq At(b, v)

\* What is in the cache was written by the scheduler or is older than the indexer.
ItemsFit ==
    \A b \in Bindings :
        /\ last[b] # 0 => log[b][last[b]] # Gone
        /\ items[b] <= Newest(b)
        /\ items[b] # 0 => log[b][items[b]] # Gone

\* Its own last result is in the cache or in the indexer, unless it is about to be
\* added, and the binding existed since the version in the indexer.
InSight ==
    \A b \in Bindings \ blind :
        /\ \/ items[b] >= last[b] \/ indexed[b] >= last[b]
           \/ cycle.pc = "add" /\ cycle.binding = b
        /\ \A v \in indexed[b]..last[b] : log[b][v] # Gone

\* A cycle works on copies that are not newer than the indexer, and on a snapshot
\* that is as good as the cache.
CycleFits ==
    /\ cycle # Idle => /\ cycle.copy <= indexed[cycle.binding]
                       /\ log[cycle.binding][cycle.copy] # Gone
    /\ cycle.pc = "index" =>
          \A b \in Bindings :
              /\ cycle.snapshot[b] <= Newest(b)
              /\ cycle.snapshot[b] # 0 => log[b][cycle.snapshot[b]] # Gone
              /\ b \notin blind => cycle.snapshot[b] >= last[b] \/ indexed[b] >= last[b]

\* No two bindings share a cluster as far as the scheduler knows.
KnownApart ==
    \A b, o \in Bindings \ blind : b # o => Known(b) \cap Known(o) = {}

\* What the cycle may assign is not known to be taken.
FitIsFree ==
    cycle.pc \in {"filter", "index"} =>
        \A o \in Bindings \ (blind \cup {cycle.binding}) :
            /\ cycle.binding \notin blind /\ last[cycle.binding] <= cycle.copy
                 => At(cycle.binding, cycle.copy) \cap Known(o) = {}
            /\ \A c \in cycle.fit : c \in At(cycle.binding, cycle.copy) \/ c \notin Known(o)

\* The handler has released what it was told of.
HandledSoFar ==
    \A b \in Bindings \ late :
        items[b] # 0 => /\ items[b] = seen[b]
                        /\ log[b][seen[b]] # Gone /\ ~log[b][seen[b]].applied

IInv ==
    /\ TypeOK
    /\ InOrder
    /\ Shrinking
    /\ ItemsFit
    /\ InSight
    /\ CycleFits
    /\ KnownApart
    /\ FitIsFree
    /\ HandledSoFar

-----------------------------------------------------------------------------
(***************************************************************************)
(* What is built from typed parts.                                         *)
(***************************************************************************)
\* An object, and a cycle, are told apart from nothing.
LEMMA Distinct ==
    /\ \A o \in Object : o # Gone /\ o.clusters \subseteq Clusters /\ o.applied \in BOOLEAN
    /\ \A x \in Cycle : /\ x # Idle /\ x.pc \in {"filter", "index", "add"}
                        /\ x.binding \in Bindings /\ x.copy \in Versions
                        /\ x.todo \subseteq Clusters /\ x.fit \subseteq Clusters
                        /\ x.snapshot \in [Bindings -> 0..(MaxWrites + 1)]
    /\ Idle.pc = "idle"
<1>1. \A o \in Object : o # Gone /\ o.clusters \subseteq Clusters /\ o.applied \in BOOLEAN
  BY GoneAssumption DEF Object
<1>2. Idle.pc = "idle"
  BY DEF Idle
<1>3. \A x \in Cycle : /\ x.pc \in {"filter", "index", "add"}
                       /\ x.binding \in Bindings /\ x.copy \in Versions
                       /\ x.todo \subseteq Clusters /\ x.fit \subseteq Clusters
                       /\ x.snapshot \in [Bindings -> 0..(MaxWrites + 1)]
  BY DEF Cycle
<1> QED
  BY <1>1, <1>2, <1>3

\* The variables of one binding.
LEMMA Parts ==
    ASSUME TypeOK, InOrder, NEW b \in Bindings
    PROVE  /\ log[b] \in Seq(Object \cup {Gone}) /\ Len(log[b]) \in Nat
           /\ \A v \in 1..Len(log[b]) : log[b][v] \in Object \cup {Gone}
           /\ \A v \in 1..Len(log[b]) : At(b, v) \subseteq Clusters
           /\ indexed[b] \in 1..Len(log[b]) /\ seen[b] \in 1..Len(log[b])
           /\ last[b] \in 0..Len(log[b]) /\ items[b] \in Nat
           /\ Newest(b) \in 1..Len(log[b])
           /\ indexed[b] <= Newest(b) /\ last[b] <= Newest(b)
           /\ Newest(b) = indexed[b] \/ Newest(b) = last[b]
<1>1. log[b] \in Seq(Object \cup {Gone})
  BY DEF TypeOK
<1>2. Len(log[b]) \in Nat /\ \A v \in 1..Len(log[b]) : log[b][v] \in Object \cup {Gone}
  BY <1>1, LenProperties, ElementOfSeq
<1>3. \A v \in 1..Len(log[b]) : At(b, v) \subseteq Clusters
  BY <1>2, Distinct DEF At
<1>4. /\ indexed[b] \in 1..Len(log[b]) /\ seen[b] \in 1..Len(log[b])
      /\ last[b] \in 0..Len(log[b]) /\ items[b] \in Nat
  BY <1>2, AssigningAssumption DEF TypeOK, InOrder, Versions
<1>5. /\ Newest(b) \in 1..Len(log[b]) /\ indexed[b] <= Newest(b) /\ last[b] <= Newest(b)
      /\ Newest(b) = indexed[b] \/ Newest(b) = last[b]
  BY <1>2, <1>4 DEF Newest
<1> QED
  BY <1>1, <1>2, <1>3, <1>4, <1>5

\* A write adds one version to the log of one binding.
LEMMA Written ==
    ASSUME TypeOK, InOrder, NEW b \in Bindings, NEW o \in Object \cup {Gone}, Write(b, o)
    PROVE  /\ log' \in [Bindings -> Seq(Object \cup {Gone})]
           /\ Len(log'[b]) = Len(log[b]) + 1 /\ log'[b][Len(log[b]) + 1] = o
           /\ \A v \in 1..Len(log[b]) : log'[b][v] = log[b][v]
           /\ \A d \in Bindings \ {b} : log'[d] = log[d]
           /\ writes' \in 0..MaxWrites /\ writes' = writes + 1
           /\ \A d \in Bindings : Len(log'[d]) \in Versions /\ Len(log'[d]) <= writes' + 1
<1>1. log[b] \in Seq(Object \cup {Gone}) /\ Len(log[b]) \in Nat
  BY Parts
<1>2. /\ Append(log[b], o) \in Seq(Object \cup {Gone})
      /\ Len(Append(log[b], o)) = Len(log[b]) + 1
      /\ \A i \in 1..Len(log[b]) : Append(log[b], o)[i] = log[b][i]
      /\ Append(log[b], o)[Len(log[b]) + 1] = o
  BY <1>1, AppendProperties
<1>3. /\ log' = [log EXCEPT ![b] = Append(log[b], o)]
      /\ writes < MaxWrites /\ writes' = writes + 1
  BY DEF Write
<1>4. log'[b] = Append(log[b], o) /\ \A d \in Bindings \ {b} : log'[d] = log[d]
  BY <1>3 DEF TypeOK
<1>5. log' \in [Bindings -> Seq(Object \cup {Gone})]
  BY <1>2, <1>3 DEF TypeOK
<1>6. writes' \in 0..MaxWrites /\ writes' = writes + 1
  BY <1>3, AssigningAssumption DEF TypeOK
<1>7. ASSUME NEW d \in Bindings
      PROVE  Len(log'[d]) \in Versions /\ Len(log'[d]) <= writes' + 1
  <2>1. Len(log[d]) \in Nat /\ 1 <= Len(log[d]) /\ Len(log[d]) <= writes + 1
    BY Parts DEF InOrder
  <2>2. Len(log'[d]) = Len(log[d]) \/ (d = b /\ Len(log'[d]) = Len(log[d]) + 1)
    BY <1>2, <1>4
  <2> QED
    BY <2>1, <2>2, <1>3, AssigningAssumption DEF Versions, TypeOK
<1> QED
  BY <1>2, <1>4, <1>5, <1>6, <1>7

-----------------------------------------------------------------------------
(***************************************************************************)
(* A step that is not the write of a result: histories grow, the indexer    *)
(* moves on, and nothing is added to what is known of a binding.           *)
(***************************************************************************)
Calm ==
    /\ TypeOK' /\ InOrder' /\ Shrinking'
    /\ last' = last /\ blind \subseteq blind'
    /\ \A b \in Bindings :
          /\ Len(log[b]) <= Len(log'[b]) /\ indexed[b] <= indexed'[b]
          /\ \A v \in 1..Len(log[b]) : log'[b][v] = log[b][v]

\* What is known of a binding shrinks in a calm step.
LEMMA CalmKnown ==
    ASSUME IInv, Calm, NEW b \in Bindings
    PROVE  /\ \A v \in 1..Len(log[b]) : At(b, v)' = At(b, v)
           /\ Newest(b) <= Newest(b)' /\ Newest(b)' \in Nat
           /\ indexed[b] <= indexed'[b] /\ indexed'[b] \in Nat
           /\ Known(b)' \subseteq Known(b)
<1>1. \A v \in 1..Len(log[b]) : At(b, v)' = At(b, v)
  BY DEF Calm, At
<1>2. /\ Newest(b) \in 1..Len(log[b]) /\ last[b] <= Newest(b) /\ last[b] \in Nat
      /\ indexed[b] \in Nat /\ Len(log[b]) \in Nat
  BY Parts DEF IInv
<1>3. /\ Newest(b)' \in 1..Len(log'[b]) /\ indexed'[b] \in Nat /\ Len(log'[b]) \in Nat
  <2>1. /\ indexed'[b] \in Nat /\ indexed'[b] # 0 /\ last'[b] \in Nat /\ Len(log'[b]) \in Nat
        /\ last'[b] <= Len(log'[b]) /\ indexed'[b] <= Len(log'[b])
    BY AssigningAssumption DEF Calm, TypeOK, InOrder, Versions
  <2> QED
    BY <2>1 DEF Newest
<1>4. Newest(b) <= Newest(b)'
  BY <1>2, <1>3 DEF Newest, Calm
<1>5. Newest(b) \in 1..Len(log'[b])
  BY <1>2, <1>3 DEF Calm
<1>6. ASSUME NEW v \in 1..Len(log'[b]), NEW w \in 1..Len(log'[b]), last[b] <= v, v <= w
      PROVE  At(b, w)' \subseteq At(b, v)'
  BY <1>6 DEF Calm, Shrinking
<1>7. PICK n : n = Newest(b)
  OBVIOUS
<1>8. PICK m : m = Newest(b)'
  OBVIOUS
<1>9. At(b, m)' \subseteq At(b, n)'
  BY <1>2, <1>3, <1>4, <1>5, <1>6, <1>7, <1>8
<1>10. At(b, n)' = At(b, n)
  BY <1>1, <1>2, <1>7
<1>11. Known(b) = At(b, n) /\ Known(b)' = At(b, m)'
  BY <1>7, <1>8 DEF Known, At
<1> QED
  BY <1>1, <1>3, <1>4, <1>9, <1>10, <1>11 DEF Calm

\* So bindings stay apart, and a binding that is in sight exists.
LEMMA CalmApart ==
    ASSUME IInv, Calm
    PROVE  /\ KnownApart'
           /\ \A b \in Bindings \ blind' : \A v \in indexed'[b]..last'[b] : log'[b][v] # Gone
<1>1. KnownApart'
  <2> SUFFICES ASSUME NEW b \in Bindings \ blind', NEW o \in Bindings \ blind', b # o
               PROVE  Known(b)' \cap Known(o)' = {}
    BY DEF KnownApart
  <2>1. Known(b) \cap Known(o) = {}
    BY DEF IInv, KnownApart, Calm
  <2> QED
    BY <2>1, CalmKnown
<1>2. ASSUME NEW b \in Bindings \ blind', NEW v \in indexed'[b]..last'[b]
      PROVE  log'[b][v] # Gone
  <2>1. /\ indexed[b] \in 1..Len(log[b]) /\ last[b] \in 0..Len(log[b])
        /\ indexed'[b] \in Nat
    BY Parts, CalmKnown DEF IInv
  <2>2. v \in indexed[b]..last[b] /\ v \in 1..Len(log[b])
    BY <2>1, CalmKnown, Parts DEF Calm, IInv
  <2>3. b \in Bindings \ blind
    BY DEF Calm
  <2>4. log[b][v] # Gone
    BY <2>2, <2>3 DEF IInv, InSight
  <2> QED
    BY <2>2, <2>4 DEF Calm
<1> QED
  BY <1>1, <1>2

\* The cycle under way, and the cache, are as good as before if they are the same.
LEMMA CalmCycle ==
    ASSUME IInv, Calm, cycle' = cycle
    PROVE  CycleFits' /\ FitIsFree'
<1> DEFINE b == cycle.binding
<1>1. cycle # Idle => b \in Bindings /\ cycle.copy \in 1..Len(log[b])
  BY Distinct, Parts, AssigningAssumption DEF IInv, TypeOK, CycleFits, Versions
<1>2. cycle # Idle => /\ cycle.copy <= indexed'[b] /\ log'[b][cycle.copy] # Gone
                      /\ At(b, cycle.copy)' = At(b, cycle.copy)
  <2> SUFFICES ASSUME cycle # Idle
               PROVE  /\ cycle.copy <= indexed'[b] /\ log'[b][cycle.copy] # Gone
                      /\ At(b, cycle.copy)' = At(b, cycle.copy)
    OBVIOUS
  <2>1. cycle.copy <= indexed[b] /\ log[b][cycle.copy] # Gone
    BY DEF IInv, CycleFits
  <2>2. indexed[b] \in Nat /\ indexed'[b] \in Nat /\ indexed[b] <= indexed'[b]
    <3>1. b \in Bindings
      BY <1>1
    <3>2. indexed[b] <= indexed'[b] /\ indexed'[b] \in Nat
      BY <3>1, CalmKnown
    <3>3. indexed[b] \in Nat
      BY <3>1, Parts DEF IInv
    <3> QED
      BY <3>2, <3>3
  <2>3. log'[b][cycle.copy] = log[b][cycle.copy]
    BY <1>1 DEF Calm
  <2>4. cycle.copy <= indexed'[b]
    BY <1>1, <2>1, <2>2, Parts DEF IInv
  <2> QED
    BY <2>1, <2>3, <2>4 DEF At
<1>3. cycle.pc \in {"filter", "index"} => cycle # Idle
  BY Distinct
<1>4. ASSUME cycle.pc = "index", NEW d \in Bindings
      PROVE  /\ cycle.snapshot[d] <= Newest(d)'
             /\ cycle.snapshot[d] # 0 => log'[d][cycle.snapshot[d]] # Gone
             /\ d \notin blind' => cycle.snapshot[d] >= last'[d] \/ indexed'[d] >= last'[d]
  <2>1. cycle.snapshot[d] \in 0..(MaxWrites + 1)
    BY <1>3, <1>4, Distinct DEF IInv, TypeOK
  <2>2. /\ cycle.snapshot[d] <= Newest(d)
        /\ cycle.snapshot[d] # 0 => log[d][cycle.snapshot[d]] # Gone
        /\ d \notin blind => cycle.snapshot[d] >= last[d] \/ indexed[d] >= last[d]
    BY <1>4 DEF IInv, CycleFits
  <2>3. /\ Newest(d) \in 1..Len(log[d]) /\ Newest(d) <= Newest(d)' /\ Newest(d)' \in Nat
        /\ indexed[d] \in Nat /\ indexed'[d] \in Nat /\ last[d] \in Nat
        /\ indexed[d] <= indexed'[d] /\ Len(log[d]) \in Nat
    BY Parts, CalmKnown DEF IInv
  <2>4. cycle.snapshot[d] # 0 => cycle.snapshot[d] \in 1..Len(log[d])
    BY <2>1, <2>2, <2>3, AssigningAssumption
  <2>5. cycle.snapshot[d] # 0 => log'[d][cycle.snapshot[d]] # Gone
    BY <2>2, <2>4 DEF Calm
  <2>6. d \notin blind' => cycle.snapshot[d] >= last'[d] \/ indexed'[d] >= last'[d]
    BY <2>2, <2>3 DEF Calm
  <2> QED
    BY <2>1, <2>2, <2>3, <2>5, <2>6, AssigningAssumption
<1>5. CycleFits'
  BY <1>2, <1>4 DEF CycleFits
<1>6. FitIsFree'
  <2> SUFFICES ASSUME cycle.pc \in {"filter", "index"},
                      NEW o \in Bindings \ (blind' \cup {b})
               PROVE  /\ b \notin blind' /\ last'[b] <= cycle.copy
                           => At(b, cycle.copy)' \cap Known(o)' = {}
                      /\ \A c \in cycle.fit : c \in At(b, cycle.copy)' \/ c \notin Known(o)'
    BY DEF FitIsFree, At
  <2>1. o \in Bindings \ (blind \cup {b}) /\ (b \notin blind' => b \notin blind)
    BY DEF Calm
  <2>2. /\ b \notin blind /\ last[b] <= cycle.copy => At(b, cycle.copy) \cap Known(o) = {}
        /\ \A c \in cycle.fit : c \in At(b, cycle.copy) \/ c \notin Known(o)
    BY <2>1 DEF IInv, FitIsFree
  <2>3. At(b, cycle.copy)' = At(b, cycle.copy)
    BY <1>2, <1>3
  <2>4. Known(o)' \subseteq Known(o)
    BY CalmKnown
  <2>5. last' = last
    BY DEF Calm
  <2> QED
    BY <2>1, <2>2, <2>3, <2>4, <2>5
<1> QED
  BY <1>5, <1>6

LEMMA CalmItems ==
    ASSUME IInv, Calm, items' = items
    PROVE  /\ ItemsFit'
           /\ cycle' = cycle \/ cycle.pc # "add" => InSight'
           /\ seen' = seen /\ late' = late => HandledSoFar'
<1>1. ASSUME NEW b \in Bindings
      PROVE  /\ Newest(b) \in 1..Len(log[b]) /\ Newest(b) <= Newest(b)' /\ Newest(b)' \in Nat
             /\ indexed[b] \in Nat /\ indexed'[b] \in Nat /\ indexed[b] <= indexed'[b]
             /\ last[b] \in 0..Len(log[b]) /\ items[b] \in Nat /\ seen[b] \in 1..Len(log[b])
             /\ items[b] <= Newest(b) /\ Len(log[b]) \in Nat
  BY Parts, CalmKnown DEF IInv, ItemsFit
<1>2. ItemsFit'
  <2> SUFFICES ASSUME NEW b \in Bindings
               PROVE  /\ last[b] # 0 => log'[b][last[b]] # Gone
                      /\ items[b] <= Newest(b)'
                      /\ items[b] # 0 => log'[b][items[b]] # Gone
    BY DEF ItemsFit, Calm
  <2>1. last[b] # 0 => log[b][last[b]] # Gone /\ last[b] \in 1..Len(log[b])
    BY <1>1 DEF IInv, ItemsFit
  <2>2. items[b] # 0 => log[b][items[b]] # Gone /\ items[b] \in 1..Len(log[b])
    BY <1>1 DEF IInv, ItemsFit
  <2>3. items[b] <= Newest(b)'
    BY <1>1
  <2> QED
    BY <2>1, <2>2, <2>3 DEF Calm
<1>3. ASSUME cycle' = cycle \/ cycle.pc # "add"
      PROVE  InSight'
  <2> SUFFICES ASSUME NEW b \in Bindings \ blind'
               PROVE  \/ items[b] >= last[b] \/ indexed'[b] >= last[b]
                      \/ cycle'.pc = "add" /\ cycle'.binding = b
    BY CalmApart DEF InSight, Calm
  <2>1. \/ items[b] >= last[b] \/ indexed[b] >= last[b]
        \/ cycle.pc = "add" /\ cycle.binding = b
    BY DEF IInv, InSight, Calm
  <2> QED
    BY <1>1, <1>3, <2>1
<1>4. ASSUME seen' = seen, late' = late
      PROVE  HandledSoFar'
  BY <1>1, <1>4 DEF IInv, HandledSoFar, Calm
<1> QED
  BY <1>2, <1>3, <1>4

-----------------------------------------------------------------------------
(***************************************************************************)
(* One lemma for each kind of step.                                        *)
(***************************************************************************)
\* Somebody else writes an object that has no cluster the latest one has not.
LEMMA OtherStep ==
    ASSUME IInv, NEW b \in Bindings, NEW o \in Object \cup {Gone}, Other(b, o),
           o # Gone => o.clusters \subseteq At(b, Len(log[b]))
    PROVE  IInv'
<1>1. Write(b, o) /\ UNCHANGED <<informerVars, items, cycle, historyVars, faults>>
  BY DEF Other
<1>2. /\ log' \in [Bindings -> Seq(Object \cup {Gone})]
      /\ Len(log'[b]) = Len(log[b]) + 1 /\ log'[b][Len(log[b]) + 1] = o
      /\ \A v \in 1..Len(log[b]) : log'[b][v] = log[b][v]
      /\ \A d \in Bindings \ {b} : log'[d] = log[d]
      /\ writes' \in 0..MaxWrites /\ writes' = writes + 1
      /\ \A d \in Bindings : Len(log'[d]) \in Versions /\ Len(log'[d]) <= writes' + 1
  BY <1>1, Written DEF IInv
<1>3. ASSUME NEW d \in Bindings
      PROVE  /\ Len(log[d]) \in Nat /\ Len(log'[d]) \in Nat /\ Len(log[d]) <= Len(log'[d])
             /\ \A v \in 1..Len(log[d]) : log'[d][v] = log[d][v]
  BY <1>2, Parts DEF IInv
<1>4. TypeOK'
  BY <1>1, <1>2 DEF IInv, TypeOK, informerVars, historyVars
<1>5. InOrder'
  <2> SUFFICES ASSUME NEW d \in Bindings
               PROVE  /\ Len(log'[d]) <= writes' + 1
                      /\ last[d] <= Len(log'[d]) /\ indexed[d] <= Len(log'[d])
    BY <1>1 DEF IInv, InOrder, informerVars, historyVars
  <2>1. last[d] \in 0..Len(log[d]) /\ indexed[d] \in 1..Len(log[d])
    BY Parts DEF IInv
  <2> QED
    BY <1>2, <1>3, <2>1
<1>6. Shrinking'
  <2> SUFFICES ASSUME NEW d \in Bindings, NEW v \in 1..Len(log'[d]), NEW w \in 1..Len(log'[d]),
                      last[d] <= v, v <= w
               PROVE  At(d, w)' \subseteq At(d, v)'
    BY <1>1 DEF Shrinking, historyVars
  <2>1. ASSUME NEW u \in 1..Len(log[d])
        PROVE  At(d, u)' = At(d, u)
    BY <1>3 DEF At
  <2>2. ASSUME NEW u \in 1..Len(log[d]), NEW x \in 1..Len(log[d]), last[d] <= u, u <= x
        PROVE  At(d, x) \subseteq At(d, u)
    BY <2>2 DEF IInv, Shrinking
  <2>3. CASE w \in 1..Len(log[d])
    BY <1>3, <2>1, <2>2, <2>3
  <2>4. CASE w \notin 1..Len(log[d]) /\ v \in 1..Len(log[d])
    <3>1. d = b /\ w = Len(log[b]) + 1 /\ Len(log[b]) \in 1..Len(log[b])
      BY <1>2, <1>3, <2>4
    <3>2. At(b, w)' \subseteq At(b, Len(log[b]))
      BY <1>2, <3>1 DEF At
    <3>3. At(b, Len(log[b])) \subseteq At(b, v)
      BY <2>2, <2>4, <3>1, <1>3
    <3> QED
      BY <2>1, <2>4, <3>1, <3>2, <3>3
  <2>5. CASE w \notin 1..Len(log[d]) /\ v \notin 1..Len(log[d])
    <3>1. v = w
      BY <1>2, <1>3, <2>5
    <3> QED
      BY <3>1
  <2> QED
    BY <2>3, <2>4, <2>5
<1>7. Calm
  BY <1>1, <1>3, <1>4, <1>5, <1>6, Parts DEF Calm, IInv, informerVars, historyVars
<1> QED
  BY <1>1, <1>4, <1>5, <1>6, <1>7, CalmApart, CalmCycle, CalmItems
  DEF IInv, informerVars, historyVars

\* A step that writes nothing is calm.
LEMMA Still ==
    ASSUME IInv, TypeOK', InOrder', log' = log, last' = last, blind \subseteq blind',
           \A b \in Bindings : indexed[b] <= indexed'[b]
    PROVE  Calm
<1>1. Shrinking'
  BY DEF IInv, Shrinking, At
<1>2. \A b \in Bindings : Len(log[b]) \in Nat
  BY Parts DEF IInv
<1> QED
  BY <1>1, <1>2 DEF Calm

\* The indexer moves to a newer version of a binding.
LEMMA IndexStep ==
    ASSUME IInv, NEW b \in Bindings, NEW v \in 1..Len(log[b]), indexed[b] <= v, Index(b, v),
           faults' \in 0..MaxFaults
    PROVE  IInv'
<1> DEFINE p == pending[b]
<1>1. /\ indexed' = [indexed EXCEPT ![b] = v]
      /\ pending' = [pending EXCEPT ![b] = Append(p, v)]
      /\ UNCHANGED <<log, seen, items, cycle, historyVars, writes>>
  BY DEF Index
<1>2. v \in Versions /\ p \in Seq(Versions) /\ Len(p) \in Nat
  BY Parts, AssigningAssumption, LenProperties DEF IInv, TypeOK, Versions
<1>3. /\ Append(p, v) \in Seq(Versions) /\ Len(Append(p, v)) = Len(p) + 1
      /\ \A i \in 1..Len(p) : Append(p, v)[i] = p[i]
      /\ Append(p, v)[Len(p) + 1] = v
  BY <1>2, AppendProperties
<1>4. TypeOK'
  BY <1>1, <1>2, <1>3 DEF IInv, TypeOK, historyVars
<1>5. /\ indexed'[b] = v /\ pending'[b] = Append(p, v)
      /\ \A d \in Bindings \ {b} : indexed'[d] = indexed[d] /\ pending'[d] = pending[d]
  BY <1>1 DEF IInv, TypeOK
<1>6. \A d \in Bindings : indexed[d] \in Nat /\ indexed[d] <= indexed'[d]
  BY <1>5, Parts DEF IInv
<1>7. InOrder'
  <2> SUFFICES ASSUME NEW d \in Bindings
               PROVE  /\ indexed'[d] <= Len(log[d]) /\ seen[d] <= indexed'[d]
                      /\ \A i \in 1..Len(pending'[d]) : /\ seen[d] <= pending'[d][i]
                                                        /\ pending'[d][i] <= indexed'[d]
                      /\ \A i, j \in 1..Len(pending'[d]) :
                            i <= j => pending'[d][i] <= pending'[d][j]
    BY <1>1 DEF IInv, InOrder, historyVars
  <2>1. CASE d # b
    BY <1>5, <2>1 DEF IInv, InOrder
  <2>2. CASE d = b
    <3>1. /\ seen[b] \in Nat /\ indexed[b] \in Nat /\ seen[b] <= indexed[b] /\ v \in Nat
          /\ v <= Len(log[b]) /\ seen[b] <= v
      BY <1>2, Parts DEF IInv, InOrder
    <3>2. \A i \in 1..Len(p) : p[i] \in Nat /\ seen[b] <= p[i] /\ p[i] <= indexed[b] /\ p[i] <= v
      BY <1>2, <3>1, ElementOfSeq, AssigningAssumption DEF IInv, InOrder, Versions
    <3>3. \A i \in 1..Len(p) + 1 : Append(p, v)[i] \in Nat /\ seen[b] <= Append(p, v)[i]
                                     /\ Append(p, v)[i] <= v
      <4> SUFFICES ASSUME NEW i \in 1..Len(p) + 1
                   PROVE  /\ Append(p, v)[i] \in Nat /\ seen[b] <= Append(p, v)[i]
                          /\ Append(p, v)[i] <= v
        OBVIOUS
      <4>1. i = Len(p) + 1 \/ i \in 1..Len(p)
        BY <1>2
      <4>2. CASE i = Len(p) + 1
        BY <1>3, <3>1, <4>2
      <4>3. CASE i \in 1..Len(p)
        BY <1>3, <3>2, <4>3
      <4> QED
        BY <4>1, <4>2, <4>3
    <3>4. ASSUME NEW i \in 1..Len(p) + 1, NEW j \in 1..Len(p) + 1, i <= j
          PROVE  Append(p, v)[i] <= Append(p, v)[j]
      <4>1. CASE j = Len(p) + 1
        BY <1>3, <3>3, <4>1
      <4>2. CASE j # Len(p) + 1
        <5>1. i \in 1..Len(p) /\ j \in 1..Len(p)
          BY <1>2, <3>4, <4>2
        <5> QED
          BY <1>3, <3>4, <5>1 DEF IInv, InOrder
      <4> QED
        BY <4>1, <4>2
    <3> QED
      BY <1>3, <1>5, <2>2, <3>1, <3>3, <3>4
  <2> QED
    BY <2>1, <2>2
<1>8. Calm
  BY <1>1, <1>4, <1>6, <1>7, Still DEF historyVars
<1> QED
  BY <1>1, <1>4, <1>7, <1>8, CalmApart, CalmCycle, CalmItems DEF IInv, Calm, historyVars

\* The handler is told of the next version.
LEMMA HandleStep ==
    ASSUME IInv, NEW b \in Bindings, Handle(b)
    PROVE  IInv'
<1> DEFINE p == pending[b]
           v == Head(p)
           old == log[b][seen[b]]
           new == log[b][v]
<1>1. /\ p # <<>>
      /\ pending' = [pending EXCEPT ![b] = Tail(p)]
      /\ seen' = [seen EXCEPT ![b] = v]
      /\ UNCHANGED <<log, indexed, cycle, last, bounds>>
  BY DEF Handle
<1>2. p \in Seq(Versions) /\ Len(p) \in Nat /\ Len(p) # 0 /\ v = p[1]
  <2>1. p \in Seq(Versions)
    BY DEF IInv, TypeOK
  <2> QED
    BY <1>1, <2>1, LenProperties, EmptySeq
<1>3. /\ v \in Versions /\ Tail(p) \in Seq(Versions) /\ Len(Tail(p)) = Len(p) - 1
      /\ \A i \in 1..Len(Tail(p)) : Tail(p)[i] = p[i + 1]
  BY <1>1, <1>2, HeadTailProperties
<1>4. /\ seen[b] \in Nat /\ seen[b] <= v /\ v <= indexed[b] /\ v \in 1..Len(log[b])
      /\ indexed[b] \in 1..Len(log[b]) /\ Len(log[b]) \in Nat /\ last[b] \in Nat
      /\ items[b] \in Nat /\ new \in Object \cup {Gone}
  <2>1. seen[b] <= p[1] /\ p[1] <= indexed[b]
    BY <1>2 DEF IInv, InOrder
  <2>2. /\ seen[b] \in Nat /\ indexed[b] \in 1..Len(log[b]) /\ Len(log[b]) \in Nat
        /\ last[b] \in Nat /\ items[b] \in Nat
        /\ \A w \in 1..Len(log[b]) : log[b][w] \in Object \cup {Gone}
    BY Parts DEF IInv
  <2>3. v \in 1..Len(log[b])
    BY <1>2, <1>3, <2>1, <2>2, AssigningAssumption DEF Versions
  <2> QED
    BY <1>2, <2>1, <2>2, <2>3
\* What becomes of the cache.
<1>5. /\ items' = [items EXCEPT ![b] = items'[b]]
      /\ \/ /\ items'[b] = items[b] /\ items[b] = 0
            /\ blind' = blind /\ late \ {b} \subseteq late' /\ late' \subseteq late
         \/ /\ items'[b] = items[b] /\ blind' = blind /\ late' = late
            /\ old = Gone \/ items[b] > v
         \/ /\ items'[b] = 0 /\ late' = late \ {b}
            /\ items[b] <= indexed[b] /\ blind' = blind
         \/ /\ items'[b] = 0 /\ late' = late \ {b}
            /\ blind' = blind \cup {b}
         \/ /\ items'[b] = v /\ items[b] <= v /\ new # Gone /\ ~new.applied
            /\ blind' = blind /\ late' = late \ {b}
  <2>0. items \in [Bindings -> 0..(MaxWrites + 1)]
    BY DEF IInv, TypeOK
  <2>1. CASE old # Gone /\ new # Gone
    <3>1. /\ items' = [items EXCEPT ![b] = IF items[b] = 0 \/ v < items[b] THEN items[b]
                                           ELSE IF new.applied THEN 0 ELSE v]
          /\ late' = IF items[b] <= v THEN late \ {b} ELSE late
          /\ blind' = blind
      BY <2>1 DEF Handle, OnBindingUpdate
    <3>2. items'[b] = IF items[b] = 0 \/ v < items[b] THEN items[b]
                      ELSE IF new.applied THEN 0 ELSE v
      BY <2>0, <3>1
    <3>3. items' = [items EXCEPT ![b] = items'[b]]
      BY <2>0, <3>1
    <3>4. CASE items[b] = 0
      BY <1>4, <3>1, <3>2, <3>4
    <3>5. CASE items[b] # 0 /\ v < items[b]
      BY <1>4, <3>1, <3>2, <3>5
    <3>6. CASE items[b] # 0 /\ ~(v < items[b])
      <4>1. items'[b] = (IF new.applied THEN 0 ELSE v) /\ items[b] <= v
        BY <1>4, <3>2, <3>6
      <4>2. CASE new.applied
        <5>1. items[b] <= indexed[b]
          BY <1>4, <4>1
        <5> QED
          BY <3>1, <3>3, <4>1, <4>2, <5>1
      <4>3. CASE ~new.applied
        BY <2>1, <3>1, <3>3, <4>1, <4>3
      <4> QED
        BY <4>2, <4>3
    <3> QED
      BY <3>4, <3>5, <3>6
  <2>2. CASE old # Gone /\ new = Gone
    <3>1. /\ items' = [items EXCEPT ![b] = 0]
          /\ late' = late \ {b}
          /\ blind' = IF items[b] > indexed[b] THEN blind \cup {b} ELSE blind
      BY <2>2 DEF Handle, OnBindingDelete
    <3> QED
      BY <1>4, <2>0, <3>1
  <2>3. CASE old = Gone
    <3>1. UNCHANGED <<items, blind, late>>
      BY <2>3 DEF Handle
    <3> QED
      BY <2>0, <2>3, <3>1
  <2> QED
    BY <2>1, <2>2, <2>3
<1>6. items'[b] \in 0..(MaxWrites + 1) /\ \A d \in Bindings \ {b} : items'[d] = items[d]
  BY <1>3, <1>5, AssigningAssumption DEF IInv, TypeOK, Versions
<1>7. /\ \A d \in Bindings \ {b} : pending'[d] = pending[d] /\ seen'[d] = seen[d]
      /\ pending'[b] = Tail(p) /\ seen'[b] = v
  BY <1>1 DEF IInv, TypeOK
<1>8. blind \subseteq blind' /\ blind' \subseteq Bindings /\ late' \subseteq Bindings
  BY <1>5 DEF IInv, TypeOK
<1>9. TypeOK'
  <2>1. items' \in [Bindings -> 0..(MaxWrites + 1)]
    BY <1>5, <1>6 DEF IInv, TypeOK
  <2>2. /\ pending' \in [Bindings -> Seq(Versions)] /\ seen' \in [Bindings -> Versions]
    BY <1>1, <1>3 DEF IInv, TypeOK
  <2> QED
    BY <1>1, <1>8, <2>1, <2>2 DEF IInv, TypeOK, bounds
<1>10. InOrder'
  <2> SUFFICES ASSUME NEW d \in Bindings
               PROVE  /\ seen'[d] <= indexed[d]
                      /\ \A i \in 1..Len(pending'[d]) : /\ seen'[d] <= pending'[d][i]
                                                        /\ pending'[d][i] <= indexed[d]
                      /\ \A i, j \in 1..Len(pending'[d]) :
                            i <= j => pending'[d][i] <= pending'[d][j]
    BY <1>1 DEF IInv, InOrder, bounds
  <2>1. CASE d # b
    BY <1>7, <2>1 DEF IInv, InOrder
  <2>2. CASE d = b
    <3>1. \A i \in 1..Len(p) - 1 : i + 1 \in 1..Len(p) /\ Tail(p)[i] = p[i + 1] /\ 1 \in 1..Len(p)
      BY <1>2, <1>3
    <3>2. \A i \in 1..Len(p) - 1 : v <= Tail(p)[i] /\ Tail(p)[i] <= indexed[b]
      BY <1>2, <3>1 DEF IInv, InOrder
    <3>3. \A i, j \in 1..Len(p) - 1 : i <= j => Tail(p)[i] <= Tail(p)[j]
      BY <1>2, <3>1 DEF IInv, InOrder
    <3> QED
      BY <1>3, <1>4, <1>7, <2>2, <3>2, <3>3
  <2> QED
    BY <2>1, <2>2
<1>11. \A d \in Bindings : indexed[d] <= indexed'[d]
  BY <1>1, Parts DEF IInv
<1>12. Calm
  BY <1>1, <1>8, <1>9, <1>10, <1>11, Still
<1>13. CycleFits' /\ FitIsFree'
  BY <1>1, <1>12, CalmCycle
<1>14. \A d \in Bindings : Newest(d)' = Newest(d)
  BY <1>1 DEF Newest
<1>15. ItemsFit'
  <2>1. items'[b] <= Newest(b) /\ (items'[b] # 0 => log[b][items'[b]] # Gone)
    <3>1. v <= Newest(b) /\ 0 <= Newest(b)
      BY <1>4, Parts DEF IInv
    <3> QED
      BY <1>4, <1>5, <3>1 DEF IInv, ItemsFit
  <2> QED
    BY <1>1, <1>6, <1>14, <2>1 DEF IInv, ItemsFit
<1>16. InSight'
  <2> SUFFICES ASSUME NEW d \in Bindings \ blind'
               PROVE  \/ items'[d] >= last[d] \/ indexed[d] >= last[d]
                      \/ cycle.pc = "add" /\ cycle.binding = d
    BY <1>1, <1>12, CalmApart DEF InSight
  <2>1. \/ items[d] >= last[d] \/ indexed[d] >= last[d]
        \/ cycle.pc = "add" /\ cycle.binding = d
    BY <1>8 DEF IInv, InSight
  <2>2. CASE d # b
    BY <1>6, <2>1, <2>2
  <2>3. CASE d = b
    BY <1>4, <1>5, <2>1, <2>3
  <2> QED
    BY <2>2, <2>3
<1>17. HandledSoFar'
  <2> SUFFICES ASSUME NEW d \in Bindings \ late', items'[d] # 0
               PROVE  /\ items'[d] = seen'[d]
                      /\ log[d][seen'[d]] # Gone /\ ~log[d][seen'[d]].applied
    BY <1>1 DEF HandledSoFar
  <2>1. CASE d # b
    <3>1. d \notin late
      BY <1>5, <2>1
    <3> QED
      BY <1>6, <1>7, <2>1, <3>1 DEF IInv, HandledSoFar
  <2>2. CASE d = b
    <3>1. b \notin late /\ items[b] # 0 => items[b] = seen[b] /\ old # Gone
      BY DEF IInv, HandledSoFar
    <3> QED
      BY <1>4, <1>5, <1>7, <2>2, <3>1
  <2> QED
    BY <2>1, <2>2
<1> QED
  BY <1>9, <1>10, <1>12, <1>13, <1>15, <1>16, <1>17, CalmApart DEF IInv, Calm

\* A cycle begins with the version in the indexer.
LEMMA BeginStep ==
    ASSUME IInv, NEW b \in Bindings, Begin(b)
    PROVE  IInv'
<1>1. /\ cycle = Idle /\ log[b][indexed[b]] # Gone
      /\ cycle' = [pc |-> "filter", binding |-> b, copy |-> indexed[b], todo |-> Clusters,
                   fit |-> {}, snapshot |-> NoItems]
      /\ UNCHANGED <<log, informerVars, items, historyVars, bounds>>
  BY DEF Begin
<1>2. NoItems \in [Bindings -> 0..(MaxWrites + 1)]
  BY AssigningAssumption DEF NoItems
<1>3. TypeOK'
  <2>1. cycle' \in Cycle
    BY <1>1, <1>2 DEF IInv, TypeOK, Cycle
  <2> QED
    BY <1>1, <2>1 DEF IInv, TypeOK, informerVars, historyVars, bounds
<1>4. InOrder'
  BY <1>1 DEF IInv, InOrder, informerVars, historyVars, bounds
<1>5. \A d \in Bindings : indexed[d] \in Nat /\ last[d] \in Nat /\ indexed[d] <= indexed'[d]
  BY <1>1, Parts DEF IInv, informerVars
<1>6. Calm
  BY <1>1, <1>3, <1>4, <1>5, Still DEF informerVars, historyVars
<1>7. CycleFits'
  BY <1>1, <1>5 DEF CycleFits, informerVars
<1>8. FitIsFree'
  <2>0. /\ cycle'.binding = b /\ cycle'.copy = indexed[b] /\ cycle'.fit = {}
        /\ indexed'[b] = indexed[b]
    BY <1>1 DEF informerVars
  <2> SUFFICES ASSUME NEW o \in Bindings \ (blind' \cup {b}), b \notin blind', last'[b] <= indexed[b]
               PROVE  At(b, indexed[b])' \cap Known(o)' = {}
    BY <2>0 DEF FitIsFree, At
  <2>1. Known(b)' = At(b, indexed[b])'
    BY <1>1, <1>5 DEF Known, Newest, At, informerVars, historyVars
  <2> QED
    BY <1>6, <2>1, CalmApart DEF KnownApart
<1>9. cycle.pc # "add"
  BY <1>1, Distinct
<1> QED
  BY <1>1, <1>3, <1>4, <1>6, <1>7, <1>8, <1>9, CalmApart, CalmItems
  DEF IInv, Calm, informerVars, historyVars

\* The snapshot is the cache.
LEMMA GetBindingsStep ==
    ASSUME IInv, GetBindings
    PROVE  IInv'
<1>1. /\ cycle.pc = "filter"
      /\ cycle' = [cycle EXCEPT !.pc = "index", !.snapshot = items]
      /\ UNCHANGED <<log, informerVars, items, historyVars, bounds>>
  BY DEF GetBindings
<1>2. cycle \in Cycle /\ cycle # Idle /\ items \in [Bindings -> 0..(MaxWrites + 1)]
  BY <1>1, Distinct DEF IInv, TypeOK
<1>3. /\ cycle' \in Cycle /\ cycle'.pc = "index" /\ cycle'.snapshot = items
      /\ cycle'.binding = cycle.binding /\ cycle'.copy = cycle.copy /\ cycle'.fit = cycle.fit
  BY <1>1, <1>2 DEF Cycle
<1>4. TypeOK'
  BY <1>1, <1>3 DEF IInv, TypeOK, informerVars, historyVars, bounds
<1>5. InOrder'
  BY <1>1 DEF IInv, InOrder, informerVars, historyVars, bounds
<1>6. \A d \in Bindings : indexed[d] <= indexed'[d]
  BY <1>1, Parts DEF IInv, informerVars
<1>7. Calm
  BY <1>1, <1>4, <1>5, <1>6, Still DEF informerVars, historyVars
<1>8. CycleFits'
  <2>1. \A d \in Bindings : Newest(d)' = Newest(d)
    BY <1>1 DEF Newest, informerVars, historyVars
  <2>2. \A d \in Bindings : /\ items[d] <= Newest(d)
                            /\ items[d] # 0 => log[d][items[d]] # Gone
                            /\ d \notin blind => items[d] >= last[d] \/ indexed[d] >= last[d]
    BY <1>1 DEF IInv, ItemsFit, InSight
  <2>3. cycle.copy <= indexed[cycle.binding] /\ log[cycle.binding][cycle.copy] # Gone
    BY <1>2 DEF IInv, CycleFits
  <2> QED
    BY <1>1, <1>3, <2>1, <2>2, <2>3 DEF CycleFits, informerVars, historyVars
<1>9. FitIsFree'
  BY <1>1, <1>3 DEF IInv, FitIsFree, At, Known, Newest, informerVars, historyVars
<1> QED
  BY <1>1, <1>4, <1>5, <1>7, <1>8, <1>9, CalmApart, CalmItems
  DEF IInv, Calm, informerVars, historyVars

\* What the plugin looks at is what is known of a binding that is in sight.
LEMMA FilterSees ==
    ASSUME IInv, cycle.pc = "index", NEW o \in Bindings \ blind, NEW c,
           log[o][indexed[o]] # Gone => c \notin Existing(o, cycle.snapshot).clusters
    PROVE  c \notin Known(o)
<1> DEFINE s == cycle.snapshot[o]
           w == IF s > indexed[o] THEN s ELSE indexed[o]
<1>1. s \in Nat
  <2>1. cycle \in Cycle
    BY Distinct DEF IInv, TypeOK
  <2> QED
    BY <2>1, Distinct, AssigningAssumption
<1>2. /\ indexed[o] \in Nat /\ last[o] \in Nat /\ Newest(o) \in Nat
      /\ indexed[o] <= Newest(o) /\ last[o] <= Newest(o)
      /\ (Newest(o) = indexed[o] \/ (Newest(o) = last[o] /\ indexed[o] # 0))
  BY Parts DEF IInv
<1>3. /\ s <= Newest(o) /\ (s # 0 => log[o][s] # Gone)
      /\ s >= last[o] \/ indexed[o] >= last[o]
  BY DEF IInv, CycleFits
<1>4. w = Newest(o)
  BY <1>1, <1>2, <1>3
<1>5. CASE log[o][indexed[o]] # Gone
  <2>1. log[o][w] # Gone
    BY <1>1, <1>2, <1>3, <1>5
  <2>2. Existing(o, cycle.snapshot) = log[o][w]
    BY DEF Existing
  <2> QED
    BY <1>4, <1>5, <2>1, <2>2 DEF Known, At
<1>6. CASE log[o][indexed[o]] = Gone
  <2>1. ~(indexed[o] <= last[o])
    BY <1>2, <1>6 DEF IInv, InSight
  <2>2. Newest(o) = indexed[o]
    BY <1>2, <2>1
  <2> QED
    BY <1>6, <2>2 DEF Known, At
<1> QED
  BY <1>5, <1>6

\* A cluster that passes is free as far as is known.
LEMMA FilterStep ==
    ASSUME IInv, NEW c \in Clusters, FilterWithContext(c)
    PROVE  IInv'
<1> DEFINE b == cycle.binding
           passes == \/ c \in log[b][cycle.copy].clusters
                     \/ ObeyAntiAffinityGroup(b, c, cycle.snapshot)
<1>1. /\ cycle.pc = "index"
      /\ cycle' = [cycle EXCEPT !.pc = "filter", !.todo = cycle.todo \ {c},
                                !.fit = IF passes THEN cycle.fit \cup {c} ELSE cycle.fit,
                                !.snapshot = NoItems]
      /\ UNCHANGED <<log, informerVars, items, historyVars, bounds>>
  BY DEF FilterWithContext
<1>2. /\ cycle \in Cycle /\ cycle # Idle /\ NoItems \in [Bindings -> 0..(MaxWrites + 1)]
      /\ b \in Bindings
  BY <1>1, Distinct, AssigningAssumption DEF IInv, TypeOK, NoItems
<1>3. /\ cycle' \in Cycle /\ cycle'.pc = "filter"
      /\ cycle'.binding = b /\ cycle'.copy = cycle.copy
      /\ cycle'.fit = IF passes THEN cycle.fit \cup {c} ELSE cycle.fit
  <2> DEFINE f == IF passes THEN cycle.fit \cup {c} ELSE cycle.fit
  <2>1. f \subseteq Clusters
    BY <1>2, Distinct
  <2>2. cycle' = [cycle EXCEPT !.pc = "filter", !.todo = cycle.todo \ {c},
                               !.fit = f, !.snapshot = NoItems]
    BY <1>1
  <2> HIDE DEF f
  <2>3. /\ cycle' \in Cycle /\ cycle'.pc = "filter"
        /\ cycle'.binding = b /\ cycle'.copy = cycle.copy /\ cycle'.fit = f
    BY <1>2, <2>1, <2>2 DEF Cycle
  <2> QED
    BY <2>3 DEF f
<1>4. TypeOK'
  BY <1>1, <1>3 DEF IInv, TypeOK, informerVars, historyVars, bounds
<1>5. InOrder'
  BY <1>1 DEF IInv, InOrder, informerVars, historyVars, bounds
<1>6. \A d \in Bindings : indexed[d] <= indexed'[d]
  BY <1>1, Parts DEF IInv, informerVars
<1>7. Calm
  BY <1>1, <1>4, <1>5, <1>6, Still DEF informerVars, historyVars
<1>8. cycle.copy <= indexed[b] /\ log[b][cycle.copy] # Gone
  BY <1>2 DEF IInv, CycleFits
<1>9. CycleFits'
  BY <1>1, <1>3, <1>8 DEF CycleFits, informerVars
<1>10. ASSUME NEW o \in Bindings \ (blind \cup {b}), passes
       PROVE  c \in At(b, cycle.copy) \/ c \notin Known(o)
  <2>1. CASE c \in log[b][cycle.copy].clusters
    BY <1>8, <2>1 DEF At
  <2>2. CASE ObeyAntiAffinityGroup(b, c, cycle.snapshot)
    <3>1. log[o][indexed[o]] # Gone => c \notin Existing(o, cycle.snapshot).clusters
      BY <2>2 DEF ObeyAntiAffinityGroup
    <3> QED
      BY <1>1, <3>1, FilterSees
  <2> QED
    BY <1>10, <2>1, <2>2
<1>11. FitIsFree'
  <2> SUFFICES ASSUME NEW o \in Bindings \ (blind \cup {b})
               PROVE  /\ b \notin blind /\ last[b] <= cycle.copy
                           => At(b, cycle.copy) \cap Known(o) = {}
                      /\ \A d \in cycle'.fit : d \in At(b, cycle.copy) \/ d \notin Known(o)
    BY <1>1, <1>3 DEF FitIsFree, At, Known, Newest, informerVars, historyVars
  <2>1. /\ b \notin blind /\ last[b] <= cycle.copy => At(b, cycle.copy) \cap Known(o) = {}
        /\ \A d \in cycle.fit : d \in At(b, cycle.copy) \/ d \notin Known(o)
    BY <1>1 DEF IInv, FitIsFree
  <2> HIDE DEF passes
  <2> QED
    BY <1>3, <1>10, <2>1
<1> QED
  BY <1>1, <1>4, <1>5, <1>7, <1>9, <1>11, CalmApart, CalmItems
  DEF IInv, Calm, informerVars, historyVars

\* A result is written: it is free as far as is known, unless the cycle began with
\* a copy older than the last one.
LEMMA PatchStep ==
    ASSUME IInv, NEW S \in SUBSET Clusters, NEW answered \in BOOLEAN, Patch(S, answered)
    PROVE  IInv'
<1>0. PICK b \in Bindings : b = cycle.binding
  BY Distinct DEF IInv, TypeOK, Patch, Filtered
<1> DEFINE n == Len(log[b]) + 1
           o == [Latest(b) EXCEPT !.clusters = S]
<1>1. /\ cycle.pc = "filter" /\ S \subseteq cycle.fit /\ Latest(b) # Gone /\ Write(b, o)
      /\ last' = [last EXCEPT ![b] = n]
      /\ blind' = IF answered /\ UpToDate THEN blind ELSE blind \cup {b}
      /\ UNCHANGED <<informerVars, items, late>>
  BY <1>0 DEF Patch, Filtered, Suggested
<1>2. /\ answered => cycle' = [cycle EXCEPT !.pc = "add", !.fit = {}] /\ faults' = faults
      /\ ~answered => cycle' = Idle /\ faults < MaxFaults /\ faults' = faults + 1
  BY DEF Patch, Fault
<1>3. cycle \in Cycle /\ cycle # Idle /\ b \in Bindings /\ cycle.copy \in Versions
  BY <1>0, <1>1, Distinct DEF IInv, TypeOK
<1>4. /\ answered => /\ cycle' \in Cycle /\ cycle'.pc = "add"
                     /\ cycle'.binding = b /\ cycle'.copy = cycle.copy
      /\ ~answered => cycle' = Idle /\ cycle'.pc = "idle"
  BY <1>0, <1>2, <1>3, Distinct DEF Cycle
<1>5. /\ log[b] \in Seq(Object \cup {Gone}) /\ Len(log[b]) \in Nat
      /\ indexed[b] \in 1..Len(log[b]) /\ last[b] \in 0..Len(log[b]) /\ Len(log[b]) # 0
      /\ items[b] \in Nat
      /\ \A v \in 1..Len(log[b]) : log[b][v] \in Object \cup {Gone}
  BY <1>3, Parts DEF IInv
<1>6. o \in Object /\ o # Gone /\ o.clusters = S
  <2>1. Latest(b) \in Object
    BY <1>1, <1>5 DEF Latest
  <2> QED
    BY <2>1, Distinct DEF Object
<1> HIDE DEF o
<1>7. /\ log' \in [Bindings -> Seq(Object \cup {Gone})]
      /\ Len(log'[b]) = n /\ log'[b][n] = o
      /\ \A v \in 1..Len(log[b]) : log'[b][v] = log[b][v]
      /\ \A d \in Bindings \ {b} : log'[d] = log[d]
      /\ writes' \in 0..MaxWrites /\ writes' = writes + 1
      /\ \A d \in Bindings : Len(log'[d]) \in Versions /\ Len(log'[d]) <= writes' + 1
  BY <1>1, <1>3, <1>6, Written DEF IInv
<1>8. n \in Versions /\ n \in 0..(MaxWrites + 1)
  BY <1>3, <1>7, AssigningAssumption DEF Versions
<1>9. last'[b] = n /\ \A d \in Bindings \ {b} : last'[d] = last[d]
  BY <1>1, <1>3 DEF IInv, TypeOK
<1>10. blind \subseteq blind' /\ blind' \subseteq Bindings
  BY <1>1, <1>3 DEF IInv, TypeOK
<1>11. TypeOK'
  <2>1. last' \in [Bindings -> 0..(MaxWrites + 1)]
    BY <1>1, <1>8 DEF IInv, TypeOK
  <2>2. faults' \in 0..MaxFaults
    BY <1>2, AssigningAssumption DEF IInv, TypeOK
  <2>3. cycle' \in Cycle \cup {Idle}
    BY <1>4
  <2> QED
    BY <1>1, <1>7, <1>10, <2>1, <2>2, <2>3 DEF IInv, TypeOK, informerVars
<1>12. InOrder'
  <2> SUFFICES ASSUME NEW d \in Bindings
               PROVE  /\ Len(log'[d]) <= writes' + 1
                      /\ last'[d] <= Len(log'[d]) /\ indexed[d] <= Len(log'[d])
    BY <1>1 DEF IInv, InOrder, informerVars
  <2>1. CASE d = b
    BY <1>5, <1>7, <1>9, <2>1
  <2>2. CASE d # b
    BY <1>7, <1>9, <2>2 DEF IInv, InOrder
  <2> QED
    BY <2>1, <2>2
<1>13. Shrinking'
  <2> SUFFICES ASSUME NEW d \in Bindings, NEW v \in 1..Len(log'[d]), NEW w \in 1..Len(log'[d]),
                      last'[d] <= v, v <= w
               PROVE  At(d, w)' \subseteq At(d, v)'
    BY DEF Shrinking
  <2>1. CASE d = b
    <3>1. v = w
      BY <1>5, <1>7, <1>9, <2>1
    <3> QED
      BY <3>1
  <2>2. CASE d # b
    <3>1. At(d, w) \subseteq At(d, v)
      BY <1>7, <1>9, <2>2 DEF IInv, Shrinking
    <3> QED
      BY <1>7, <2>2, <3>1 DEF At
  <2> QED
    BY <2>1, <2>2
<1>14. ASSUME NEW d \in Bindings \ {b}
       PROVE  Newest(d)' = Newest(d) /\ Known(d)' = Known(d)
  BY <1>1, <1>7, <1>9 DEF Newest, Known, At, informerVars
<1>15. Newest(b)' = n /\ Known(b)' = S
  <2>1. Newest(b)' = n
    BY <1>1, <1>5, <1>9 DEF Newest, informerVars
  <2> QED
    BY <1>6, <1>7, <2>1 DEF Known, At
<1>16. ItemsFit'
  <2> SUFFICES ASSUME NEW d \in Bindings
               PROVE  /\ last'[d] # 0 => log'[d][last'[d]] # Gone
                      /\ items[d] <= Newest(d)'
                      /\ items[d] # 0 => log'[d][items[d]] # Gone
    BY <1>1 DEF ItemsFit
  <2>1. CASE d = b
    <3>1. /\ items[b] <= Newest(b) /\ Newest(b) \in 1..Len(log[b])
          /\ items[b] # 0 => log[b][items[b]] # Gone
      BY <1>3, Parts DEF IInv, ItemsFit
    <3>2. items[b] <= n /\ (items[b] # 0 => items[b] \in 1..Len(log[b]))
      BY <1>5, <3>1
    <3> QED
      BY <1>6, <1>7, <1>9, <1>15, <2>1, <3>1, <3>2
  <2>2. CASE d # b
    BY <1>7, <1>9, <1>14, <2>2 DEF IInv, ItemsFit
  <2> QED
    BY <2>1, <2>2
<1>17. b \notin blind' => answered /\ b \notin blind /\ last[b] <= cycle.copy
                             /\ \A v \in cycle.copy..Len(log[b]) : log[b][v] # Gone
  BY <1>0, <1>1 DEF UpToDate
<1>18. InSight'
  <2> SUFFICES ASSUME NEW d \in Bindings \ blind'
               PROVE  /\ \/ items[d] >= last'[d] \/ indexed[d] >= last'[d]
                         \/ cycle'.pc = "add" /\ cycle'.binding = d
                      /\ \A v \in indexed[d]..last'[d] : log'[d][v] # Gone
    BY <1>1 DEF InSight, informerVars
  <2>1. CASE d = b
    <3>1. answered /\ \A v \in cycle.copy..Len(log[b]) : log[b][v] # Gone
      BY <1>17, <2>1
    <3>2. cycle.copy <= indexed[b]
      BY <1>0, <1>3 DEF IInv, CycleFits
    <3>3. ASSUME NEW v \in indexed[b]..n
          PROVE  log'[b][v] # Gone
      <4>1. CASE v = n
        BY <1>6, <1>7, <4>1
      <4>2. CASE v # n
        <5>1. v \in cycle.copy..Len(log[b]) /\ v \in 1..Len(log[b])
          BY <1>3, <1>5, <3>2, <4>2, AssigningAssumption DEF Versions
        <5> QED
          BY <1>7, <3>1, <5>1
      <4> QED
        BY <4>1, <4>2
    <3> QED
      BY <1>4, <1>9, <2>1, <3>1, <3>3
  <2>2. CASE d # b
    <3>1. last'[d] = last[d] /\ log'[d] = log[d] /\ d \in Bindings \ blind
      BY <1>7, <1>9, <1>10, <2>2
    <3>2. /\ items[d] >= last[d] \/ indexed[d] >= last[d]
          /\ \A v \in indexed[d]..last[d] : log[d][v] # Gone
      BY <1>1, <3>1 DEF IInv, InSight
    <3> QED
      BY <3>1, <3>2
  <2> QED
    BY <2>1, <2>2
<1>19. CycleFits'
  <2>1. cycle.copy <= indexed[b] /\ log[b][cycle.copy] # Gone
    BY <1>0, <1>3 DEF IInv, CycleFits
  <2>2. log'[b][cycle.copy] = log[b][cycle.copy]
    <3>1. cycle.copy \in 1..Len(log[b])
      BY <1>3, <1>5, <2>1, AssigningAssumption DEF Versions
    <3> QED
      BY <1>7, <3>1
  <2> QED
    BY <1>1, <1>4, <2>1, <2>2 DEF CycleFits, informerVars
<1>20. KnownApart'
  <2>1. ASSUME b \notin blind', NEW d \in Bindings \ (blind' \cup {b})
        PROVE  S \cap Known(d) = {}
    <3>1. /\ At(b, cycle.copy) \cap Known(d) = {}
          /\ \A c \in cycle.fit : c \in At(b, cycle.copy) \/ c \notin Known(d)
      BY <1>0, <1>1, <1>10, <1>17, <2>1 DEF IInv, FitIsFree
    <3> QED
      BY <1>1, <3>1
  <2>2. \A d, e \in Bindings \ (blind' \cup {b}) : d # e => Known(d) \cap Known(e) = {}
    BY <1>10 DEF IInv, KnownApart
  <2> SUFFICES ASSUME NEW d \in Bindings \ blind', NEW e \in Bindings \ blind', d # e
               PROVE  Known(d)' \cap Known(e)' = {}
    BY DEF KnownApart
  <2>3. CASE d = b
    BY <1>14, <1>15, <2>1, <2>3
  <2>4. CASE e = b
    BY <1>14, <1>15, <2>1, <2>4
  <2>5. CASE d # b /\ e # b
    BY <1>14, <2>2, <2>5
  <2> QED
    BY <2>3, <2>4, <2>5
<1>21. FitIsFree'
  BY <1>4 DEF FitIsFree
<1>22. HandledSoFar'
  <2> SUFFICES ASSUME NEW d \in Bindings
               PROVE  log'[d][seen[d]] = log[d][seen[d]]
    BY <1>1 DEF IInv, HandledSoFar, informerVars
  <2>1. seen[d] \in 1..Len(log[d])
    BY Parts DEF IInv
  <2> QED
    BY <1>7, <2>1
<1> QED
  BY <1>11, <1>12, <1>13, <1>16, <1>18, <1>19, <1>20, <1>21, <1>22 DEF IInv

\* A cycle ends without a result.
LEMMA EndCycleStep ==
    ASSUME IInv, EndCycle
    PROVE  IInv'
<1>1. /\ cycle.pc # "add" /\ cycle' = Idle /\ faults' \in {faults, faults + 1}
      /\ faults' # faults => faults < MaxFaults
      /\ UNCHANGED <<log, informerVars, items, historyVars, writes>>
  BY DEF EndCycle, Fault
<1>2. TypeOK'
  BY <1>1, AssigningAssumption DEF IInv, TypeOK, informerVars, historyVars
<1>3. InOrder'
  BY <1>1 DEF IInv, InOrder, informerVars, historyVars
<1>4. \A d \in Bindings : indexed[d] <= indexed'[d]
  BY <1>1, Parts DEF IInv, informerVars
<1>5. Calm
  BY <1>1, <1>2, <1>3, <1>4, Still DEF informerVars, historyVars
<1>6. CycleFits' /\ FitIsFree'
  BY <1>1, Distinct DEF CycleFits, FitIsFree
<1> QED
  BY <1>1, <1>2, <1>3, <1>5, <1>6, CalmApart, CalmItems
  DEF IInv, Calm, informerVars, historyVars

\* The result is remembered.
LEMMA AddStep ==
    ASSUME IInv, Add
    PROVE  IInv'
<1> DEFINE b == cycle.binding
<1>1. /\ cycle.pc = "add" /\ items' = [items EXCEPT ![b] = last[b]]
      /\ late' = late \cup {b} /\ cycle' = Idle
      /\ UNCHANGED <<log, informerVars, last, blind, bounds>>
  BY DEF Add
<1>2. b \in Bindings
  BY <1>1, Distinct DEF IInv, TypeOK
<1>3. items'[b] = last[b] /\ \A d \in Bindings \ {b} : items'[d] = items[d]
  BY <1>1, <1>2 DEF IInv, TypeOK
<1>4. TypeOK'
  BY <1>1, <1>2 DEF IInv, TypeOK, informerVars, bounds
<1>5. InOrder'
  BY <1>1 DEF IInv, InOrder, informerVars, bounds
<1>6. \A d \in Bindings : /\ indexed[d] <= indexed'[d] /\ last[d] \in Nat
                          /\ last[d] <= Newest(d) /\ Newest(d)' = Newest(d)
  BY <1>1, Parts DEF IInv, informerVars, Newest
<1>7. Calm
  BY <1>1, <1>4, <1>5, <1>6, Still
<1>8. CycleFits' /\ FitIsFree'
  BY <1>1, Distinct DEF CycleFits, FitIsFree
<1>9. ItemsFit'
  BY <1>1, <1>3, <1>6 DEF IInv, ItemsFit
<1>10. InSight'
  <2> SUFFICES ASSUME NEW d \in Bindings \ blind'
               PROVE  items'[d] >= last[d] \/ indexed[d] >= last[d]
    BY <1>1, <1>7, CalmApart DEF InSight, informerVars
  <2>1. CASE d = b
    BY <1>3, <1>6, <2>1
  <2>2. CASE d # b
    BY <1>1, <1>3, <2>2 DEF IInv, InSight
  <2> QED
    BY <2>1, <2>2
<1>11. HandledSoFar'
  BY <1>1, <1>3 DEF IInv, HandledSoFar, informerVars
<1> QED
  BY <1>4, <1>5, <1>7, <1>8, <1>9, <1>10, <1>11, CalmApart DEF IInv, Calm

\* A new process knows all there is.
LEMMA RestartStep ==
    ASSUME IInv, Restart
    PROVE  IInv'
<1>1. /\ faults < MaxFaults /\ faults' = faults + 1
      /\ indexed' = [b \in Bindings |-> Len(log[b])] /\ seen' = indexed'
      /\ pending' = [b \in Bindings |-> <<>>]
      /\ items' = [b \in Bindings |-> 0] /\ cycle' = Idle /\ late' = {}
      /\ UNCHANGED <<log, last, blind, writes>>
  BY DEF Restart, Fault, NoItems
<1>2. ASSUME NEW b \in Bindings
      PROVE  /\ indexed'[b] = Len(log[b]) /\ seen'[b] = Len(log[b]) /\ items'[b] = 0
             /\ pending'[b] = <<>> /\ Len(log[b]) \in Nat /\ last[b] \in 0..Len(log[b])
             /\ indexed[b] <= Len(log[b]) /\ Newest(b)' = Len(log[b])
  BY <1>1, Parts DEF IInv, Newest
<1>3. TypeOK'
  <2>1. \A b \in Bindings : Len(log[b]) \in Versions /\ <<>> \in Seq(Versions)
    BY EmptySeq DEF IInv, TypeOK
  <2> QED
    BY <1>1, <2>1, AssigningAssumption DEF IInv, TypeOK
<1>4. InOrder'
  BY <1>1, <1>2 DEF IInv, InOrder
<1>5. Calm
  BY <1>1, <1>2, <1>3, <1>4, Still
<1>6. CycleFits' /\ FitIsFree'
  BY <1>1, Distinct DEF CycleFits, FitIsFree
<1>7. ItemsFit'
  BY <1>1, <1>2 DEF IInv, ItemsFit
<1>8. InSight'
  BY <1>1, <1>2, <1>5, CalmApart DEF InSight
<1>9. HandledSoFar'
  BY <1>2 DEF HandledSoFar
<1> QED
  BY <1>3, <1>4, <1>5, <1>6, <1>7, <1>8, <1>9, CalmApart DEF IInv, Calm

-----------------------------------------------------------------------------
(***************************************************************************)
(* The theorems.                                                           *)
(***************************************************************************)
\* Nothing is known, written or remembered at first.
LEMMA InitIInv == Init => IInv
<1> SUFFICES ASSUME Init
             PROVE  IInv
  OBVIOUS
<1>1. Fresh \in Object /\ Fresh # Gone /\ Fresh.clusters = {}
  <2>1. Fresh \in Object /\ Fresh.clusters = {}
    BY DEF Fresh, Object
  <2> QED
    BY <2>1, Distinct
<1>2. \A b \in Bindings : /\ log[b] = <<Fresh>> /\ Len(log[b]) = 1 /\ log[b][1] = Fresh
                          /\ indexed[b] = 1 /\ seen[b] = 1 /\ pending[b] = <<>>
                          /\ items[b] = 0 /\ last[b] = 0 /\ Newest(b) = 1
  <2> SUFFICES ASSUME NEW b \in Bindings
               PROVE  /\ log[b] = <<Fresh>> /\ Len(log[b]) = 1 /\ log[b][1] = Fresh
                      /\ indexed[b] = 1 /\ seen[b] = 1 /\ pending[b] = <<>>
                      /\ items[b] = 0 /\ last[b] = 0 /\ Newest(b) = 1
    OBVIOUS
  <2>1. log[b] = <<Fresh>> /\ indexed[b] = 1 /\ seen[b] = 1 /\ items[b] = 0 /\ last[b] = 0
    BY DEF Init, NoItems
  <2>2. pending[b] = <<>>
    BY DEF Init
  <2> QED
    BY <2>1, <2>2 DEF Newest
<1>3. TypeOK
  <2>1. <<Fresh>> \in Seq(Object \cup {Gone}) /\ <<>> \in Seq(Versions)
    BY <1>1
  <2>2. log \in [Bindings -> Seq(Object \cup {Gone})]
    BY <2>1 DEF Init
  <2>3. 1 \in Versions /\ 0 \in 0..(MaxWrites + 1) /\ 0 \in 0..MaxWrites /\ 0 \in 0..MaxFaults
    BY AssigningAssumption DEF Versions
  <2> QED
    BY <1>2, <2>1, <2>2, <2>3 DEF Init, TypeOK, NoItems
<1>4. InOrder
  <2>1. \A b \in Bindings : Len(pending[b]) = 0 /\ writes = 0
    <3>1. Len(<<>>) = 0
      BY EmptySeq
    <3> QED
      BY <1>2, <3>1 DEF Init
  <2> SUFFICES ASSUME NEW b \in Bindings
               PROVE  /\ Len(log[b]) <= writes + 1
                      /\ last[b] <= Len(log[b]) /\ indexed[b] <= Len(log[b]) /\ seen[b] <= indexed[b]
                      /\ \A i \in 1..Len(pending[b]) : FALSE
    BY DEF InOrder
  <2>2. \A i \in 1..Len(pending[b]) : FALSE
    BY <2>1
  <2> QED
    BY <1>2, <2>1, <2>2
<1>5. Shrinking
  BY <1>2 DEF Shrinking, At
<1>6. ItemsFit /\ InSight
  BY <1>2 DEF ItemsFit, InSight
<1>7. CycleFits /\ FitIsFree
  BY Distinct DEF Init, CycleFits, FitIsFree
<1>8. KnownApart
  BY <1>1, <1>2 DEF KnownApart, Known, At
<1>9. HandledSoFar
  BY <1>2 DEF HandledSoFar
<1> QED
  BY <1>3, <1>4, <1>5, <1>6, <1>7, <1>8, <1>9 DEF IInv

\* What the others write has no cluster that the latest object has not.
LEMMA OthersStep ==
    ASSUME IInv, Others
    PROVE  IInv'
<1>1. PICK b \in Bindings : \/ \E c \in Clusters : Evict(b, c)
                            \/ \E v \in BOOLEAN : AggregateStatus(b, v)
                            \/ Delete(b) \/ Create(b)
  BY DEF Others
<1>2. /\ Len(log[b]) \in Nat /\ Len(log[b]) # 0
      /\ Latest(b) = log[b][Len(log[b])] /\ Latest(b) \in Object \cup {Gone}
  BY Parts DEF IInv, Latest
<1>3. ASSUME NEW c \in Clusters, Evict(b, c)
      PROVE  IInv'
  <2> DEFINE o == [Latest(b) EXCEPT !.clusters = Latest(b).clusters \ {c}]
  <2>1. Latest(b) # Gone /\ Other(b, o)
    BY <1>3 DEF Evict
  <2>2. o \in Object /\ o.clusters \subseteq At(b, Len(log[b]))
    BY <1>2, <2>1 DEF Object, At
  <2> HIDE DEF o
  <2> QED
    BY <2>1, <2>2, OtherStep
<1>4. ASSUME NEW v \in BOOLEAN, AggregateStatus(b, v)
      PROVE  IInv'
  <2> DEFINE o == [Latest(b) EXCEPT !.applied = v]
  <2>1. Latest(b) # Gone /\ Other(b, o)
    BY <1>4 DEF AggregateStatus
  <2>2. o \in Object /\ o.clusters \subseteq At(b, Len(log[b]))
    BY <1>2, <2>1 DEF Object, At
  <2> HIDE DEF o
  <2> QED
    BY <2>1, <2>2, OtherStep
<1>5. CASE Delete(b)
  BY <1>5, OtherStep DEF Delete
<1>6. CASE Create(b)
  <2>1. Fresh \in Object /\ Fresh.clusters = {}
    BY DEF Fresh, Object
  <2> QED
    BY <1>6, <2>1, OtherStep DEF Create
<1> QED
  BY <1>1, <1>3, <1>4, <1>5, <1>6

\* The invariant is kept by every step.
LEMMA NextIInv == IInv /\ [Next]_vars => IInv'
<1> SUFFICES ASSUME IInv, [Next]_vars
             PROVE  IInv'
  OBVIOUS
<1>1. CASE Others
  BY <1>1, OthersStep
<1>2. CASE Informer
  <2>1. PICK b \in Bindings : Watch(b) \/ Relist(b) \/ Handle(b)
    BY <1>2 DEF Informer
  <2>2. /\ indexed[b] \in 1..Len(log[b]) /\ Len(log[b]) \in Nat
        /\ faults \in 0..MaxFaults
    BY Parts DEF IInv, TypeOK
  <2>3. CASE Watch(b)
    <3>1. indexed[b] + 1 \in 1..Len(log[b]) /\ Index(b, indexed[b] + 1) /\ faults' = faults
      BY <2>2, <2>3 DEF Watch
    <3> QED
      BY <2>2, <3>1, IndexStep
  <2>4. CASE Relist(b)
    <3>1. /\ Len(log[b]) \in 1..Len(log[b]) /\ Index(b, Len(log[b])) /\ faults' \in 0..MaxFaults
      BY <2>2, <2>4, AssigningAssumption DEF Relist, Fault
    <3> QED
      BY <2>2, <3>1, IndexStep
  <2> QED
    BY <2>1, <2>3, <2>4, HandleStep
<1>3. CASE Scheduler
  <2>1. ASSUME NEW b \in Bindings, Begin(b)
        PROVE  IInv'
    BY <2>1, BeginStep
  <2>2. ASSUME NEW c \in Clusters, FilterWithContext(c)
        PROVE  IInv'
    BY <2>2, FilterStep
  <2>3. ASSUME NEW S \in SUBSET Clusters, NEW answered \in BOOLEAN, Patch(S, answered)
        PROVE  IInv'
    BY <2>3, PatchStep
  <2> QED
    BY <1>3, <2>1, <2>2, <2>3, GetBindingsStep, EndCycleStep, AddStep, RestartStep DEF Scheduler
<1>4. CASE UNCHANGED vars
  <2>1. UNCHANGED <<log, indexed, pending, seen, items, cycle, last, blind, late, writes, faults>>
    BY <1>4 DEF vars, informerVars, historyVars, bounds
  <2>2. TypeOK' /\ InOrder'
    BY <2>1 DEF IInv, TypeOK, InOrder
  <2>3. \A d \in Bindings : indexed[d] <= indexed'[d]
    BY <2>1, Parts DEF IInv
  <2>4. Calm
    BY <2>1, <2>2, <2>3, Still
  <2> QED
    BY <2>1, <2>2, <2>4, CalmApart, CalmCycle, CalmItems DEF IInv, Calm
<1> QED
  BY <1>1, <1>2, <1>3, <1>4 DEF Next

\* The invariant holds in every state of the scheduler, its informer and its
\* cache of assigning bindings.
THEOREM Invariant == Spec => []IInv
  BY InitIInv, NextIInv, PTL DEF Spec

\* The variables keep their types (AssigningResourceBindingCache, cache.go).
THEOREM TypeCorrect == Spec => []TypeOK
<1>1. IInv => TypeOK
  BY DEF IInv
<1> QED
  BY <1>1, Invariant, PTL

\* Workloads of one anti-affinity group are separated whatever the lag of the
\* informer, for bindings the scheduler has not lost sight of
\* (workload_anti_affinity.go:70-127 with cache.go:170-224): what the API server
\* has is part of what is known.
THEOREM SeparatedAlways == Spec => []Separated
<1>1. IInv => Separated
  <2> SUFFICES ASSUME IInv, NEW b \in Bindings \ blind, NEW o \in Bindings \ blind, b # o
               PROVE  Clustered(b) \cap Clustered(o) = {}
    BY DEF Separated
  <2>1. ASSUME NEW d \in Bindings
        PROVE  Clustered(d) \subseteq Known(d)
    <3>1. /\ Newest(d) \in 1..Len(log[d]) /\ Len(log[d]) \in 1..Len(log[d])
          /\ last[d] <= Newest(d) /\ Newest(d) <= Len(log[d])
      BY Parts DEF IInv
    <3>2. At(d, Len(log[d])) \subseteq At(d, Newest(d))
      BY <3>1 DEF IInv, Shrinking
    <3> QED
      BY <3>2 DEF Clustered, Latest, At, Known
  <2>2. Known(b) \cap Known(o) = {}
    BY DEF IInv, KnownApart
  <2> QED
    BY <2>1, <2>2
<1> QED
  BY <1>1, Invariant, PTL

\* The cache does not leak (OnBindingUpdate, cache.go:170-205): what the handler
\* was told of last is what is left.
THEOREM ItemsAreReleasedAlways == Spec => []ItemsAreReleased
<1>1. IInv => ItemsAreReleased
  BY DEF IInv, HandledSoFar, ItemsAreReleased, AtRest, Latest
<1> QED
  BY <1>1, Invariant, PTL

=============================================================================
