------------------------- MODULE BindingStatus_proofs -------------------------
(***************************************************************************)
(* Proofs about BindingStatus, for any clusters, reports and bounds.       *)
(***************************************************************************)
EXTENDS BindingStatus, SequenceTheorems, TLAPS

-----------------------------------------------------------------------------
(***************************************************************************)
(* The inductive invariant.                                                *)
(***************************************************************************)
\* A cache with the version old and the versions q on their way ends with last.
EndsWith(old, q, last) == last = IF q = <<>> THEN old ELSE q[Len(q)]

\* One version of a Work follows another: a Work comes without a status, and what
\* is being deleted stays so until it goes.
Follows(old, new) ==
    IF old = None THEN new # None /\ new.status = New /\ ~new.deleting
    ELSE IF new = None THEN old.deleting ELSE old.deleting => new.deleting

Linked(old, q) ==
    /\ q # <<>> => Follows(old, q[1])
    /\ \A i \in 1..Len(q) : i + 1 \in 1..Len(q) => Follows(q[i], q[i + 1])

\* The watches lose nothing.
Watched ==
    /\ EndsWith(cmRB, rbWatch, rb)
    /\ \A c \in Clusters : /\ EndsWith(cmWorks[c], workWatch[c], works[c])
                           /\ Linked(cmWorks[c], workWatch[c])

\* A binding that exists has not been deleted before, and no version of it
\* records a template that is yet to come.
Exists ==
    /\ rb # Gone => cmRB # Gone /\ \A i \in 1..Len(rbWatch) : rbWatch[i] # Gone
    /\ template # Gone =>
          /\ rb # Gone => rb.recorded <= template.generation
          /\ cmRB # Gone => cmRB.recorded <= template.generation
          /\ \A i \in 1..Len(rbWatch) :
                rbWatch[i] # Gone => rbWatch[i].recorded <= template.generation

\* An item says of its Work what the controller has been woken for.
Says(item, w) ==
    IF w = None THEN item = None
    ELSE IF w.deleting \/ w.status = New THEN item \in {None, w.status}
    ELSE item = w.status

Reflected(aggregated) == \A c \in Clusters : Says(aggregated[c], cmWorks[c])

Settled == ~queued /\ ~excused

\* What the reconciliation under way has collected, and what it has left behind.
Collected ==
    /\ sync.pc = "binding" /\ Settled => Reflected(sync.aggregated)
    /\ sync.pc = "template" /\ Settled /\ rb # Gone =>
          Reflected(sync.aggregated) /\ rb.aggregated = sync.aggregated
    /\ sync = Idle /\ Settled /\ rb # Gone => Reflected(rb.aggregated)

\* FullyApplied is decided from the items it is written with.
AppliedAsWritten ==
    rb # Gone /\ rb.fullyApplied =>
        \E T \in SUBSET Clusters : WorksFullyApplied(rb.aggregated, T)

\* The template's status is the binding's unless a wake-up is due.
TemplateSettled ==
    sync = Idle /\ Settled /\ rb # Gone /\ template # Gone
    /\ cmRB.recorded = template.generation =>
        template.status = [generation |-> template.generation, aggregated |-> rb.aggregated]

IInv ==
    /\ TypeOK
    /\ Watched
    /\ Exists
    /\ Collected
    /\ AppliedAsWritten
    /\ TemplateSettled

-----------------------------------------------------------------------------
(***************************************************************************)
(* What the state is built from.                                           *)
(***************************************************************************)
\* What exists is told apart from what does not.
LEMMA Distinct ==
    /\ \A b \in Binding : /\ b # Gone /\ b.version \in Nat /\ b.clusters \subseteq Clusters
                          /\ b.recorded \in Nat /\ b.scheduled \in BOOLEAN
                          /\ b.aggregated \in Aggregation /\ b.fullyApplied \in BOOLEAN
    /\ \A w \in Work : w # None /\ w.status \in Reports \cup {New} /\ w.deleting \in BOOLEAN
    /\ \A t \in Template : /\ t # Gone /\ t.generation \in Nat
                           /\ t.status \in [generation : Nat, aggregated : Aggregation]
    /\ \A s \in Reconciliation : /\ s # Idle /\ s.pc \in {"binding", "template"}
                                 /\ s.aggregated \in Aggregation
    /\ Idle.pc = "idle"
<1>1. \A b \in Binding : /\ b # Gone /\ b.version \in Nat /\ b.clusters \subseteq Clusters
                         /\ b.recorded \in Nat /\ b.scheduled \in BOOLEAN
                         /\ b.aggregated \in Aggregation /\ b.fullyApplied \in BOOLEAN
  <2>1. \A b \in Binding : b # Gone
    BY AbsenceAssumption
  <2> QED
    BY <2>1 DEF Binding
<1>2. \A w \in Work : w # None /\ w.status \in Reports \cup {New} /\ w.deleting \in BOOLEAN
  <2>1. \A w \in Work : w # None
    BY AbsenceAssumption
  <2> QED
    BY <2>1 DEF Work
<1>3. \A t \in Template : /\ t # Gone /\ t.generation \in Nat
                          /\ t.status \in [generation : Nat, aggregated : Aggregation]
  <2>1. \A t \in Template : t # Gone
    BY AbsenceAssumption
  <2> QED
    BY <2>1 DEF Template
<1>4. Idle.pc = "idle"
  BY DEF Idle
<1>5. \A s \in Reconciliation : /\ s # Idle /\ s.pc \in {"binding", "template"}
                                /\ s.aggregated \in Aggregation
  BY <1>4 DEF Reconciliation
<1> QED
  BY <1>1, <1>2, <1>3, <1>4, <1>5

\* A new version joins the end of the queue.
LEMMA Sent ==
    ASSUME NEW S, NEW q \in Seq(S), NEW x \in S, NEW old, NEW last, EndsWith(old, q, last)
    PROVE  /\ Append(q, x) \in Seq(S) /\ Len(Append(q, x)) = Len(q) + 1 /\ Len(q) \in Nat
           /\ \A i \in 1..Len(q) : Append(q, x)[i] = q[i]
           /\ Append(q, x)[Len(q) + 1] = x
           /\ EndsWith(old, Append(q, x), x)
           /\ Linked(old, q) /\ Follows(last, x) => Linked(old, Append(q, x))
<1>1. /\ Append(q, x) \in Seq(S) /\ Len(Append(q, x)) = Len(q) + 1 /\ Len(q) \in Nat
      /\ \A i \in 1..Len(q) : Append(q, x)[i] = q[i]
      /\ Append(q, x)[Len(q) + 1] = x /\ Append(q, x) # <<>>
  BY AppendProperties, LenProperties
<1>2. EndsWith(old, Append(q, x), x)
  BY <1>1 DEF EndsWith
<1>3. ASSUME Linked(old, q), Follows(last, x)
      PROVE  Linked(old, Append(q, x))
  <2>1. CASE q = <<>>
    <3>1. Len(q) = 0 /\ last = old /\ Append(q, x)[1] = x
      BY <1>1, <2>1, EmptySeq DEF EndsWith
    <3> QED
      BY <1>1, <1>3, <3>1 DEF Linked
  <2>2. CASE q # <<>>
    <3>1. Len(q) \in 1..Len(q) /\ 1 \in 1..Len(q) /\ last = q[Len(q)]
      BY <1>1, <2>2, EmptySeq DEF EndsWith
    <3>2. Follows(old, Append(q, x)[1])
      BY <1>1, <1>3, <2>2, <3>1 DEF Linked
    <3>3. ASSUME NEW i \in 1..Len(q) + 1, i + 1 \in 1..Len(q) + 1
          PROVE  Follows(Append(q, x)[i], Append(q, x)[i + 1])
      <4>1. CASE i = Len(q)
        BY <1>1, <1>3, <3>1, <4>1
      <4>2. CASE i # Len(q)
        <5>1. i \in 1..Len(q) /\ i + 1 \in 1..Len(q)
          BY <1>1, <3>3, <4>2
        <5>2. Follows(q[i], q[i + 1])
          BY <1>3, <5>1 DEF Linked
        <5> QED
          BY <1>1, <5>1, <5>2
      <4> QED
        BY <4>1, <4>2
    <3> QED
      BY <1>1, <3>2, <3>3 DEF Linked
  <2> QED
    BY <2>1, <2>2
<1> QED
  BY <1>1, <1>2, <1>3

\* The first version leaves the queue.
LEMMA Received ==
    ASSUME NEW S, NEW q \in Seq(S), q # <<>>, NEW old, NEW last, EndsWith(old, q, last)
    PROVE  /\ Head(q) \in S /\ Tail(q) \in Seq(S) /\ Head(q) = q[1]
           /\ Len(q) \in Nat /\ 1 \in 1..Len(q)
           /\ \A i \in 1..Len(Tail(q)) : i + 1 \in 1..Len(q) /\ Tail(q)[i] = q[i + 1]
           /\ EndsWith(Head(q), Tail(q), last)
           /\ Linked(old, q) => Follows(old, Head(q)) /\ Linked(Head(q), Tail(q))
<1>1. /\ Head(q) \in S /\ Tail(q) \in Seq(S) /\ Len(Tail(q)) = Len(q) - 1
      /\ \A i \in 1..Len(Tail(q)) : Tail(q)[i] = q[i + 1]
  BY HeadTailProperties
<1>2. Len(q) \in Nat /\ Len(q) # 0 /\ Head(q) = q[1] /\ last = q[Len(q)]
  BY EmptySeq DEF EndsWith
<1>3. \A i \in 1..Len(Tail(q)) : i + 1 \in 1..Len(q)
  BY <1>1, <1>2
<1>4. EndsWith(Head(q), Tail(q), last)
  <2>1. CASE Tail(q) = <<>>
    <3>1. Len(Tail(q)) = 0
      BY <2>1, EmptySeq
    <3>2. Len(q) = 1
      <4>1. \A n \in Nat : n - 1 = 0 => n = 1
        OBVIOUS
      <4> QED
        BY <1>1, <1>2, <3>1, <4>1, Zenon
    <3> QED
      BY <1>2, <2>1, <3>2 DEF EndsWith
  <2>2. CASE Tail(q) # <<>>
    <3>1. Len(Tail(q)) \in Nat \ {0}
      BY <1>1, <2>2, EmptySeq
    <3>2. Tail(q)[Len(Tail(q))] = q[Len(q)]
      BY <1>1, <1>2, <3>1
    <3> QED
      BY <1>2, <2>2, <3>2 DEF EndsWith
  <2> QED
    BY <2>1, <2>2
<1>5. ASSUME Linked(old, q)
      PROVE  Follows(old, Head(q)) /\ Linked(Head(q), Tail(q))
  <2>1. Follows(old, Head(q))
    BY <1>2, <1>5 DEF Linked
  <2>2. ASSUME Tail(q) # <<>>
        PROVE  Follows(Head(q), Tail(q)[1])
    <3>1. Len(Tail(q)) \in Nat \ {0}
      BY <1>1, <2>2, EmptySeq
    <3>2. 1 \in 1..Len(q) /\ 1 + 1 \in 1..Len(q) /\ Tail(q)[1] = q[1 + 1]
      BY <1>1, <1>2, <3>1
    <3> QED
      BY <1>2, <1>5, <3>2 DEF Linked
  <2>3. ASSUME NEW i \in 1..Len(Tail(q)), i + 1 \in 1..Len(Tail(q))
        PROVE  Follows(Tail(q)[i], Tail(q)[i + 1])
    <3>1. /\ i + 1 \in 1..Len(q) /\ (i + 1) + 1 \in 1..Len(q)
          /\ Tail(q)[i] = q[i + 1] /\ Tail(q)[i + 1] = q[(i + 1) + 1]
      BY <1>1, <1>3, <2>3
    <3> QED
      BY <1>5, <3>1 DEF Linked
  <2> QED
    BY <2>1, <2>2, <2>3 DEF Linked
<1> QED
  BY <1>1, <1>2, <1>3, <1>4, <1>5

\* What an item says stays true of the next version unless the controller is woken.
LEMMA Heard ==
    ASSUME NEW old \in Work \cup {None}, NEW new \in Work \cup {None}, NEW item,
           Says(item, old), ~WorkPredicateFn(old, new),
           Follows(old, new) \/ ~Unannounced(old, new)
    PROVE  Says(item, new)
<1>1. CASE old = None
  BY <1>1, Distinct DEF Says, Follows, Unannounced, WorkPredicateFn
<1>2. CASE old # None
  <2>1. new # None /\ old.status = new.status
    BY <1>2 DEF WorkPredicateFn
  <2> QED
    BY <1>2, <2>1, Distinct DEF Says, Follows, Unannounced, WorkPredicateFn
<1> QED
  BY <1>1, <1>2

-----------------------------------------------------------------------------
(***************************************************************************)
(* The rest of the system.                                                 *)
(***************************************************************************)
\* The variables, one by one.
LEMMA Types ==
    ASSUME TypeOK
    PROVE  /\ rb # Gone => rb \in Binding
           /\ cmRB # Gone => cmRB \in Binding
           /\ template # Gone => template \in Template
           /\ sync # Idle => sync \in Reconciliation
           /\ sync = Idle <=> sync.pc \notin {"binding", "template"}
           /\ rbWatch \in Seq(Binding \cup {Gone}) /\ Len(rbWatch) \in Nat
           /\ \A i \in 1..Len(rbWatch) : rbWatch[i] \in Binding \cup {Gone}
           /\ \A c \in Clusters : /\ works[c] \in Work \cup {None}
                                  /\ cmWorks[c] \in Work \cup {None}
                                  /\ workWatch[c] \in Seq(Work \cup {None})
<1>1. rbWatch \in Seq(Binding \cup {Gone})
  BY DEF TypeOK
<1>2. Len(rbWatch) \in Nat /\ \A i \in 1..Len(rbWatch) : rbWatch[i] \in Binding \cup {Gone}
  BY <1>1, LenProperties, ElementOfSeq
<1>3. sync = Idle <=> sync.pc \notin {"binding", "template"}
  BY Distinct DEF TypeOK
<1> QED
  BY <1>1, <1>2, <1>3 DEF TypeOK

\* Somebody else writes the binding, and leaves its status alone.
LEMMA BindingWritten ==
    ASSUME IInv, rb # Gone, NEW b \in Binding, Write(b),
           b.aggregated = rb.aggregated, b.fullyApplied = rb.fullyApplied,
           template # Gone => b.recorded <= template.generation,
           UNCHANGED <<workVars, template>>, othersUnchanged,
           events' \in 0..MaxEvents, faults' \in 0..MaxFaults
    PROVE  IInv'
<1>1. rb \in Binding /\ rb.version \in Nat /\ b # Gone
  BY Types, Distinct DEF IInv
<1>2. /\ rb' = [b EXCEPT !.version = rb.version + 1] /\ rbWatch' = Append(rbWatch, rb')
      /\ UNCHANGED <<works, workWatch, cmRB, cmWorks, template, queued, sync, excused>>
  BY <1>1 DEF Write, othersUnchanged, workVars, cacheVars
<1>3. /\ rb' \in Binding /\ rb'.aggregated = rb.aggregated
      /\ rb'.fullyApplied = rb.fullyApplied /\ rb'.recorded = b.recorded
  BY <1>1, <1>2 DEF Binding
<1>4. rb' # Gone
  BY <1>3, Distinct
<1>5. /\ rbWatch' \in Seq(Binding \cup {Gone}) /\ Len(rbWatch') = Len(rbWatch) + 1
      /\ Len(rbWatch) \in Nat /\ EndsWith(cmRB, rbWatch', rb')
      /\ \A i \in 1..Len(rbWatch) : rbWatch'[i] = rbWatch[i]
      /\ rbWatch'[Len(rbWatch) + 1] = rb'
  BY <1>2, <1>3, Types, Sent DEF IInv, Watched
<1>6. \A i \in 1..Len(rbWatch') : i \in 1..Len(rbWatch) \/ rbWatch'[i] = rb'
  BY <1>5
<1>7. TypeOK'
  BY <1>2, <1>3, <1>5 DEF IInv, TypeOK
<1>8. Watched'
  BY <1>2, <1>5 DEF IInv, Watched
<1>9. Exists'
  <2>1. cmRB' # Gone /\ \A i \in 1..Len(rbWatch') : rbWatch'[i] # Gone
    BY <1>1, <1>2, <1>4, <1>5, <1>6 DEF IInv, Exists
  <2>2. ASSUME template # Gone
        PROVE  /\ rb'.recorded <= template.generation
               /\ cmRB # Gone => cmRB.recorded <= template.generation
               /\ \A i \in 1..Len(rbWatch') :
                     rbWatch'[i] # Gone => rbWatch'[i].recorded <= template.generation
    BY <1>3, <1>5, <1>6, <2>2 DEF IInv, Exists
  <2> QED
    BY <1>2, <2>1, <2>2 DEF Exists
<1>10. Collected'
  BY <1>1, <1>2, <1>3 DEF IInv, Collected, Settled, Reflected
<1>11. AppliedAsWritten'
  BY <1>2, <1>3 DEF IInv, AppliedAsWritten, WorksFullyApplied
<1>12. TemplateSettled'
  BY <1>2, <1>3 DEF IInv, TemplateSettled, Settled
<1> QED
  BY <1>7, <1>8, <1>9, <1>10, <1>11, <1>12 DEF IInv

\* The binding goes.
LEMMA BindingDeleted ==
    ASSUME IInv, CollectGarbage
    PROVE  IInv'
<1>1. /\ template = Gone /\ rb' = Gone /\ rbWatch' = Append(rbWatch, Gone)
      /\ UNCHANGED <<works, workWatch, cmRB, cmWorks, template, queued, sync, excused>>
      /\ UNCHANGED <<events, faults>>
  BY DEF CollectGarbage, Write, othersUnchanged, workVars, cacheVars, bounds
<1>2. rbWatch' \in Seq(Binding \cup {Gone}) /\ EndsWith(cmRB, rbWatch', Gone)
  BY <1>1, Types, Sent DEF IInv, Watched
<1>3. TypeOK'
  BY <1>1, <1>2 DEF IInv, TypeOK
<1>4. Watched'
  BY <1>1, <1>2 DEF IInv, Watched
<1>5. Exists' /\ AppliedAsWritten' /\ TemplateSettled'
  BY <1>1 DEF Exists, AppliedAsWritten, TemplateSettled
<1>6. Collected'
  BY <1>1 DEF IInv, Collected, Settled, Reflected
<1> QED
  BY <1>3, <1>4, <1>5, <1>6 DEF IInv

\* A template is edited, or deleted; no binding has recorded its new generation.
LEMMA TemplateStep ==
    ASSUME IInv, UpdateTemplate \/ DeleteTemplate
    PROVE  IInv'
<1>1. /\ template \in Template /\ events' \in 0..MaxEvents /\ faults' = faults
      /\ UNCHANGED <<rb, rbWatch, works, workWatch, cmRB, cmWorks, queued, sync, excused>>
  BY Types, BindingStatusAssumption
  DEF IInv, TypeOK, UpdateTemplate, DeleteTemplate, Event, othersUnchanged, rbVars, workVars, cacheVars
<1>2. template.generation \in Nat
  BY <1>1, Distinct
<1>3. CASE template' = Gone
  <2>1. TypeOK' /\ Watched'
    BY <1>1, <1>3 DEF IInv, TypeOK, Watched
  <2>2. Exists' /\ TemplateSettled'
    BY <1>1, <1>3 DEF IInv, Exists, TemplateSettled
  <2>3. Collected'
    BY <1>1 DEF IInv, Collected, Settled, Reflected
  <2>4. AppliedAsWritten'
    BY <1>1 DEF IInv, AppliedAsWritten, WorksFullyApplied
  <2> QED
    BY <2>1, <2>2, <2>3, <2>4 DEF IInv
<1>4. CASE template' = [template EXCEPT !.generation = template.generation + 1]
  <2>0. template' \in Template /\ template'.generation = template.generation + 1
    BY <1>1, <1>2, <1>4 DEF Template
  <2>1. TypeOK' /\ Watched'
    BY <1>1, <2>0 DEF IInv, TypeOK, Watched
  <2>2. /\ template # Gone /\ (rb # Gone => rb.recorded \in Nat)
        /\ cmRB # Gone => cmRB.recorded \in Nat
        /\ \A i \in 1..Len(rbWatch) : rbWatch[i] # Gone => rbWatch[i].recorded \in Nat
    BY <1>1, Types, Distinct DEF IInv
  <2>3. /\ rb # Gone => rb.recorded <= template.generation
        /\ cmRB # Gone => cmRB.recorded <= template.generation
        /\ \A i \in 1..Len(rbWatch) :
              rbWatch[i] # Gone => rbWatch[i].recorded <= template.generation
    BY <2>2 DEF IInv, Exists
  <2>4. /\ rb # Gone => rb.recorded <= template.generation + 1
        /\ cmRB # Gone => cmRB.recorded <= template.generation + 1
                          /\ cmRB.recorded # template.generation + 1
        /\ \A i \in 1..Len(rbWatch) :
              rbWatch[i] # Gone => rbWatch[i].recorded <= template.generation + 1
    BY <1>2, <2>2, <2>3
  <2>5. Exists'
    BY <1>1, <2>0, <2>4 DEF IInv, Exists
  <2>6. TemplateSettled'
    <3>1. rb # Gone => cmRB # Gone
      BY DEF IInv, Exists
    <3> QED
      BY <1>1, <2>0, <2>4, <3>1 DEF TemplateSettled
  <2>7. Collected'
    BY <1>1 DEF IInv, Collected, Settled, Reflected
  <2>8. AppliedAsWritten'
    BY <1>1 DEF IInv, AppliedAsWritten, WorksFullyApplied
  <2> QED
    BY <2>1, <2>5, <2>6, <2>7, <2>8 DEF IInv
<1> QED
  BY <1>3, <1>4 DEF UpdateTemplate, DeleteTemplate

\* Somebody writes a Work.
LEMMA WorkWritten ==
    ASSUME IInv, NEW c \in Clusters, NEW w \in Work \cup {None}, Follows(works[c], w),
           WriteWork(c, w), UNCHANGED <<rbVars, template>>, othersUnchanged,
           events' \in 0..MaxEvents, faults' \in 0..MaxFaults
    PROVE  IInv'
<1>1. /\ works' = [works EXCEPT ![c] = w]
      /\ workWatch' = [workWatch EXCEPT ![c] = Append(workWatch[c], w)]
      /\ UNCHANGED <<rb, rbWatch, cmRB, cmWorks, template, queued, sync, excused>>
  BY DEF WriteWork, othersUnchanged, rbVars, cacheVars
<1>2. /\ Append(workWatch[c], w) \in Seq(Work \cup {None})
      /\ EndsWith(cmWorks[c], Append(workWatch[c], w), w)
      /\ Linked(cmWorks[c], Append(workWatch[c], w))
  BY Types, Sent DEF IInv, Watched
<1>3. TypeOK'
  BY <1>1, <1>2 DEF IInv, TypeOK
<1>4. /\ works'[c] = w /\ workWatch'[c] = Append(workWatch[c], w)
      /\ \A d \in Clusters \ {c} : works'[d] = works[d] /\ workWatch'[d] = workWatch[d]
  BY <1>1 DEF IInv, TypeOK
<1>5. Watched'
  BY <1>1, <1>2, <1>4 DEF IInv, Watched
<1>6. Exists' /\ TemplateSettled'
  BY <1>1 DEF IInv, Exists, TemplateSettled, Settled
<1>7. Collected'
  BY <1>1 DEF IInv, Collected, Settled, Reflected
<1>8. AppliedAsWritten'
  BY <1>1 DEF IInv, AppliedAsWritten, WorksFullyApplied
<1> QED
  BY <1>3, <1>5, <1>6, <1>7, <1>8 DEF IInv

-----------------------------------------------------------------------------
(***************************************************************************)
(* The caches.                                                             *)
(***************************************************************************)
\* The cached Work of one cluster changes: items keep saying what they may, unless
\* the controller is woken or excused.
LEMMA WorkCached ==
    ASSUME IInv, TypeOK', Watched', NEW c \in Clusters, NEW new \in Work \cup {None},
           cmWorks' = [cmWorks EXCEPT ![c] = new],
           queued' = (queued \/ WorkPredicateFn(cmWorks[c], new)),
           excused => excused',
           Follows(cmWorks[c], new) \/ ~Unannounced(cmWorks[c], new) \/ excused',
           UNCHANGED <<rb, rbWatch, cmRB, template, sync>>
    PROVE  IInv'
<1>1. cmWorks'[c] = new /\ \A d \in Clusters \ {c} : cmWorks'[d] = cmWorks[d]
  BY DEF IInv, TypeOK
<1>2. ASSUME Settled'
      PROVE  /\ Settled /\ ~WorkPredicateFn(cmWorks[c], new)
             /\ Follows(cmWorks[c], new) \/ ~Unannounced(cmWorks[c], new)
  BY <1>2 DEF Settled
<1>3. ASSUME Settled', NEW a, Reflected(a)
      PROVE  \A d \in Clusters : Says(a[d], cmWorks'[d])
  <2> SUFFICES ASSUME NEW d \in Clusters
               PROVE  Says(a[d], cmWorks'[d])
    OBVIOUS
  <2>1. Says(a[d], cmWorks[d])
    BY <1>3 DEF Reflected
  <2>2. CASE d # c
    BY <1>1, <2>1, <2>2
  <2>3. CASE d = c
    <3>1. cmWorks[c] \in Work \cup {None}
      BY Types DEF IInv
    <3>2. Says(a[c], new)
      BY <1>2, <1>3, <2>1, <2>3, <3>1, Heard
    <3> QED
      BY <1>1, <2>3, <3>2
  <2> QED
    BY <2>2, <2>3
<1>4. Collected'
  <2>1. ASSUME sync.pc = "binding", Settled'
        PROVE  \A d \in Clusters : Says(sync.aggregated[d], cmWorks'[d])
    BY <1>2, <1>3, <2>1 DEF IInv, Collected
  <2>2. ASSUME sync.pc = "template", Settled', rb # Gone
        PROVE  /\ \A d \in Clusters : Says(sync.aggregated[d], cmWorks'[d])
               /\ rb.aggregated = sync.aggregated
    BY <1>2, <1>3, <2>2 DEF IInv, Collected
  <2>3. ASSUME sync = Idle, Settled', rb # Gone
        PROVE  \A d \in Clusters : Says(rb.aggregated[d], cmWorks'[d])
    BY <1>2, <1>3, <2>3 DEF IInv, Collected
  <2> QED
    BY <2>1, <2>2, <2>3 DEF Collected, Reflected
<1>5. Exists'
  BY DEF IInv, Exists
<1>6. AppliedAsWritten'
  BY DEF IInv, AppliedAsWritten, WorksFullyApplied
<1>7. TemplateSettled'
  BY <1>2 DEF IInv, TemplateSettled
<1> QED
  BY <1>4, <1>5, <1>6, <1>7 DEF IInv

\* The watch delivers the next version of a Work.
LEMMA OnWorkStep ==
    ASSUME IInv, NEW c \in Clusters, OnWork(c)
    PROVE  IInv'
<1> DEFINE q == workWatch[c]
           new == Head(q)
<1>1. /\ q # <<>> /\ workWatch' = [workWatch EXCEPT ![c] = Tail(q)]
      /\ cmWorks' = [cmWorks EXCEPT ![c] = new]
      /\ queued' = (queued \/ WorkPredicateFn(cmWorks[c], new))
      /\ UNCHANGED <<rb, rbWatch, works, cmRB, template, sync, excused, events, faults>>
  BY DEF OnWork, rbVars, bounds
<1>2. /\ new \in Work \cup {None} /\ Tail(q) \in Seq(Work \cup {None})
      /\ EndsWith(new, Tail(q), works[c]) /\ Follows(cmWorks[c], new) /\ Linked(new, Tail(q))
  BY <1>1, Types, Received DEF IInv, Watched
<1>3. queued' \in BOOLEAN
  BY <1>1 DEF IInv, TypeOK, WorkPredicateFn
<1>4. TypeOK'
  BY <1>1, <1>2, <1>3 DEF IInv, TypeOK
<1>5. /\ cmWorks'[c] = new /\ workWatch'[c] = Tail(q)
      /\ \A d \in Clusters \ {c} : cmWorks'[d] = cmWorks[d] /\ workWatch'[d] = workWatch[d]
  BY <1>1 DEF IInv, TypeOK
<1>6. Watched'
  BY <1>1, <1>2, <1>5 DEF IInv, Watched
<1> QED
  BY <1>1, <1>2, <1>4, <1>6, WorkCached

\* A list shows the latest version of a Work.
LEMMA RelistWorkStep ==
    ASSUME IInv, NEW c \in Clusters, RelistWork(c)
    PROVE  IInv'
<1>1. /\ workWatch' = [workWatch EXCEPT ![c] = <<>>]
      /\ cmWorks' = [cmWorks EXCEPT ![c] = works[c]]
      /\ queued' = (queued \/ WorkPredicateFn(cmWorks[c], works[c]))
      /\ excused' = (excused \/ Unannounced(cmWorks[c], works[c]))
      /\ UNCHANGED <<rb, rbWatch, works, cmRB, template, sync, events>>
      /\ faults < MaxFaults /\ faults' = faults + 1
  BY DEF RelistWork, rbVars, Fault
<1>2. works[c] \in Work \cup {None} /\ <<>> \in Seq(Work \cup {None}) /\ Len(<<>>) = 0
  BY Types, EmptySeq DEF IInv
<1>3. queued' \in BOOLEAN /\ excused' \in BOOLEAN /\ faults' \in 0..MaxFaults
  <2>1. queued' \in BOOLEAN /\ excused' \in BOOLEAN
    BY <1>1 DEF IInv, TypeOK, WorkPredicateFn, Unannounced
  <2>2. faults' \in 0..MaxFaults
    BY <1>1, BindingStatusAssumption DEF IInv, TypeOK
  <2> QED
    BY <2>1, <2>2
<1>4. TypeOK'
  BY <1>1, <1>2, <1>3 DEF IInv, TypeOK
<1>5. /\ cmWorks'[c] = works[c] /\ workWatch'[c] = <<>>
      /\ \A d \in Clusters \ {c} : cmWorks'[d] = cmWorks[d] /\ workWatch'[d] = workWatch[d]
  BY <1>1 DEF IInv, TypeOK
<1>6. EndsWith(works[c], <<>>, works[c]) /\ Linked(works[c], <<>>)
  BY <1>2 DEF EndsWith, Linked
<1>7. Watched'
  BY <1>1, <1>5, <1>6 DEF IInv, Watched
<1>8. /\ excused => excused'
      /\ ~Unannounced(cmWorks[c], works[c]) \/ excused'
  BY <1>1
<1> QED
  BY <1>1, <1>2, <1>4, <1>7, <1>8, WorkCached

\* The watch delivers the next version of the binding.
LEMMA OnBindingStep ==
    ASSUME IInv, OnBinding
    PROVE  IInv'
<1> DEFINE new == Head(rbWatch)
<1>1. /\ rbWatch # <<>> /\ rbWatch' = Tail(rbWatch) /\ cmRB' = new
      /\ queued' = (queued \/ BindingPredicateFn(cmRB, new))
      /\ excused' = (excused \/ (new # Gone /\ ~new.scheduled /\ cmRB.recorded # new.recorded))
      /\ UNCHANGED <<rb, works, workWatch, cmWorks, template, sync, events, faults>>
  BY DEF OnBinding, workVars, bounds
<1>2. /\ new \in Binding \cup {Gone} /\ Tail(rbWatch) \in Seq(Binding \cup {Gone})
      /\ new = rbWatch[1] /\ 1 \in 1..Len(rbWatch)
      /\ \A i \in 1..Len(Tail(rbWatch)) :
            i + 1 \in 1..Len(rbWatch) /\ Tail(rbWatch)[i] = rbWatch[i + 1]
      /\ EndsWith(new, Tail(rbWatch), rb)
  BY <1>1, Types, Received DEF IInv, Watched
<1>3. queued' \in BOOLEAN /\ excused' \in BOOLEAN
  BY <1>1 DEF IInv, TypeOK, BindingPredicateFn
<1>4. TypeOK'
  BY <1>1, <1>2, <1>3 DEF IInv, TypeOK
<1>5. Watched'
  BY <1>1, <1>2 DEF IInv, Watched
<1>6. Exists'
  BY <1>1, <1>2 DEF IInv, Exists
<1>7. ASSUME Settled'
      PROVE  Settled /\ (new # Gone => cmRB.recorded = new.recorded)
  <2>1. ~queued /\ ~BindingPredicateFn(cmRB, new)
    BY <1>1, <1>7 DEF Settled
  <2>2. ~excused /\ ~(new # Gone /\ ~new.scheduled /\ cmRB.recorded # new.recorded)
    BY <1>1, <1>7 DEF Settled
  <2> QED
    BY <2>1, <2>2 DEF Settled, BindingPredicateFn
<1>8. Collected'
  BY <1>1, <1>7 DEF IInv, Collected, Reflected
<1>9. AppliedAsWritten'
  BY <1>1 DEF IInv, AppliedAsWritten, WorksFullyApplied
<1>10. TemplateSettled'
  <2>1. rb # Gone => new # Gone
    BY <1>2 DEF IInv, Exists
  <2> QED
    BY <1>1, <1>7, <2>1 DEF IInv, TemplateSettled
<1> QED
  BY <1>4, <1>5, <1>6, <1>8, <1>9, <1>10 DEF IInv

-----------------------------------------------------------------------------
(***************************************************************************)
(* The controller.                                                         *)
(***************************************************************************)
\* A reconciliation begins with what the cached Works say.
LEMMA ReconcileStep ==
    ASSUME IInv, Reconcile
    PROVE  IInv'
<1>1. /\ sync = Idle /\ queued' = FALSE /\ excused' = FALSE
      /\ sync' = IF cmRB = Gone THEN Idle
                 ELSE [pc |-> "binding", aggregated |-> AssembleWorkStatus]
      /\ UNCHANGED <<rb, rbWatch, works, workWatch, cmRB, cmWorks, template, events, faults>>
  BY DEF Reconcile, rbVars, workVars, cacheVars, bounds
<1>2. AssembleWorkStatus \in Aggregation
  BY Types, Distinct DEF IInv, AssembleWorkStatus, Aggregation
<1>3. Reflected(AssembleWorkStatus)
  BY DEF Reflected, AssembleWorkStatus, Says
<1>4. sync' \in Reconciliation \cup {Idle}
  BY <1>1, <1>2 DEF Reconciliation
<1>5. TypeOK' /\ Watched' /\ Exists'
  BY <1>1, <1>4 DEF IInv, TypeOK, Watched, Exists
<1>6. AppliedAsWritten'
  BY <1>1 DEF IInv, AppliedAsWritten, WorksFullyApplied
<1>7. CASE cmRB = Gone
  <2>1. rb = Gone /\ sync' = Idle /\ sync'.pc = "idle"
    BY <1>1, <1>7, Distinct DEF IInv, Exists
  <2>2. Collected' /\ TemplateSettled'
    BY <1>1, <2>1 DEF Collected, TemplateSettled
  <2> QED
    BY <1>5, <1>6, <2>2 DEF IInv
<1>8. CASE cmRB # Gone
  <2>1. sync' = [pc |-> "binding", aggregated |-> AssembleWorkStatus]
    BY <1>1, <1>8
  <2>2. sync' # Idle /\ sync'.pc = "binding" /\ sync'.aggregated = AssembleWorkStatus
    BY <2>1 DEF Idle
  <2>3. Collected'
    BY <1>1, <1>3, <2>2 DEF Collected, Reflected
  <2>4. TemplateSettled'
    BY <2>2 DEF TemplateSettled
  <2> QED
    BY <1>5, <1>6, <2>3, <2>4 DEF IInv
<1> QED
  BY <1>7, <1>8

\* The collection is written into the binding, or is there already.
LEMMA UpdateStatusStep ==
    ASSUME IInv, UpdateStatus
    PROVE  IInv'
<1>1. /\ sync.pc = "binding" /\ cmRB # Gone /\ sync' = [sync EXCEPT !.pc = "template"]
      /\ UNCHANGED <<works, workWatch, cmRB, cmWorks, template, queued, events, faults>>
  BY DEF UpdateStatus, workVars, cacheVars, bounds
<1>2. sync \in Reconciliation /\ cmRB \in Binding
  BY <1>1, Types DEF IInv
<1>3. /\ sync' \in Reconciliation /\ sync'.pc = "template" /\ sync' # Idle
      /\ sync'.aggregated = sync.aggregated /\ sync.aggregated \in Aggregation
  <2>1. /\ sync' \in Reconciliation /\ sync'.pc = "template"
        /\ sync'.aggregated = sync.aggregated /\ sync.aggregated \in Aggregation
    BY <1>1, <1>2 DEF Reconciliation
  <2> QED
    BY <2>1, Distinct
<1> DEFINE f == WorksFullyApplied(sync.aggregated, cmRB.clusters)
<1>4. f \in BOOLEAN
  BY DEF WorksFullyApplied
<1>5. /\ Desired \in Binding /\ Desired.aggregated = sync.aggregated /\ Desired.fullyApplied = f
      /\ Desired.recorded = cmRB.recorded
  <2>1. Desired = [cmRB EXCEPT !.aggregated = sync.aggregated, !.fullyApplied = f]
    BY DEF Desired
  <2> HIDE DEF f
  <2> QED
    BY <1>2, <1>3, <1>4, <2>1 DEF Binding
<1>6. TemplateSettled'
  BY <1>3 DEF TemplateSettled
<1>7. CASE Desired = cmRB
  <2>1. excused' = (excused \/ SkippedUpdate) /\ UNCHANGED <<rb, rbWatch>>
    BY <1>7 DEF UpdateStatus, rbVars
  <2>2. excused' \in BOOLEAN
    BY <2>1 DEF IInv, TypeOK, SkippedUpdate
  <2>3. TypeOK' /\ Watched' /\ Exists'
    BY <1>1, <1>3, <2>1, <2>2 DEF IInv, TypeOK, Watched, Exists
  <2>4. AppliedAsWritten'
    BY <2>1 DEF IInv, AppliedAsWritten, WorksFullyApplied
  <2>5. ASSUME Settled'
        PROVE  Settled /\ ~SkippedUpdate
    BY <1>1, <2>1, <2>5 DEF Settled
  <2>6. ASSUME Settled', rb # Gone
        PROVE  rb.aggregated = sync.aggregated
    BY <1>5, <1>7, <2>5, <2>6 DEF SkippedUpdate
  <2>7. Collected'
    BY <1>1, <1>3, <2>1, <2>5, <2>6 DEF IInv, Collected, Reflected
  <2> QED
    BY <1>6, <2>3, <2>4, <2>7 DEF IInv
<1>8. CASE Desired # cmRB
  <2>1. cmRB = rb /\ Write(Desired) /\ excused' = excused
    BY <1>8 DEF UpdateStatus
  <2>2. Desired # Gone /\ rb \in Binding /\ rb.version \in Nat
    BY <1>2, <1>5, <2>1, Distinct
  <2>3. rb' = [Desired EXCEPT !.version = rb.version + 1] /\ rbWatch' = Append(rbWatch, rb')
    BY <2>1, <2>2 DEF Write
  <2>4. /\ rb' \in Binding /\ rb'.aggregated = sync.aggregated /\ rb'.fullyApplied = f
        /\ rb'.recorded = cmRB.recorded
    <3> HIDE DEF f
    <3> QED
      BY <1>5, <2>2, <2>3 DEF Binding
  <2>5. rb' # Gone
    BY <2>4, Distinct
  <2>6. /\ rbWatch' \in Seq(Binding \cup {Gone}) /\ Len(rbWatch') = Len(rbWatch) + 1
        /\ Len(rbWatch) \in Nat /\ EndsWith(cmRB, rbWatch', rb')
        /\ \A i \in 1..Len(rbWatch) : rbWatch'[i] = rbWatch[i]
        /\ rbWatch'[Len(rbWatch) + 1] = rb'
    BY <2>3, <2>4, Types, Sent DEF IInv, Watched
  <2>7. \A i \in 1..Len(rbWatch') : i \in 1..Len(rbWatch) \/ rbWatch'[i] = rb'
    BY <2>6
  <2>8. TypeOK' /\ Watched'
    BY <1>1, <1>3, <2>1, <2>4, <2>6 DEF IInv, TypeOK, Watched
  <2>9. Exists'
    <3>1. \A i \in 1..Len(rbWatch') : rbWatch'[i] # Gone
      BY <1>1, <2>1, <2>5, <2>6, <2>7 DEF IInv, Exists
    <3>2. ASSUME template # Gone
          PROVE  /\ cmRB.recorded <= template.generation
                 /\ \A i \in 1..Len(rbWatch') : rbWatch'[i].recorded <= template.generation
      <4>1. cmRB.recorded <= template.generation
        BY <1>1, <3>2 DEF IInv, Exists
      <4>2. \A i \in 1..Len(rbWatch) : rbWatch[i].recorded <= template.generation
        BY <1>1, <2>1, <3>2 DEF IInv, Exists
      <4> QED
        BY <2>4, <2>6, <2>7, <4>1, <4>2
    <3> QED
      BY <1>1, <2>4, <3>1, <3>2 DEF Exists
  <2>10. AppliedAsWritten'
    <3>1. cmRB.clusters \in SUBSET Clusters
      BY <1>2, Distinct
    <3>2. f => \E T \in SUBSET Clusters : WorksFullyApplied(sync.aggregated, T)
      BY <3>1
    <3> QED
      BY <2>4, <3>2 DEF AppliedAsWritten, WorksFullyApplied
  <2>11. Collected'
    BY <1>1, <1>3, <2>1, <2>4 DEF IInv, Collected, Reflected, Settled
  <2> QED
    BY <1>6, <2>8, <2>9, <2>10, <2>11 DEF IInv
<1> QED
  BY <1>7, <1>8

\* The controller tries again later.
LEMMA RetryStep ==
    ASSUME IInv, End(TRUE),
           UNCHANGED <<rbVars, workVars, cacheVars, template, excused>>,
           events' \in 0..MaxEvents, faults' \in 0..MaxFaults
    PROVE  IInv'
<1>1. /\ sync' = Idle /\ queued' = TRUE
      /\ UNCHANGED <<rb, rbWatch, works, workWatch, cmRB, cmWorks, template, excused>>
  BY DEF End, rbVars, workVars, cacheVars
<1>2. TypeOK' /\ Watched' /\ Exists'
  BY <1>1 DEF IInv, TypeOK, Watched, Exists
<1>3. AppliedAsWritten'
  BY <1>1 DEF IInv, AppliedAsWritten, WorksFullyApplied
<1>4. Collected' /\ TemplateSettled'
  BY <1>1 DEF Collected, TemplateSettled, Settled
<1> QED
  BY <1>2, <1>3, <1>4 DEF IInv

\* The template is given the collection.
LEMMA UpdateResourceStatusStep ==
    ASSUME IInv, UpdateResourceStatus
    PROVE  IInv'
<1>1. /\ sync.pc = "template" /\ sync' = Idle /\ queued' = (queued \/ FALSE)
      /\ template' = IF template = Gone THEN Gone
                     ELSE [template EXCEPT !.status = [generation |-> template.generation,
                                                       aggregated |-> sync.aggregated]]
      /\ UNCHANGED <<rb, rbWatch, works, workWatch, cmRB, cmWorks, excused, events, faults>>
  BY DEF UpdateResourceStatus, End, rbVars, workVars, cacheVars, bounds
<1>2. queued' = queued
  BY <1>1 DEF IInv, TypeOK
<1>3. sync.aggregated \in Aggregation
  BY <1>1, Types, Distinct DEF IInv
<1>4. ASSUME template # Gone
      PROVE  /\ template' \in Template /\ template'.generation = template.generation
             /\ template'.status = [generation |-> template.generation,
                                    aggregated |-> sync.aggregated]
  BY <1>1, <1>3, <1>4, Types DEF IInv, Template
<1>5. template = Gone => template' = Gone
  BY <1>1
<1>6. TypeOK' /\ Watched'
  BY <1>1, <1>2, <1>4, <1>5 DEF IInv, TypeOK, Watched
<1>7. Exists'
  BY <1>1, <1>4, <1>5 DEF IInv, Exists
<1>8. AppliedAsWritten'
  BY <1>1 DEF IInv, AppliedAsWritten, WorksFullyApplied
<1>9. ASSUME Settled', rb # Gone
      PROVE  Reflected(sync.aggregated) /\ rb.aggregated = sync.aggregated
  BY <1>1, <1>2, <1>9 DEF IInv, Collected, Settled
<1>10. Collected'
  BY <1>1, <1>9, Distinct DEF Collected, Reflected
<1>11. TemplateSettled'
  BY <1>1, <1>4, <1>5, <1>9 DEF TemplateSettled
<1> QED
  BY <1>6, <1>7, <1>8, <1>10, <1>11 DEF IInv

\* A new process has the latest versions, and is woken or excused.
LEMMA RestartStep ==
    ASSUME IInv, Restart
    PROVE  IInv'
<1>1. /\ cmRB' = rb /\ cmWorks' = works
      /\ rbWatch' = <<>> /\ workWatch' = [c \in Clusters |-> <<>>] /\ sync' = Idle
      /\ queued' = (rb # Gone /\ rb.scheduled) /\ excused' = ~queued'
      /\ faults < MaxFaults /\ faults' = faults + 1
      /\ UNCHANGED <<rb, works, template, events>>
  BY DEF Restart, Fault
<1>2. queued' \in BOOLEAN /\ excused' \in BOOLEAN /\ ~Settled'
  BY <1>1 DEF Settled
<1>3. faults' \in 0..MaxFaults
  BY <1>1, BindingStatusAssumption DEF IInv, TypeOK
<1>4. Len(<<>>) = 0 /\ <<>> \in Seq(Binding \cup {Gone}) /\ <<>> \in Seq(Work \cup {None})
  BY EmptySeq
<1>5. TypeOK'
  BY <1>1, <1>2, <1>3, <1>4 DEF IInv, TypeOK
<1>6. Watched'
  <2>1. EndsWith(rb, <<>>, rb)
    BY DEF EndsWith
  <2>2. \A c \in Clusters : EndsWith(works[c], <<>>, works[c]) /\ Linked(works[c], <<>>)
    BY <1>4 DEF EndsWith, Linked
  <2> QED
    BY <1>1, <2>1, <2>2 DEF Watched
<1>7. Exists'
  BY <1>1, <1>4 DEF IInv, Exists
<1>8. AppliedAsWritten'
  BY <1>1 DEF IInv, AppliedAsWritten, WorksFullyApplied
<1>9. Collected' /\ TemplateSettled'
  BY <1>2 DEF Collected, TemplateSettled
<1> QED
  BY <1>5, <1>6, <1>7, <1>8, <1>9 DEF IInv

-----------------------------------------------------------------------------
(***************************************************************************)
(* The theorems.                                                           *)
(***************************************************************************)
\* At first there is nothing to report.
LEMMA InitIInv == Init => IInv
<1> SUFFICES ASSUME Init
             PROVE  IInv
  OBVIOUS
<1>1. Nothing \in Aggregation /\ \A c \in Clusters : Nothing[c] = None
  BY DEF Nothing, Aggregation
<1>2. /\ rb \in Binding /\ rb.recorded = 1 /\ rb.aggregated = Nothing /\ ~rb.fullyApplied
      /\ template \in Template /\ template.generation = 1
      /\ template.status = [generation |-> 1, aggregated |-> Nothing]
  BY <1>1 DEF Init, Binding, Template
<1>3. rb # Gone /\ template # Gone
  BY <1>2, Distinct
<1>4. /\ cmRB = rb /\ rbWatch = <<>> /\ works = Nothing /\ cmWorks = Nothing
      /\ workWatch = [c \in Clusters |-> <<>>]
      /\ queued = FALSE /\ sync = Idle /\ excused = FALSE /\ events = 0 /\ faults = 0
  BY DEF Init
<1>5. Len(<<>>) = 0 /\ <<>> \in Seq(Binding \cup {Gone}) /\ <<>> \in Seq(Work \cup {None})
  BY EmptySeq
<1>6. TypeOK
  <2>1. Nothing \in [Clusters -> Work \cup {None}]
    BY DEF Nothing
  <2>2. 0 \in 0..MaxEvents /\ 0 \in 0..MaxFaults
    BY BindingStatusAssumption
  <2> QED
    BY <1>2, <1>4, <1>5, <2>1, <2>2 DEF TypeOK
<1>7. Watched
  <2>1. EndsWith(rb, <<>>, rb)
    BY DEF EndsWith
  <2>2. \A c \in Clusters : EndsWith(None, <<>>, None) /\ Linked(None, <<>>)
    BY <1>5 DEF EndsWith, Linked
  <2> QED
    BY <1>1, <1>4, <2>1, <2>2 DEF Watched
<1>8. Exists
  BY <1>2, <1>3, <1>4, <1>5 DEF Exists
<1>9. Collected
  <2>1. Reflected(Nothing)
    BY <1>1, <1>4 DEF Reflected, Says
  <2> QED
    BY <1>2, <1>4, <2>1, Distinct DEF Collected
<1>10. AppliedAsWritten /\ TemplateSettled
  BY <1>2, <1>4 DEF AppliedAsWritten, TemplateSettled
<1> QED
  BY <1>6, <1>7, <1>8, <1>9, <1>10 DEF IInv

\* Events and faults stay within their bounds.
LEMMA Bounded ==
    ASSUME TypeOK, Event \/ Fault \/ UNCHANGED bounds
    PROVE  events' \in 0..MaxEvents /\ faults' \in 0..MaxFaults
<1>1. events \in 0..MaxEvents /\ faults \in 0..MaxFaults /\ MaxEvents \in Nat /\ MaxFaults \in Nat
  BY BindingStatusAssumption DEF TypeOK
<1> QED
  BY <1>1 DEF Event, Fault, bounds

\* The scheduler and the detector leave the binding's status alone.
LEMMA BindingStep ==
    ASSUME IInv, (\E S \in SUBSET Clusters : Schedule(S)) \/ Confirm \/ BuildResourceBinding
    PROVE  IInv'
<1>1. rb # Gone /\ rb \in Binding
  <2>1. rb # Gone
    BY DEF Schedule, Confirm, BuildResourceBinding
  <2> QED
    BY <2>1, Types DEF IInv
<1>2. /\ rb.recorded \in Nat /\ events' \in 0..MaxEvents /\ faults' \in 0..MaxFaults
      /\ template # Gone => rb.recorded <= template.generation /\ template.generation \in Nat
  <2>1. events' \in 0..MaxEvents /\ faults' \in 0..MaxFaults
    BY Bounded DEF IInv, Schedule, Confirm, BuildResourceBinding
  <2> QED
    BY <1>1, <2>1, Types, Distinct DEF IInv, Exists
<1>3. ASSUME NEW S \in SUBSET Clusters, Schedule(S)
      PROVE  IInv'
  <2> DEFINE b == [rb EXCEPT !.clusters = S]
  <2>1. Write(b) /\ UNCHANGED <<workVars, template>> /\ othersUnchanged
    BY <1>3 DEF Schedule
  <2>2. /\ b \in Binding /\ b.aggregated = rb.aggregated /\ b.fullyApplied = rb.fullyApplied
        /\ b.recorded = rb.recorded
    BY <1>1 DEF Binding
  <2> HIDE DEF b
  <2> QED
    BY <1>1, <1>2, <2>1, <2>2, BindingWritten
<1>4. CASE Confirm
  <2> DEFINE b == [rb EXCEPT !.scheduled = TRUE]
  <2>1. Write(b) /\ UNCHANGED <<workVars, template>> /\ othersUnchanged
    BY <1>4 DEF Confirm
  <2>2. /\ b \in Binding /\ b.aggregated = rb.aggregated /\ b.fullyApplied = rb.fullyApplied
        /\ b.recorded = rb.recorded
    BY <1>1 DEF Binding
  <2> HIDE DEF b
  <2> QED
    BY <1>1, <1>2, <2>1, <2>2, BindingWritten
<1>5. CASE BuildResourceBinding
  <2> DEFINE b == [rb EXCEPT !.recorded = template.generation]
  <2>1. template # Gone /\ Write(b) /\ UNCHANGED <<workVars, template>> /\ othersUnchanged
    BY <1>5 DEF BuildResourceBinding
  <2>2. /\ b \in Binding /\ b.aggregated = rb.aggregated /\ b.fullyApplied = rb.fullyApplied
        /\ b.recorded = template.generation /\ b.recorded <= template.generation
    BY <1>1, <1>2, <2>1 DEF Binding
  <2> HIDE DEF b
  <2> QED
    BY <1>1, <1>2, <2>1, <2>2, BindingWritten
<1> QED
  BY <1>3, <1>4, <1>5

\* Works come, are reported on, and go.
LEMMA WorkStep ==
    ASSUME IInv, NEW c \in Clusters,
           CreateWork(c) \/ DeleteWork(c) \/ FinishWork(c) \/ \E r \in Reports : ReportWork(c, r)
    PROVE  IInv'
<1>1. /\ events' \in 0..MaxEvents /\ faults' \in 0..MaxFaults
      /\ UNCHANGED <<rbVars, template>> /\ othersUnchanged
  <2>1. Event \/ UNCHANGED bounds
    BY DEF CreateWork, DeleteWork, FinishWork, ReportWork, bounds
  <2>2. UNCHANGED <<rbVars, template>> /\ othersUnchanged
    BY DEF CreateWork, DeleteWork, FinishWork, ReportWork
  <2> QED
    BY <2>1, <2>2, Bounded DEF IInv
<1>2. works[c] # None => works[c] \in Work
  BY Types DEF IInv
<1>3. CASE CreateWork(c)
  <2> DEFINE w == [status |-> New, deleting |-> FALSE]
  <2>1. works[c] = None /\ WriteWork(c, w)
    BY <1>3 DEF CreateWork
  <2>2. w \in Work /\ w.status = New /\ ~w.deleting
    BY DEF Work
  <2>3. w # None
    BY <2>2, Distinct
  <2>4. Follows(works[c], w)
    BY <2>1, <2>2, <2>3 DEF Follows
  <2> HIDE DEF w
  <2> QED
    BY <1>1, <2>1, <2>2, <2>4, WorkWritten
<1>4. CASE DeleteWork(c)
  <2> DEFINE w == [works[c] EXCEPT !.deleting = TRUE]
  <2>1. works[c] # None /\ WriteWork(c, w)
    BY <1>4 DEF DeleteWork
  <2>2. w \in Work /\ w.deleting
    BY <1>2, <2>1 DEF Work
  <2>3. Follows(works[c], w)
    BY <2>1, <2>2, Distinct DEF Follows
  <2> HIDE DEF w
  <2> QED
    BY <1>1, <2>1, <2>2, <2>3, WorkWritten
<1>5. CASE FinishWork(c)
  <2>1. works[c] # None /\ works[c].deleting /\ WriteWork(c, None)
    BY <1>5 DEF FinishWork
  <2>2. Follows(works[c], None)
    BY <2>1 DEF Follows
  <2> QED
    BY <1>1, <2>1, <2>2, WorkWritten
<1>6. ASSUME NEW r \in Reports, ReportWork(c, r)
      PROVE  IInv'
  <2> DEFINE w == [works[c] EXCEPT !.status = r]
  <2>1. works[c] # None /\ WriteWork(c, w)
    BY <1>6 DEF ReportWork
  <2>2. w \in Work /\ w.deleting = works[c].deleting
    BY <1>2, <2>1 DEF Work
  <2>3. Follows(works[c], w)
    BY <2>1, <2>2, Distinct DEF Follows
  <2> HIDE DEF w
  <2> QED
    BY <1>1, <2>1, <2>2, <2>3, WorkWritten
<1> QED
  BY <1>3, <1>4, <1>5, <1>6

\* The invariant is kept by every step.
LEMMA NextIInv == IInv /\ [Next]_vars => IInv'
<1> SUFFICES ASSUME IInv, [Next]_vars
             PROVE  IInv'
  OBVIOUS
<1>1. CASE Environment
  <2>1. ASSUME NEW c \in Clusters, NEW r \in Reports, ReportWork(c, r)
        PROVE  IInv'
    BY <2>1, WorkStep
  <2> QED
    BY <1>1, <2>1, BindingStep, TemplateStep DEF Environment
<1>2. CASE Collaborators
  BY <1>2, BindingStep, BindingDeleted, WorkStep DEF Collaborators
<1>3. CASE Caches
  BY <1>3, OnBindingStep, OnWorkStep DEF Caches
<1>4. CASE Controller
  <2>1. CASE GiveUp
    <3>1. /\ End(TRUE) /\ UNCHANGED <<rbVars, workVars, cacheVars, template, excused>>
          /\ events' \in 0..MaxEvents /\ faults' \in 0..MaxFaults
      BY <2>1, Bounded DEF GiveUp, bounds, IInv
    <3> QED
      BY <3>1, RetryStep
  <2> QED
    BY <1>4, <2>1, ReconcileStep, UpdateStatusStep, UpdateResourceStatusStep DEF Controller
<1>5. CASE Failures
  <2>1. CASE Fail
    <3>1. /\ End(TRUE) /\ UNCHANGED <<rbVars, workVars, cacheVars, template, excused>>
          /\ events' \in 0..MaxEvents /\ faults' \in 0..MaxFaults
      BY <2>1, Bounded DEF Fail, IInv
    <3> QED
      BY <3>1, RetryStep
  <2> QED
    BY <1>5, <2>1, RestartStep, RelistWorkStep DEF Failures
<1>6. CASE UNCHANGED vars
  <2>1. UNCHANGED <<rb, rbWatch, works, workWatch, cmRB, cmWorks, template, queued, sync, excused,
                    events, faults>>
    BY <1>6 DEF vars, rbVars, workVars, cacheVars, bounds
  <2>2. TypeOK' /\ Watched' /\ Exists'
    BY <2>1 DEF IInv, TypeOK, Watched, Exists
  <2>3. Collected' /\ TemplateSettled'
    BY <2>1 DEF IInv, Collected, TemplateSettled, Settled, Reflected
  <2>4. AppliedAsWritten'
    BY <2>1 DEF IInv, AppliedAsWritten, WorksFullyApplied
  <2> QED
    BY <2>2, <2>3, <2>4 DEF IInv
<1> QED
  BY <1>1, <1>2, <1>3, <1>4, <1>5, <1>6 DEF Next

\* The invariant holds in every state of the controller and its caches.
THEOREM Invariant == Spec => []IInv
  BY InitIInv, NextIInv, PTL DEF Spec

\* The variables keep their types (ResourceBindingStatus, binding_types.go).
THEOREM TypeCorrect == Spec => []TypeOK
<1>1. IInv => TypeOK
  BY DEF IInv
<1> QED
  BY <1>1, Invariant, PTL

\* What the caches hold at rest is what the API server has.
LEMMA AtRest ==
    ASSUME IInv, Quiet
    PROVE  cmRB = rb /\ \A c \in Clusters : cmWorks[c] = works[c]
  BY DEF IInv, Watched, Quiet, EndsWith

\* At rest every item of the binding's status is its Work's, and FullyApplied is true
\* only if all clusters have applied (AggregateResourceBindingWorkStatus,
\* workstatus.go:58-94).
THEOREM StatusReflectsWorksAlways == Spec => []StatusReflectsWorks
<1>1. IInv => StatusReflectsWorks
  <2> SUFFICES ASSUME IInv, Quiet, Propagated, ~excused
               PROVE  /\ \A c \in Clusters :
                            rb.aggregated[c] = IF works[c] = None THEN None ELSE works[c].status
                      /\ rb.fullyApplied => AllApplied(rb.clusters)
    BY DEF StatusReflectsWorks
  <2>1. rb # Gone /\ Settled /\ sync = Idle
    BY DEF Quiet, Propagated, Settled
  <2>2. \A c \in Clusters : Says(rb.aggregated[c], works[c])
    BY <2>1, AtRest DEF IInv, Collected, Reflected
  <2>3. \A c \in Clusters : IF c \in rb.clusters
                            THEN works[c] # None /\ works[c].status # New /\ ~works[c].deleting
                            ELSE works[c] = None
    BY DEF Propagated
  <2>4. \A c \in Clusters : /\ c \in rb.clusters => rb.aggregated[c] = works[c].status
                            /\ c \notin rb.clusters => rb.aggregated[c] = None
    BY <2>2, <2>3 DEF Says
  <2>5. ASSUME rb.fullyApplied
        PROVE  AllApplied(rb.clusters)
    <3>1. PICK T \in SUBSET Clusters : WorksFullyApplied(rb.aggregated, T)
      BY <2>1, <2>5 DEF IInv, AppliedAsWritten
    <3>2. /\ T # {} /\ rb.clusters \subseteq Clusters
          /\ \A c \in Clusters : IF c \in T THEN rb.aggregated[c] \in AppliedReports
                                 ELSE rb.aggregated[c] = None
      BY <2>1, <3>1, Types, Distinct DEF IInv, WorksFullyApplied
    <3>3. None \notin AppliedReports
      BY BindingStatusAssumption
    <3>4. \A c \in Clusters : c \in rb.clusters => works[c].status # None
      BY <2>3, Types, Distinct, BindingStatusAssumption DEF IInv
    <3>5. T = rb.clusters
      BY <2>4, <3>2, <3>3, <3>4
    <3> QED
      BY <2>4, <3>2, <3>5 DEF AllApplied
  <2> QED
    BY <2>3, <2>4, <2>5
<1> QED
  BY <1>1, Invariant, PTL

\* At rest the template's status is that of the binding, at the template's generation
\* (updateResourceStatus, status/common.go:146-215).
THEOREM TemplateReflectsBindingAlways == Spec => []TemplateReflectsBinding
<1>1. IInv => TemplateReflectsBinding
  BY AtRest DEF IInv, TemplateSettled, TemplateReflectsBinding, Quiet, Propagated, Settled
<1> QED
  BY <1>1, Invariant, PTL

=============================================================================
