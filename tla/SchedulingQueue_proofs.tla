------------------------ MODULE SchedulingQueue_proofs ------------------------
(***************************************************************************)
(* Proofs about SchedulingQueue, for any bindings, goroutines, priorities  *)
(* and number of changes.                                                  *)
(***************************************************************************)
EXTENDS SchedulingQueue, FiniteSetTheorems, TLAPS

-----------------------------------------------------------------------------
\* A signal turns at most one sleeping goroutine into a ready one.
LEMMA SignalFacts ==
    ASSUME NEW ws \in [Workers -> Worker], NEW vs \in Signalled(ws)
    PROVE  /\ vs \in [Workers -> Worker]
           /\ \A w \in Workers : vs[w] = ws[w] \/ (ws[w].pc = "waiting" /\ vs[w] = Idle("ready"))
<1>1. Idle("ready") \in Worker
  BY DEF Idle, Worker
<1> QED
  BY <1>1 DEF Signalled

\* The users of activeQ.Push leave every goroutine alone but sleeping ones.
LEMMA ActivePushFacts ==
    ASSUME TypeOK, NEW b \in Bindings, NEW prio \in Priorities, ActivePush(b, prio)
    PROVE  /\ activeBindings' \in [Bindings -> Info]
           /\ older' \subseteq Bindings \X Bindings
           /\ dirtyBindings' \subseteq Bindings
           /\ worker' \in [Workers -> Worker]
           /\ latest' \in [Bindings -> Info]
           /\ UNCHANGED processingBindings
           /\ \A w \in Workers : \/ worker'[w] = worker[w]
                                 \/ worker[w].pc = "waiting" /\ worker'[w] = Idle("ready")
           /\ dirtyBindings' = IF shuttingDown THEN dirtyBindings ELSE dirtyBindings \cup {b}
           /\ activeBindings' = IF shuttingDown \/ b \in dirtyBindings \/ b \in processingBindings
                                THEN activeBindings ELSE [activeBindings EXCEPT ![b] = prio]
<1>1. CASE shuttingDown \/ b \in dirtyBindings
  BY <1>1 DEF ActivePush, TypeOK, activeVars
<1>2. CASE ~(shuttingDown \/ b \in dirtyBindings) /\ b \in processingBindings
  BY <1>2 DEF ActivePush, TypeOK, Info
<1>3. CASE ~(shuttingDown \/ b \in dirtyBindings) /\ b \notin processingBindings
  <2>1. Stamped(b) \subseteq Bindings \X Bindings
    BY DEF Stamped, TypeOK
  <2> QED
    BY <1>3, <2>1, SignalFacts DEF ActivePush, AddToHeap, TypeOK, Info
<1> QED
  BY <1>1, <1>2, <1>3

LEMMA IdleType ==
    ASSUME NEW pc \in {"ready", "waiting", "exited"}
    PROVE  Idle(pc) \in Worker /\ Idle(pc).pc = pc
BY DEF Idle, Worker

\* Every action keeps the types.
LEMMA QueueTypeStep == TypeOK /\ [Next]_vars => TypeOK'
<1> SUFFICES ASSUME TypeOK, [Next]_vars PROVE TypeOK'
  OBVIOUS
<1>1. ASSUME NEW b \in Bindings, NEW prio \in Priorities, Push(b, prio) PROVE TypeOK'
  <2>1. notify' \in [Bindings -> Nat] /\ moving' \in [Bindings -> Info]
    BY <1>1 DEF Push, TypeOK, Info
  <2>2. flushing' \in BOOLEAN
    BY <1>1 DEF Push
  <2> QED
    BY <1>1, <2>1, <2>2 DEF Push, TypeOK, activeVars
<1>2. ASSUME NEW b \in Bindings, MoveToActiveQ(b) PROVE TypeOK'
  <2>1. moving[b] \in Priorities
    BY <1>2 DEF MoveToActiveQ, IsFirst, TypeOK, Info
  <2> QED
    BY <1>2, <2>1, ActivePushFacts DEF MoveToActiveQ, TypeOK
<1>3. ASSUME NEW b \in Bindings, Change(b) PROVE TypeOK'
  <2>0. ASSUME NEW r \in Worker, r.pc \in Holding PROVE [r EXCEPT !.saw = FALSE] \in Worker
    BY <2>0 DEF Worker, Holding
  <2>1. worker' \in [Workers -> Worker]
    BY <1>3, <2>0 DEF Change, TypeOK, Holds
  <2> QED
    BY <1>3, <2>1 DEF Change, TypeOK, activeVars, lockVars
<1>4. ASSUME NEW over \in SUBSET Bindings,
             FlushBackoffQCompleted(over) \/ FlushUnschedulableBindingsLeftover(over)
      PROVE  TypeOK'
  BY <1>4 DEF FlushBackoffQCompleted, FlushUnschedulableBindingsLeftover, TypeOK, Info,
     activeVars, ghostVars
<1>5. CASE MoveToActiveQCleanup
  BY <1>5 DEF MoveToActiveQCleanup, TypeOK, Info, activeVars, ghostVars
<1>6. CASE Close
  <2>1. worker' \in [Workers -> Worker]
    BY <1>6, IdleType DEF Close, TypeOK
  <2>2. shuttingDown' \in BOOLEAN
    BY <1>6 DEF Close
  <2>3. unschedulableBindings' \in [Bindings -> Info]
    BY <1>6 DEF Close, Info
  <2>4. UNCHANGED <<activeVars, backoffQ, moving, flushing, cleaning, ghostVars>>
    BY <1>6 DEF Close
  <2> QED
    BY <2>1, <2>2, <2>3, <2>4 DEF TypeOK, activeVars, ghostVars
<1>7. ASSUME NEW w \in Workers, NEW b \in Bindings, Pop(w, b) PROVE TypeOK'
  <2>1. activeBindings[b] \in Priorities
    BY <1>7 DEF Pop, IsFirst, TypeOK, Info
  <2>2. [pc |-> "popped", b |-> b, prio |-> activeBindings[b], saw |-> FALSE] \in Worker
    BY <2>1 DEF Worker, Holding
  <2>3. worker' \in [Workers -> Worker]
    BY <1>7, <2>2 DEF Pop, TypeOK
  <2> QED
    BY <1>7, <2>3 DEF Pop, TypeOK, Info, lockVars, ghostVars
<1>8. ASSUME NEW w \in Workers, PopBlocks(w) PROVE TypeOK'
  <2>1. worker' \in [Workers -> Worker]
    BY <1>8, IdleType DEF PopBlocks, TypeOK
  <2> QED
    BY <1>8, <2>1 DEF PopBlocks, TypeOK, activeVars, lockVars, ghostVars
<1>9. ASSUME NEW w \in Workers, ReadBinding(w) PROVE TypeOK'
  <2>1. [worker[w] EXCEPT !.pc = "scheduling", !.saw = TRUE] \in Worker
    BY <1>9 DEF ReadBinding, TypeOK, Worker, Holding
  <2>2. worker' = [worker EXCEPT ![w] = [worker[w] EXCEPT !.pc = "scheduling", !.saw = TRUE]]
    BY <1>9 DEF ReadBinding, TypeOK
  <2> QED
    BY <1>9, <2>1, <2>2 DEF ReadBinding, TypeOK, activeVars, lockVars, ghostVars
<1>10. ASSUME NEW w \in Workers, Returns(w),
              Forget(w) \/ PushUnschedulableIfNotPresent(w) \/ PushBackoffIfNotPresent(w)
       PROVE  TypeOK'
  <2>1. worker[w].b \in Bindings /\ worker[w].prio \in Priorities
        /\ [worker[w] EXCEPT !.pc = "handled"] \in Worker
    BY <1>10 DEF Returns, TypeOK, Worker, Holding
  <2>2. worker' \in [Workers -> Worker]
    BY <1>10, <2>1 DEF Returns, TypeOK
  <2>3. /\ backoffQ' \in [Bindings -> Info] /\ unschedulableBindings' \in [Bindings -> Info]
        /\ settled' \subseteq Bindings
    BY <1>10, <2>1 DEF Forget, PushUnschedulableIfNotPresent, PushBackoffIfNotPresent, TypeOK,
       Info
  <2> QED
    BY <1>10, <2>2, <2>3 DEF Returns, TypeOK, activeVars
<1>11. ASSUME NEW w \in Workers, Done(w) PROVE TypeOK'
  <2>1. worker[w].b \in Bindings /\ worker[w].prio \in Priorities
    BY <1>11 DEF Done, TypeOK, Worker, Holding
  <2>2. [worker EXCEPT ![w] = Idle("ready")] \in [Workers -> Worker]
    BY IdleType DEF TypeOK
  <2>3. worker' \in [Workers -> Worker]
    BY <1>11, <2>2, SignalFacts DEF Done
  <2>4. activeBindings' \in [Bindings -> Info] /\ older' \subseteq Bindings \X Bindings
    BY <1>11, <2>1 DEF Done, AddToHeap, Stamped, TypeOK, Info
  <2> QED
    BY <1>11, <2>3, <2>4 DEF Done, TypeOK, lockVars, ghostVars
<1>12. CASE UNCHANGED vars
  BY <1>12 DEF vars, TypeOK, activeVars, lockVars, ghostVars
<1> QED
  BY <1>1, <1>2, <1>3, <1>4, <1>5, <1>6, <1>7, <1>8, <1>9, <1>10, <1>11, <1>12
     DEF Next, Forget, PushUnschedulableIfNotPresent, PushBackoffIfNotPresent

-----------------------------------------------------------------------------
(***************************************************************************)
(* The inductive invariant.  Besides the two properties it must say what   *)
(* the holder of bq.lock and a goroutine that has not come back to the     *)
(* queue may rely on: such a binding is in none of the queues that only    *)
(* bq.lock protects.                                                       *)
(***************************************************************************)
\* b is waiting outside activeQ.
Elsewhere(b) ==
    \/ flushing /\ moving[b] # None
    \/ backoffQ[b] # None
    \/ unschedulableBindings[b] # None

\* processingBindings is what the goroutines hold, each binding once.
HeldShape ==
    /\ \A b \in Bindings : b \in processingBindings <=> \E w \in Workers : Holds(w, b)
    /\ NoConcurrentProcessing

HeapShape ==
    \A b \in Bindings :
       activeBindings[b] # None <=> b \in dirtyBindings /\ b \notin processingBindings

LockShape == cleaning # None => moving[cleaning] # None

\* A queued binding, and one an attempt is on, is nowhere else.
ApartShape ==
    \A b \in Bindings \ {cleaning} :
       /\ backoffQ[b] = None \/ unschedulableBindings[b] = None
       /\ b \in dirtyBindings => ~Elsewhere(b)
       /\ \A w \in Workers : Holds(w, b) /\ worker[w].pc # "handled" => ~Elsewhere(b)

QueueInv == TypeOK /\ HeldShape /\ HeapShape /\ LockShape /\ ApartShape

LEMMA QueueInit == Init => QueueInv
<1> SUFFICES ASSUME Init PROVE QueueInv
  OBVIOUS
<1>1. TypeOK
  BY IdleType, QueueAssumption DEF Init, TypeOK, Info
<1>2. \A w \in Workers : worker[w].pc = "ready"
  BY IdleType DEF Init
<1> QED
  BY <1>1, <1>2 DEF Init, QueueInv, HeldShape, HeapShape, LockShape, ApartShape, Elsewhere,
     NoConcurrentProcessing, Holds, Holding

\* Steps that leave alone what the goroutines hold, activeQ and the other queues
\* keep the shape.
LEMMA HoldsStable ==
    ASSUME TypeOK, TypeOK',
           \A w \in Workers : worker'[w] = worker[w] \/
              (worker[w].pc \notin Holding /\ worker'[w].pc \notin Holding)
    PROVE  \A w \in Workers, b \in Bindings :
              /\ Holds(w, b)' <=> Holds(w, b)
              /\ Holds(w, b) => worker'[w] = worker[w]
BY DEF Holds

LEMMA QueueStep == QueueInv /\ [Next]_vars => QueueInv'
<1> SUFFICES ASSUME QueueInv, [Next]_vars PROVE QueueInv'
  OBVIOUS
<1>0. TypeOK /\ TypeOK'
  BY QueueTypeStep DEF QueueInv
<1> USE QueueAssumption
<1>a. Unlocked => cleaning = None /\ \A b \in Bindings : moving[b] = None
  BY <1>0 DEF Unlocked, Present, QueueInv, LockShape, TypeOK
<1>1. ASSUME NEW b \in Bindings, NEW prio \in Priorities, Push(b, prio) PROVE QueueInv'
  <2>1. \A w \in Workers, d \in Bindings : Holds(w, d)' <=> Holds(w, d)
    BY <1>1 DEF Push, Holds
  <2>2. HeldShape' /\ HeapShape' /\ LockShape'
    BY <1>0, <1>1, <1>a, <2>1 DEF Push, QueueInv, HeldShape, HeapShape, LockShape,
       NoConcurrentProcessing, activeVars
  <2>3. ApartShape'
    BY <1>1, <2>1 DEF Push, QueueInv, ApartShape, Elsewhere, activeVars
  <2> QED
    BY <1>0, <2>2, <2>3 DEF QueueInv
<1>2. ASSUME NEW b \in Bindings, MoveToActiveQ(b) PROVE QueueInv'
  <2>1. moving[b] \in Priorities
    BY <1>0, <1>2 DEF MoveToActiveQ, IsFirst, TypeOK, Info
  <2>2. ActivePush(b, moving[b]) /\ cleaning = None /\ cleaning' = b
        /\ UNCHANGED <<backoffQ, unschedulableBindings, moving, flushing>>
    BY <1>2 DEF MoveToActiveQ
  <2>3. \A w \in Workers, d \in Bindings :
           (Holds(w, d)' <=> Holds(w, d)) /\ (Holds(w, d) => worker'[w] = worker[w])
    <3>1. \A w \in Workers : worker'[w] = worker[w] \/
             (worker[w].pc \notin Holding /\ worker'[w].pc \notin Holding)
      BY <1>0, <2>1, <2>2, ActivePushFacts, IdleType DEF Holding
    <3> QED
      BY <1>0, <3>1, HoldsStable
  <2>a. UNCHANGED processingBindings
        /\ dirtyBindings' = (IF shuttingDown THEN dirtyBindings ELSE dirtyBindings \cup {b})
        /\ activeBindings' = IF shuttingDown \/ b \in dirtyBindings \/ b \in processingBindings
                              THEN activeBindings ELSE [activeBindings EXCEPT ![b] = moving[b]]
    BY <1>0, <2>1, <2>2, ActivePushFacts
  <2>4. HeldShape'
    BY <2>3, <2>a DEF QueueInv, HeldShape, NoConcurrentProcessing
  <2>5. HeapShape'
    BY <1>0, <2>1, <2>a DEF QueueInv, HeapShape, TypeOK
  <2>6. LockShape'
    BY <2>1, <2>2 DEF LockShape
  <2>7. ApartShape'
    BY <2>2, <2>3, <2>a DEF QueueInv, ApartShape, Elsewhere
  <2> QED
    BY <1>0, <2>4, <2>5, <2>6, <2>7 DEF QueueInv
<1>3. ASSUME NEW b \in Bindings, Change(b) PROVE QueueInv'
  <2>1. \A w \in Workers : worker'[w].pc = worker[w].pc /\ worker'[w].b = worker[w].b
    BY <1>0, <1>3 DEF Change, TypeOK, Worker
  <2>2. \A w \in Workers, d \in Bindings : Holds(w, d)' <=> Holds(w, d)
    BY <2>1 DEF Holds
  <2> QED
    BY <1>0, <1>3, <2>1, <2>2 DEF Change, QueueInv, HeldShape, HeapShape, LockShape, ApartShape,
       Elsewhere, NoConcurrentProcessing, activeVars, lockVars
<1>4. ASSUME NEW over \in SUBSET Bindings,
             FlushBackoffQCompleted(over) \/ FlushUnschedulableBindingsLeftover(over)
      PROVE  QueueInv'
  <2>1. UNCHANGED <<activeVars, cleaning, worker>> /\ cleaning = None
    BY <1>4, <1>a DEF FlushBackoffQCompleted, FlushUnschedulableBindingsLeftover
  <2>2. \A w \in Workers, d \in Bindings : Holds(w, d)' <=> Holds(w, d)
    BY <2>1 DEF Holds
  <2>3. HeldShape' /\ HeapShape' /\ LockShape'
    BY <2>1, <2>2 DEF QueueInv, HeldShape, HeapShape, LockShape, NoConcurrentProcessing, activeVars
  <2>4. \A d \in Bindings : Elsewhere(d)' => Elsewhere(d)
    BY <1>0, <1>4 DEF FlushBackoffQCompleted, FlushUnschedulableBindingsLeftover, Elsewhere,
       Present, TypeOK
  <2>5. \A d \in Bindings : (backoffQ[d] = None \/ unschedulableBindings[d] = None) =>
                            (backoffQ'[d] = None \/ unschedulableBindings'[d] = None)
    BY <1>0, <1>4 DEF FlushBackoffQCompleted, FlushUnschedulableBindingsLeftover, TypeOK
  <2>6. ApartShape'
    BY <2>1, <2>2, <2>4, <2>5 DEF QueueInv, ApartShape, activeVars
  <2> QED
    BY <1>0, <2>3, <2>6 DEF QueueInv
<1>5. CASE MoveToActiveQCleanup
  <2>1. UNCHANGED <<activeVars, flushing, worker>> /\ cleaning' = None
    BY <1>0, <1>5 DEF MoveToActiveQCleanup, TypeOK
  <2>0. PICK c \in Bindings : c = cleaning
    BY <1>0, <1>5 DEF MoveToActiveQCleanup, TypeOK
  <2>2. \A w \in Workers, d \in Bindings : Holds(w, d)' <=> Holds(w, d)
    BY <2>1 DEF Holds
  <2>3. HeldShape' /\ HeapShape' /\ LockShape'
    BY <2>1, <2>2 DEF QueueInv, HeldShape, HeapShape, LockShape, NoConcurrentProcessing, activeVars
  <2>4. ~Elsewhere(c)' /\ backoffQ'[c] = None
    BY <1>0, <1>5, <2>0, <2>1 DEF MoveToActiveQCleanup, Elsewhere, TypeOK
  <2>5. \A d \in Bindings \ {c} :
           /\ Elsewhere(d)' <=> Elsewhere(d)
           /\ backoffQ'[d] = backoffQ[d] /\ unschedulableBindings'[d] = unschedulableBindings[d]
    BY <1>0, <1>5, <2>0, <2>1 DEF MoveToActiveQCleanup, Elsewhere, TypeOK
  <2>6. ApartShape'
    <3> SUFFICES ASSUME NEW d \in Bindings
        PROVE  /\ backoffQ'[d] = None \/ unschedulableBindings'[d] = None
               /\ d \in dirtyBindings' => ~Elsewhere(d)'
               /\ \A w \in Workers : Holds(w, d)' /\ worker'[w].pc # "handled" => ~Elsewhere(d)'
      BY <2>1 DEF ApartShape
    <3>1. CASE d = c
      BY <2>4, <3>1
    <3>2. CASE d # c
      BY <2>0, <2>1, <2>2, <2>5, <3>2 DEF QueueInv, ApartShape, activeVars
    <3> QED
      BY <3>1, <3>2
  <2> QED
    BY <1>0, <2>3, <2>6 DEF QueueInv
<1>6. CASE Close
  <2>1. UNCHANGED <<activeVars, backoffQ, moving, flushing, cleaning>>
        /\ \A d \in Bindings : unschedulableBindings'[d] = None
    BY <1>6, Zenon DEF Close
  <2>2. \A w \in Workers, d \in Bindings :
           (Holds(w, d)' <=> Holds(w, d)) /\ (Holds(w, d) => worker'[w] = worker[w])
    <3>1. \A w \in Workers : worker'[w] = worker[w] \/
             (worker[w].pc \notin Holding /\ worker'[w].pc \notin Holding)
      BY <1>0, <1>6, IdleType DEF Close, Holding
    <3> QED
      BY <1>0, <3>1, HoldsStable
  <2> QED
    BY <1>0, <2>1, <2>2 DEF QueueInv, HeldShape, HeapShape, LockShape, ApartShape, Elsewhere,
       NoConcurrentProcessing, activeVars
<1>7. ASSUME NEW w \in Workers, NEW b \in Bindings, Pop(w, b) PROVE QueueInv'
  <2>1. /\ activeBindings[b] # None /\ worker[w].pc = "ready"
        /\ activeBindings' = [activeBindings EXCEPT ![b] = None]
        /\ processingBindings' = processingBindings \cup {b}
        /\ dirtyBindings' = dirtyBindings \ {b}
        /\ UNCHANGED lockVars
    BY <1>7 DEF Pop, IsFirst
  <2>2. /\ worker'[w].pc = "popped" /\ worker'[w].b = b
        /\ \A v \in Workers \ {w} : worker'[v] = worker[v]
    BY <1>0, <1>7 DEF Pop, TypeOK
  <2>3. b \in dirtyBindings /\ b \notin processingBindings
    BY <2>1 DEF QueueInv, HeapShape
  <2>4. \A v \in Workers, d \in Bindings : Holds(v, d)' <=> Holds(v, d) \/ (v = w /\ d = b)
    BY <2>1, <2>2 DEF Holds, Holding
  <2>5. \A v \in Workers : ~Holds(v, b)
    BY <2>3 DEF QueueInv, HeldShape
  <2>6. HeldShape'
    BY <2>1, <2>4, <2>5 DEF QueueInv, HeldShape, NoConcurrentProcessing
  <2>7. HeapShape' /\ LockShape'
    BY <1>0, <2>1 DEF QueueInv, HeapShape, LockShape, TypeOK, lockVars
  <2>8. ApartShape'
    BY <2>1, <2>2, <2>3, <2>4 DEF QueueInv, ApartShape, Elsewhere, lockVars
  <2> QED
    BY <1>0, <2>6, <2>7, <2>8 DEF QueueInv
<1>8. ASSUME NEW w \in Workers, PopBlocks(w) PROVE QueueInv'
  <2>1. UNCHANGED <<activeVars, lockVars>>
    BY <1>8 DEF PopBlocks
  <2>2. \A v \in Workers : worker'[v] = worker[v] \/
           (worker[v].pc \notin Holding /\ worker'[v].pc \notin Holding)
    BY <1>0, <1>8, IdleType DEF PopBlocks, TypeOK, Holding
  <2>3. \A v \in Workers, d \in Bindings :
           (Holds(v, d)' <=> Holds(v, d)) /\ (Holds(v, d) => worker'[v] = worker[v])
    BY <1>0, <2>2, HoldsStable
  <2> QED
    BY <1>0, <2>1, <2>3 DEF QueueInv, HeldShape, HeapShape, LockShape, ApartShape, Elsewhere,
       NoConcurrentProcessing, activeVars, lockVars
<1>9. ASSUME NEW w \in Workers, ReadBinding(w) PROVE QueueInv'
  <2>1. UNCHANGED <<activeVars, lockVars>>
    BY <1>9 DEF ReadBinding
  <2>2. /\ worker[w].pc = "popped" /\ worker'[w].pc = "scheduling" /\ worker'[w].b = worker[w].b
        /\ \A v \in Workers \ {w} : worker'[v] = worker[v]
    BY <1>0, <1>9 DEF ReadBinding, TypeOK, Worker
  <2>3. \A v \in Workers, d \in Bindings : Holds(v, d)' <=> Holds(v, d)
    BY <2>2 DEF Holds, Holding
  <2>4. HeldShape' /\ HeapShape' /\ LockShape'
    BY <2>1, <2>3 DEF QueueInv, HeldShape, HeapShape, LockShape, NoConcurrentProcessing,
       activeVars, lockVars
  <2>5. ApartShape'
    BY <2>1, <2>2, <2>3 DEF QueueInv, ApartShape, Elsewhere, activeVars, lockVars
  <2> QED
    BY <1>0, <2>4, <2>5 DEF QueueInv
<1>10. ASSUME NEW w \in Workers, Returns(w),
              Forget(w) \/ PushUnschedulableIfNotPresent(w) \/ PushBackoffIfNotPresent(w)
       PROVE  QueueInv'
  <2>1. /\ worker[w].pc = "scheduling" /\ worker'[w].pc = "handled" /\ worker'[w].b = worker[w].b
        /\ \A v \in Workers \ {w} : worker'[v] = worker[v]
        /\ UNCHANGED <<activeVars, moving, flushing, cleaning>> /\ cleaning = None
    BY <1>0, <1>10, <1>a DEF Returns, TypeOK, Worker
  <2>2. PICK b \in Bindings : worker[w].b = b
    BY <1>0, <2>1 DEF TypeOK, Worker, Holding
  <2>3. \A v \in Workers, d \in Bindings : Holds(v, d)' <=> Holds(v, d)
    BY <2>1 DEF Holds, Holding
  <2>4. Holds(w, b) /\ \A v \in Workers \ {w} : ~Holds(v, b)
    BY <2>1, <2>2 DEF QueueInv, HeldShape, NoConcurrentProcessing, Holds, Holding
  <2>5. HeldShape' /\ HeapShape' /\ LockShape'
    BY <2>1, <2>3 DEF QueueInv, HeldShape, HeapShape, LockShape, NoConcurrentProcessing,
       activeVars
  <2>6. \A d \in Bindings \ {b} : backoffQ'[d] = backoffQ[d] /\
                                   unschedulableBindings'[d] = unschedulableBindings[d]
    BY <1>0, <1>10, <2>2 DEF Forget, PushUnschedulableIfNotPresent, PushBackoffIfNotPresent, TypeOK
  <2>7. backoffQ'[b] = None \/ unschedulableBindings'[b] = None
    BY <1>0, <1>10, <2>1, <2>2, <2>4
       DEF Forget, PushUnschedulableIfNotPresent, PushBackoffIfNotPresent, TypeOK, QueueInv,
           ApartShape
  <2>8. b \in dirtyBindings => ~Elsewhere(b)'
    <3>1. ~Elsewhere(b)
      BY <2>1, <2>4 DEF QueueInv, ApartShape
    <3> QED
      BY <1>0, <1>10, <2>1, <2>2, <3>1
         DEF Forget, PushUnschedulableIfNotPresent, PushBackoffIfNotPresent, TypeOK, Elsewhere
  <2>9. ApartShape'
    <3> SUFFICES ASSUME NEW d \in Bindings
        PROVE  /\ backoffQ'[d] = None \/ unschedulableBindings'[d] = None
               /\ d \in dirtyBindings' => ~Elsewhere(d)'
               /\ \A v \in Workers : Holds(v, d)' /\ worker'[v].pc # "handled" => ~Elsewhere(d)'
      BY DEF ApartShape
    <3>1. CASE d = b
      BY <2>1, <2>3, <2>4, <2>7, <2>8, <3>1 DEF activeVars
    <3>2. CASE d # b
      BY <2>1, <2>3, <2>6, <3>2 DEF QueueInv, ApartShape, Elsewhere, activeVars
    <3> QED
      BY <3>1, <3>2
  <2> QED
    BY <1>0, <2>5, <2>9 DEF QueueInv
<1>11. ASSUME NEW w \in Workers, Done(w) PROVE QueueInv'
  <2>1. PICK b \in Bindings : worker[w].b = b /\ worker[w].prio \in Priorities
    BY <1>0, <1>11 DEF Done, TypeOK, Worker, Holding
  <2>2. /\ worker[w].pc = "handled" /\ UNCHANGED <<dirtyBindings, lockVars>>
        /\ processingBindings' = processingBindings \ {b}
        /\ activeBindings' = IF b \in dirtyBindings
                             THEN [activeBindings EXCEPT ![b] = worker[w].prio] ELSE activeBindings
    BY <1>11, <2>1 DEF Done, AddToHeap
  <2>3. [worker EXCEPT ![w] = Idle("ready")] \in [Workers -> Worker]
    BY <1>0, IdleType DEF TypeOK
  <2>4. worker' \in Signalled([worker EXCEPT ![w] = Idle("ready")])
        \/ worker' = [worker EXCEPT ![w] = Idle("ready")]
    BY <1>11 DEF Done
  <2>5. /\ worker'[w].pc = "ready"
        /\ \A v \in Workers \ {w} : \/ worker'[v] = worker[v]
                                    \/ worker[v].pc \notin Holding /\ worker'[v].pc \notin Holding
    <3> DEFINE ws == [worker EXCEPT ![w] = Idle("ready")]
    <3>1. \A v \in Workers : worker'[v] = ws[v] \/
             (ws[v].pc = "waiting" /\ worker'[v] = Idle("ready"))
      BY <2>3, <2>4, SignalFacts
    <3>2. ws[w] = Idle("ready") /\ \A v \in Workers \ {w} : ws[v] = worker[v]
      BY <1>0 DEF TypeOK
    <3> HIDE DEF ws
    <3> QED
      BY <3>1, <3>2, IdleType DEF Holding
  <2>6. \A v \in Workers, d \in Bindings :
           /\ Holds(v, d)' <=> Holds(v, d) /\ v # w
           /\ Holds(v, d)' => worker'[v] = worker[v]
    BY <2>5 DEF Holds, Holding
  <2>7. Holds(w, b) /\ \A d \in Bindings \ {b} : ~Holds(w, d)
    BY <2>1, <2>2 DEF Holds, Holding
  <2>8. HeldShape'
    BY <2>2, <2>6, <2>7 DEF QueueInv, HeldShape, NoConcurrentProcessing
  <2>9. b \in processingBindings
    BY <2>7 DEF QueueInv, HeldShape
  <2>10. HeapShape'
    BY <1>0, <2>1, <2>2, <2>9 DEF QueueInv, HeapShape, TypeOK
  <2>11. LockShape' /\ ApartShape'
    BY <2>2, <2>6 DEF QueueInv, LockShape, ApartShape, Elsewhere, lockVars
  <2> QED
    BY <1>0, <2>8, <2>10, <2>11 DEF QueueInv
<1>12. CASE UNCHANGED vars
  <2>1. \A v \in Workers, d \in Bindings : Holds(v, d)' <=> Holds(v, d)
    BY <1>12 DEF vars, Holds
  <2> QED
    BY <1>0, <1>12, <2>1 DEF vars, QueueInv, HeldShape, HeapShape, LockShape, ApartShape,
       Elsewhere, NoConcurrentProcessing, activeVars, lockVars
<1> QED
  BY <1>1, <1>2, <1>3, <1>4, <1>5, <1>6, <1>7, <1>8, <1>9, <1>10, <1>11, <1>12
     DEF Next, Forget, PushUnschedulableIfNotPresent, PushBackoffIfNotPresent

-----------------------------------------------------------------------------
\* Every variable of the queue keeps its type, goroutines included.
THEOREM QueueTypeCorrect == Spec => []TypeOK
<1>1. QueueInv => TypeOK
  BY DEF QueueInv
<1> QED
  BY <1>1, QueueInit, QueueStep, PTL DEF Spec

\* The same binding is never handled by two workers at the same time, for any
\* number of workers and any interleaving of pushes, pops, flushes and Done.
THEOREM NeverTwoWorkers == Spec => []NoConcurrentProcessing
<1>1. QueueInv => NoConcurrentProcessing
  BY DEF QueueInv, HeldShape
<1> QED
  BY <1>1, QueueInit, QueueStep, PTL DEF Spec

\* activeQ's heap is the dirty bindings nobody processes, and no binding waits
\* in two of the three queues.
THEOREM NeverQueuedTwice == Spec => []QueuedOnce
<1>1. QueueInv => QueuedOnce
  BY DEF QueueInv, HeapShape, ApartShape, Elsewhere, QueuedOnce, Present, TypeOK
<1> QED
  BY <1>1, QueueInit, QueueStep, PTL DEF Spec

-----------------------------------------------------------------------------
\* Every action keeps an eye on every binding that is not settled.
LEMMA ForgottenStep == QueueInv /\ NoBindingForgotten /\ [Next]_vars => NoBindingForgotten'
<1> SUFFICES ASSUME QueueInv, NoBindingForgotten, [Next]_vars, ~shuttingDown',
                    NEW d \in Bindings, d \notin settled'
             PROVE  Waits(d)' \/ \E w \in Workers : Looks(w, d)'
  BY DEF NoBindingForgotten
<1> DEFINE SomeoneLooks == Waits(d) \/ \E w \in Workers : Looks(w, d)
<1> USE QueueAssumption
<1>0. TypeOK /\ QueueInv'
  BY QueueStep DEF QueueInv
<1>a. Unlocked => cleaning = None /\ \A b \in Bindings : moving[b] = None
  BY <1>0 DEF Unlocked, Present, QueueInv, LockShape, TypeOK
<1>b. ~shuttingDown /\ d \notin settled => SomeoneLooks
  BY DEF NoBindingForgotten
<1>1. ASSUME NEW b \in Bindings, NEW prio \in Priorities, Push(b, prio) PROVE SomeoneLooks'
  <2>1. UNCHANGED <<activeVars, backoffQ, unschedulableBindings, cleaning, worker, settled,
                    shuttingDown>> /\ cleaning = None
    BY <1>1, <1>a DEF Push
  <2>2. CASE d = b
    <3>1. moving'[d] # None
      BY <1>0, <1>1, <2>2 DEF Push, TypeOK
    <3> QED
      BY <2>1, <3>1 DEF Waits
  <2>3. CASE d # b
    <3>1. notify'[d] = notify[d] /\ moving'[d] = moving[d]
      BY <1>0, <1>1, <2>3 DEF Push, TypeOK
    <3> QED
      BY <1>b, <2>1, <3>1 DEF Waits, Looks, Holds, activeVars
  <2> QED
    BY <2>2, <2>3
<1>2. ASSUME NEW b \in Bindings, MoveToActiveQ(b) PROVE SomeoneLooks'
  <2>1. moving[b] \in Priorities
    BY <1>0, <1>2 DEF MoveToActiveQ, IsFirst, TypeOK, Info
  <2>2. ActivePush(b, moving[b]) /\ cleaning = None /\ cleaning' = b
        /\ UNCHANGED <<backoffQ, unschedulableBindings, moving, shuttingDown, notify, settled>>
    BY <1>2 DEF MoveToActiveQ
  <2>3. dirtyBindings' = dirtyBindings \cup {b}
    BY <1>0, <2>1, <2>2, ActivePushFacts
  <2>4. \A w \in Workers : worker'[w] = worker[w] \/ worker[w].pc = "waiting"
    BY <1>0, <2>1, <2>2, ActivePushFacts
  <2>5. \A w \in Workers : Looks(w, d) => Looks(w, d)'
    BY <2>4 DEF Looks, Holds, Holding
  <2> QED
    BY <1>b, <2>2, <2>3, <2>5 DEF Waits
<1>3. ASSUME NEW b \in Bindings, Change(b) PROVE SomeoneLooks'
  <2>1. CASE d = b
    BY <1>0, <1>3, <2>1 DEF Change, Waits, TypeOK
  <2>2. CASE d # b
    <3>1. \A w \in Workers : Looks(w, d) => worker'[w] = worker[w]
      BY <1>3, <2>2 DEF Change, Looks, Holds
    <3>2. \A w \in Workers : Looks(w, d) => Looks(w, d)'
      BY <3>1 DEF Looks, Holds
    <3>3. notify'[d] = notify[d] /\ UNCHANGED <<activeVars, lockVars, shuttingDown>>
          /\ d \notin settled
      BY <1>0, <1>3, <2>2 DEF Change, TypeOK
    <3> QED
      BY <1>b, <3>2, <3>3 DEF Waits, activeVars, lockVars
  <2> QED
    BY <2>1, <2>2
<1>4. ASSUME NEW over \in SUBSET Bindings,
             FlushBackoffQCompleted(over) \/ FlushUnschedulableBindingsLeftover(over)
      PROVE  SomeoneLooks'
  <2>1. UNCHANGED <<activeVars, cleaning, worker, shuttingDown, notify, settled>>
        /\ cleaning = None /\ moving[d] = None
    BY <1>4, <1>a DEF FlushBackoffQCompleted, FlushUnschedulableBindingsLeftover, ghostVars
  <2>2. backoffQ[d] # None \/ unschedulableBindings[d] # None =>
           moving'[d] # None \/ backoffQ'[d] # None \/ unschedulableBindings'[d] # None
    BY <1>0, <1>4 DEF FlushBackoffQCompleted, FlushUnschedulableBindingsLeftover, TypeOK
  <2> QED
    BY <1>b, <2>1, <2>2 DEF Waits, Looks, Holds, activeVars
<1>5. CASE MoveToActiveQCleanup
  <2>1. UNCHANGED <<activeVars, worker, shuttingDown, notify, settled>> /\ cleaning' = None
    BY <1>5 DEF MoveToActiveQCleanup, ghostVars
  <2>2. d # cleaning => /\ moving'[d] = moving[d] /\ backoffQ'[d] = backoffQ[d]
                        /\ unschedulableBindings'[d] = unschedulableBindings[d]
    BY <1>0, <1>5 DEF MoveToActiveQCleanup, TypeOK
  <2> QED
    BY <1>b, <2>1, <2>2 DEF Waits, Looks, Holds, activeVars
<1>6. CASE Close
  BY <1>6 DEF Close
<1>7. ASSUME NEW w \in Workers, NEW b \in Bindings, Pop(w, b) PROVE SomeoneLooks'
  <2>1. UNCHANGED <<lockVars, shuttingDown, notify, settled>> /\ dirtyBindings' = dirtyBindings \ {b}
        /\ worker[w].pc = "ready"
    BY <1>7 DEF Pop, ghostVars
  <2>2. /\ worker'[w].pc = "popped" /\ worker'[w].b = b
        /\ \A v \in Workers \ {w} : worker'[v] = worker[v]
    BY <1>0, <1>7 DEF Pop, TypeOK
  <2>3. \A v \in Workers : Looks(v, d) => Looks(v, d)'
    BY <2>1, <2>2 DEF Looks, Holds, Holding
  <2>4. d = b => Looks(w, d)'
    BY <2>2 DEF Looks, Holds, Holding
  <2> QED
    BY <1>b, <2>1, <2>3, <2>4 DEF Waits, lockVars
<1>8. ASSUME NEW w \in Workers, PopBlocks(w) \/ ReadBinding(w) PROVE SomeoneLooks'
  <2>1. UNCHANGED <<activeVars, lockVars, shuttingDown, notify, settled>>
    BY <1>8 DEF PopBlocks, ReadBinding, ghostVars
  <2>2. \A v \in Workers \ {w} : worker'[v] = worker[v]
    BY <1>0, <1>8 DEF PopBlocks, ReadBinding, TypeOK
  <2>3. worker[w].pc \notin Holding \/
           (worker'[w].pc = "scheduling" /\ worker'[w].b = worker[w].b /\ worker'[w].saw)
    <3>1. CASE PopBlocks(w)
      BY <3>1 DEF PopBlocks, Holding
    <3>2. CASE ReadBinding(w)
      <4>1. worker'[w] = [worker[w] EXCEPT !.pc = "scheduling", !.saw = TRUE]
        BY <1>0, <3>2 DEF ReadBinding, TypeOK
      <4>2. worker[w] \in [pc : Holding, b : Bindings, prio : Priorities, saw : BOOLEAN]
        BY <1>0, <3>2 DEF ReadBinding, TypeOK, Worker
      <4> QED
        BY <4>1, <4>2
    <3> QED
      BY <1>8, <3>1, <3>2
  <2>4. \A v \in Workers : Looks(v, d) => Looks(v, d)'
    BY <2>2, <2>3 DEF Looks, Holds, Holding
  <2> QED
    BY <1>b, <2>1, <2>4 DEF Waits, activeVars, lockVars
<1>9. ASSUME NEW w \in Workers, Returns(w),
             Forget(w) \/ PushUnschedulableIfNotPresent(w) \/ PushBackoffIfNotPresent(w)
      PROVE  SomeoneLooks'
  <2>1. /\ worker[w].pc = "scheduling"
        /\ \A v \in Workers \ {w} : worker'[v] = worker[v]
        /\ UNCHANGED <<activeVars, moving, cleaning, shuttingDown, notify>> /\ cleaning = None
    BY <1>0, <1>9, <1>a DEF Returns, TypeOK
  <2>2. PICK b \in Bindings : worker[w].b = b /\ worker[w].prio # None
    BY <1>0, <2>1 DEF TypeOK, Worker, Holding
  <2>3. ~Elsewhere(b)
    BY <2>1, <2>2 DEF QueueInv, ApartShape, Holds, Holding
  <2>4. CASE d # b
    <3>1. \A v \in Workers : Looks(v, d) => Looks(v, d)'
      BY <2>1, <2>2, <2>4 DEF Looks, Holds
    <3>2. backoffQ'[d] = backoffQ[d] /\ unschedulableBindings'[d] = unschedulableBindings[d]
          /\ d \notin settled
      BY <1>0, <1>9, <2>2, <2>4
         DEF Forget, PushUnschedulableIfNotPresent, PushBackoffIfNotPresent, TypeOK
    <3> QED
      BY <1>b, <2>1, <3>1, <3>2 DEF Waits, activeVars
  <2>5. CASE d = b /\ Forget(w)
    <3>1. ~worker[w].saw /\ d \notin settled
      BY <2>2, <2>5 DEF Forget
    <3>2. \A v \in Workers \ {w} : ~Holds(v, d)
      BY <2>1, <2>2, <2>5 DEF QueueInv, HeldShape, NoConcurrentProcessing, Holds, Holding
    <3>3. \A v \in Workers : ~Looks(v, d)
      BY <2>1, <3>1, <3>2 DEF Looks
    <3>4. moving[d] = None \/ moving'[d] # None
      BY <2>1
    <3> QED
      BY <1>a, <1>b, <2>1, <2>3, <2>5, <3>1, <3>3, <3>4
         DEF Waits, Elsewhere, activeVars
  <2>6. CASE d = b /\ (PushUnschedulableIfNotPresent(w) \/ PushBackoffIfNotPresent(w))
    <3>1. \/ d \in dirtyBindings \/ backoffQ'[d] # None \/ unschedulableBindings'[d] # None
      BY <1>0, <2>2, <2>6 DEF PushUnschedulableIfNotPresent, PushBackoffIfNotPresent, TypeOK
    <3> QED
      BY <2>1, <3>1 DEF Waits, activeVars
  <2> QED
    BY <1>9, <2>4, <2>5, <2>6
<1>10. ASSUME NEW w \in Workers, Done(w) PROVE SomeoneLooks'
  <2>1. worker[w].pc = "handled" /\ UNCHANGED <<dirtyBindings, lockVars, shuttingDown, ghostVars>>
    BY <1>10 DEF Done
  <2>2. [worker EXCEPT ![w] = Idle("ready")] \in [Workers -> Worker]
    BY <1>0, IdleType DEF TypeOK
  <2>3. worker' \in Signalled([worker EXCEPT ![w] = Idle("ready")])
        \/ worker' = [worker EXCEPT ![w] = Idle("ready")]
    BY <1>10 DEF Done
  <2>4. \A v \in Workers \ {w} : worker[v].pc # "waiting" => worker'[v] = worker[v]
    BY <1>0, <2>2, <2>3, SignalFacts DEF TypeOK
  <2>5. \A v \in Workers : Looks(v, d) => Looks(v, d)'
    BY <2>1, <2>4 DEF Looks, Holds
  <2> QED
    BY <1>b, <2>1, <2>5 DEF Waits, lockVars, ghostVars
<1>11. CASE UNCHANGED vars
  BY <1>b, <1>11 DEF vars, Waits, Looks, Holds, activeVars, lockVars, ghostVars
<1> QED
  BY <1>1, <1>2, <1>3, <1>4, <1>5, <1>6, <1>7, <1>8, <1>9, <1>10, <1>11
     DEF Next, Forget, PushUnschedulableIfNotPresent, PushBackoffIfNotPresent

\* A change of a binding is never forgotten: until an attempt that has read it
\* succeeds, the binding is queued, or a watch event or an attempt is under way.
THEOREM NoChangeIsForgotten == Spec => []NoBindingForgotten
<1>1. Init => NoBindingForgotten
  BY DEF Init, NoBindingForgotten, Waits
<1> QED
  BY <1>1, QueueInit, QueueStep, ForgottenStep, PTL DEF Spec

-----------------------------------------------------------------------------
(***************************************************************************)
(* Wake-ups.  A goroutine goes to sleep only on an empty heap, and every   *)
(* entry added to the heap comes with a signal: as long as somebody        *)
(* sleeps, the signal finds somebody, and one more goroutine is awake for  *)
(* the one more entry.                                                     *)
(***************************************************************************)
Ready(ws)    == {w \in Workers : ws[w].pc = "ready"}
Sleeping(ws) == {w \in Workers : ws[w].pc = "waiting"}
Heap         == Present(activeBindings)

\* There are as many goroutines awake as there are entries.
Enough(n, ws) == Sleeping(ws) # {} => n <= Cardinality(Ready(ws))

LEMMA ReadyIsFinite ==
    ASSUME NEW ws
    PROVE  IsFiniteSet(Ready(ws)) /\ Cardinality(Ready(ws)) \in Nat
<1>1. Ready(ws) \in SUBSET Workers
  BY DEF Ready
<1> QED
  BY <1>1, QueueAssumption, FS_Subset, FS_CardinalityType

LEMMA HeapIsFinite == IsFiniteSet(Heap) /\ Cardinality(Heap) \in Nat
<1>1. Heap \in SUBSET Bindings
  BY DEF Heap, Present
<1> QED
  BY <1>1, QueueAssumption, FS_Subset, FS_CardinalityType

\* A goroutine that was not ready and becomes so is one more.
LEMMA OneMoreReady ==
    ASSUME NEW ws \in [Workers -> Worker], NEW w \in Workers, ws[w].pc # "ready"
    PROVE  /\ [ws EXCEPT ![w] = Idle("ready")] \in [Workers -> Worker]
           /\ Cardinality(Ready([ws EXCEPT ![w] = Idle("ready")])) = Cardinality(Ready(ws)) + 1
           /\ Sleeping([ws EXCEPT ![w] = Idle("ready")]) \subseteq Sleeping(ws)
<1>1. Ready([ws EXCEPT ![w] = Idle("ready")]) = Ready(ws) \cup {w} /\ w \notin Ready(ws)
  BY IdleType DEF Ready
<1>2. Sleeping([ws EXCEPT ![w] = Idle("ready")]) \subseteq Sleeping(ws)
  BY IdleType DEF Sleeping
<1>3. Cardinality(Ready(ws) \cup {w}) = Cardinality(Ready(ws)) + 1
  BY <1>1, ReadyIsFinite, FS_AddElement
<1> QED
  BY <1>1, <1>2, <1>3, IdleType

\* A signal makes up for one more entry.
LEMMA SignalMakesUp ==
    ASSUME NEW ws \in [Workers -> Worker], NEW n \in Nat, Enough(n, ws),
           NEW vs \in Signalled(ws)
    PROVE  Enough(n + 1, vs)
<1>1. CASE Sleeping(ws) = {}
  <2>1. vs = ws
    BY <1>1 DEF Signalled, Sleeping
  <2> QED
    BY <1>1, <2>1 DEF Enough
<1>2. CASE Sleeping(ws) # {}
  <2>1. PICK w \in Sleeping(ws) : vs = [ws EXCEPT ![w] = Idle("ready")]
    BY <1>2 DEF Signalled, Sleeping
  <2>2. w \in Workers /\ ws[w].pc # "ready"
    BY DEF Sleeping
  <2>3. Cardinality(Ready(vs)) = Cardinality(Ready(ws)) + 1
    BY <2>1, <2>2, OneMoreReady
  <2>4. n <= Cardinality(Ready(ws))
    BY <1>2 DEF Enough
  <2> QED
    BY <2>3, <2>4, ReadyIsFinite DEF Enough
<1> QED
  BY <1>1, <1>2

\* An entry is added to the heap once.
LEMMA HeapGrows ==
    ASSUME TypeOK, NEW b \in Bindings, NEW prio \in Priorities, b \notin Heap,
           activeBindings' = [activeBindings EXCEPT ![b] = prio]
    PROVE  Cardinality(Heap') = Cardinality(Heap) + 1
<1>1. Heap' = Heap \cup {b}
  BY QueueAssumption DEF Heap, Present, TypeOK
<1> QED
  BY <1>1, HeapIsFinite, FS_AddElement

\* Every step keeps enough goroutines awake for the entries of the heap.
LEMMA WakeupStep == QueueInv /\ NoLostWakeup /\ [Next]_vars => NoLostWakeup'
<1> SUFFICES ASSUME QueueInv, NoLostWakeup, [Next]_vars PROVE NoLostWakeup'
  OBVIOUS
<1>0. TypeOK /\ TypeOK'
  BY QueueTypeStep DEF QueueInv
<1> DEFINE n == Cardinality(Heap)
<1>a. Enough(n, worker) /\ (Sleeping(worker) # {} => ~shuttingDown)
  <2>1. Sleeping(worker) # {} <=> \E w \in Workers : worker[w].pc = "waiting"
    BY DEF Sleeping
  <2> QED
    BY <2>1 DEF NoLostWakeup, Enough, Heap, Ready
<1>b. ASSUME Enough(Cardinality(Heap'), worker'), Sleeping(worker') # {} => ~shuttingDown'
      PROVE  NoLostWakeup'
  <2>1. Sleeping(worker') # {} <=> \E w \in Workers : worker'[w].pc = "waiting"
    BY DEF Sleeping
  <2> QED
    BY <1>b, <2>1 DEF NoLostWakeup, Enough, Heap, Ready
<1>c. n \in Nat /\ worker \in [Workers -> Worker]
  BY <1>0, HeapIsFinite DEF TypeOK
<1>d. ASSUME activeBindings' = activeBindings, shuttingDown' = shuttingDown,
             \A w \in Workers : worker'[w].pc = worker[w].pc
      PROVE  NoLostWakeup'
  <2>1. Ready(worker') = Ready(worker) /\ Sleeping(worker') = Sleeping(worker) /\ Heap' = Heap
    BY <1>d DEF Ready, Sleeping, Heap, Present
  <2> QED
    BY <1>a, <1>b, <1>d, <2>1 DEF Enough
<1>1. ASSUME NEW b \in Bindings, MoveToActiveQ(b) PROVE NoLostWakeup'
  <2>1. moving[b] \in Priorities
    BY <1>0, <1>1 DEF MoveToActiveQ, IsFirst, TypeOK, Info
  <2>2. ActivePush(b, moving[b]) /\ UNCHANGED shuttingDown
    BY <1>1 DEF MoveToActiveQ
  <2>3. CASE shuttingDown \/ b \in dirtyBindings \/ b \in processingBindings
    <3>1. activeBindings' = activeBindings /\ worker' = worker
      BY <2>2, <2>3 DEF ActivePush, activeVars
    <3> QED
      BY <1>d, <2>2, <3>1
  <2>4. CASE ~(shuttingDown \/ b \in dirtyBindings \/ b \in processingBindings)
    <3>1. activeBindings' = [activeBindings EXCEPT ![b] = moving[b]]
          /\ worker' \in Signalled(worker)
      BY <2>2, <2>4 DEF ActivePush, AddToHeap
    <3>2. b \notin Heap
      BY <2>4 DEF QueueInv, HeapShape, Heap, Present
    <3>3. Cardinality(Heap') = n + 1
      BY <1>0, <2>1, <3>1, <3>2, HeapGrows
    <3>4. Enough(n + 1, worker')
      BY <1>a, <1>c, <3>1, SignalMakesUp
    <3> QED
      BY <1>b, <2>2, <2>4, <3>3, <3>4
  <2> QED
    BY <2>3, <2>4
<1>2. ASSUME NEW w \in Workers, NEW b \in Bindings, Pop(w, b) PROVE NoLostWakeup'
  <2>1. Heap' = Heap \ {b} /\ b \in Heap
    BY <1>0, <1>2 DEF Pop, IsFirst, Heap, Present, TypeOK
  <2>2. /\ worker[w].pc = "ready" /\ worker'[w].pc = "popped" /\ UNCHANGED shuttingDown
        /\ \A v \in Workers \ {w} : worker'[v] = worker[v]
    BY <1>0, <1>2 DEF Pop, TypeOK
  <2>3. Ready(worker') = Ready(worker) \ {w} /\ w \in Ready(worker)
    BY <2>2 DEF Ready
  <2>4. Sleeping(worker') = Sleeping(worker)
    BY <2>2 DEF Sleeping
  <2>5. Cardinality(Heap') = n - 1
    BY <2>1, HeapIsFinite, FS_RemoveElement
  <2>6. Cardinality(Ready(worker')) = Cardinality(Ready(worker)) - 1
    BY <2>3, ReadyIsFinite, FS_RemoveElement
  <2>7. Cardinality(Ready(worker)) \in Nat
    BY ReadyIsFinite
  <2>8. Enough(Cardinality(Heap'), worker')
    BY <1>a, <1>c, <2>4, <2>5, <2>6, <2>7 DEF Enough
  <2> QED
    BY <1>a, <1>b, <2>2, <2>4, <2>8
<1>3. ASSUME NEW w \in Workers, PopBlocks(w) PROVE NoLostWakeup'
  <2>1. Heap' = {} /\ UNCHANGED shuttingDown
    BY <1>3 DEF PopBlocks, Heap, Present, activeVars
  <2>2. Enough(Cardinality(Heap'), worker')
    <3>1. Cardinality(Heap') = 0
      BY <2>1, FS_EmptySet
    <3>2. Cardinality(Ready(worker')) \in Nat
      BY ReadyIsFinite
    <3> QED
      BY <3>1, <3>2 DEF Enough
  <2>3. ASSUME shuttingDown PROVE Sleeping(worker') = {}
    <3>1. worker' = [worker EXCEPT ![w] = Idle("exited")]
      BY <1>3, <2>3 DEF PopBlocks
    <3>2. Sleeping(worker) = {}
      BY <1>a, <2>3
    <3> QED
      BY <1>c, <3>1, <3>2, IdleType DEF Sleeping
  <2> QED
    BY <1>b, <2>1, <2>2, <2>3
<1>4. ASSUME NEW w \in Workers, Done(w) PROVE NoLostWakeup'
  <2> DEFINE ws == [worker EXCEPT ![w] = Idle("ready")]
  <2>1. worker[w].pc = "handled" /\ UNCHANGED <<dirtyBindings, shuttingDown>>
    BY <1>4 DEF Done
  <2>2. PICK b \in Bindings : worker[w].b = b /\ worker[w].prio \in Priorities
    BY <1>0, <2>1 DEF TypeOK, Worker, Holding
  <2>3. ws \in [Workers -> Worker] /\ Sleeping(ws) \subseteq Sleeping(worker)
        /\ Cardinality(Ready(ws)) = Cardinality(Ready(worker)) + 1
    BY <1>c, <2>1, OneMoreReady
  <2>5. worker' \in Signalled(ws) \/ (worker' = ws /\ b \notin dirtyBindings)
    BY <1>4, <2>2 DEF Done
  <2> HIDE DEF ws, n
  <2>a. Cardinality(Ready(worker)) \in Nat
    BY ReadyIsFinite
  <2>4. Enough(n, ws)
    BY <1>a, <1>c, <2>3, <2>a DEF Enough
  <2>6. Sleeping(worker') # {} => ~shuttingDown'
    <3>1. \A v \in Workers : worker'[v] = ws[v] \/ worker'[v] = Idle("ready")
      BY <2>3, <2>5, SignalFacts
    <3>2. Sleeping(worker') \subseteq Sleeping(ws)
      BY <3>1, IdleType DEF Sleeping
    <3> QED
      BY <1>a, <2>1, <2>3, <3>2
  <2>7. CASE b \in dirtyBindings
    <3>1. activeBindings' = [activeBindings EXCEPT ![b] = worker[w].prio]
      BY <1>4, <2>2, <2>7 DEF Done, AddToHeap
    <3>2. b \in processingBindings
      BY <2>1, <2>2 DEF QueueInv, HeldShape, Holds, Holding
    <3>3. b \notin Heap
      BY <3>2 DEF QueueInv, HeapShape, Heap, Present
    <3>4. Cardinality(Heap') = n + 1
      BY <1>0, <2>2, <3>1, <3>3, HeapGrows DEF n
    <3>5. Enough(n + 1, worker')
      BY <1>c, <2>3, <2>4, <2>5, <2>7, SignalMakesUp
    <3> QED
      BY <1>b, <2>6, <3>4, <3>5
  <2>8. CASE b \notin dirtyBindings
    <3>1. Heap' = Heap
      BY <1>4, <2>2, <2>8 DEF Done, Heap, Present
    <3>2. CASE worker' = ws
      BY <1>b, <2>4, <2>6, <3>1, <3>2 DEF n
    <3>3. CASE worker' \in Signalled(ws)
      <4>1. Enough(n + 1, worker')
        BY <1>c, <2>3, <2>4, <3>3, SignalMakesUp
      <4>2. Enough(n, worker')
        BY <1>c, <4>1, ReadyIsFinite DEF Enough
      <4> QED
        BY <1>b, <2>6, <3>1, <4>2 DEF n
    <3> QED
      BY <2>5, <3>2, <3>3
  <2> QED
    BY <2>7, <2>8
<1>5. CASE Close
  <2>1. Sleeping(worker') = {}
    BY <1>5, IdleType DEF Close, Sleeping
  <2> QED
    BY <1>b, <2>1 DEF Enough
<1>6. ASSUME NEW b \in Bindings, Change(b) PROVE NoLostWakeup'
  <2>1. \A w \in Workers : worker'[w].pc = worker[w].pc
    BY <1>0, <1>6 DEF Change, TypeOK, Worker
  <2> QED
    BY <1>6, <1>d, <2>1 DEF Change, activeVars
<1>7. ASSUME NEW w \in Workers, ReadBinding(w) \/ Returns(w),
             UNCHANGED <<activeBindings, shuttingDown>>
      PROVE  NoLostWakeup'
  <2>1. Ready(worker') = Ready(worker) /\ Sleeping(worker') = Sleeping(worker)
    <3>1. PICK pc \in {"scheduling", "handled"}, saw \in BOOLEAN :
             worker' = [worker EXCEPT ![w] = [worker[w] EXCEPT !.pc = pc, !.saw = saw]]
      <4>1. CASE ReadBinding(w)
        BY <1>0, <4>1 DEF ReadBinding, TypeOK
      <4>2. CASE Returns(w)
        <5>1. worker[w] \in Worker /\ worker' = [worker EXCEPT ![w].pc = "handled"]
          BY <1>0, <4>2 DEF Returns, TypeOK
        <5>2. [worker[w] EXCEPT !.pc = "handled"] =
                 [worker[w] EXCEPT !.pc = "handled", !.saw = worker[w].saw]
          BY <5>1 DEF Worker
        <5>3. worker[w].saw \in BOOLEAN
          BY <5>1 DEF Worker
        <5> QED
          BY <5>1, <5>2, <5>3
      <4> QED
        BY <1>7, <4>1, <4>2
    <3>2. worker[w].pc \in {"popped", "scheduling"}
      BY <1>7 DEF ReadBinding, Returns
    <3>3. worker'[w].pc = pc /\ \A v \in Workers \ {w} : worker'[v] = worker[v]
      BY <1>c, <3>1 DEF Worker
    <3> QED
      BY <3>2, <3>3 DEF Ready, Sleeping
  <2>2. Heap' = Heap
    BY <1>7 DEF Heap, Present
  <2> QED
    BY <1>7, <1>a, <1>b, <2>1, <2>2 DEF Enough
<1>8. CASE \E w \in Workers : \/ Forget(w) \/ PushUnschedulableIfNotPresent(w)
                             \/ PushBackoffIfNotPresent(w)
  BY <1>7, <1>8 DEF Forget, PushUnschedulableIfNotPresent, PushBackoffIfNotPresent, Returns,
     activeVars
<1>9. CASE \E w \in Workers : ReadBinding(w)
  BY <1>7, <1>9 DEF ReadBinding, activeVars
<1>10. ASSUME UNCHANGED <<activeBindings, worker, shuttingDown>> PROVE NoLostWakeup'
  BY <1>10, <1>d
<1>11. CASE \E b \in Bindings, prio \in Priorities : Push(b, prio)
  BY <1>10, <1>11 DEF Push, activeVars
<1>12. CASE \/ \E over \in SUBSET Bindings : \/ FlushBackoffQCompleted(over)
                                            \/ FlushUnschedulableBindingsLeftover(over)
            \/ MoveToActiveQCleanup
  BY <1>10, <1>12 DEF FlushBackoffQCompleted, FlushUnschedulableBindingsLeftover,
     MoveToActiveQCleanup, activeVars
<1>13. CASE UNCHANGED vars
  BY <1>10, <1>13 DEF vars, activeVars
<1> QED
  BY <1>1, <1>2, <1>3, <1>4, <1>5, <1>6, <1>8, <1>9, <1>11, <1>12, <1>13 DEF Next

\* No wake-up is lost, for any number of goroutines and bindings: while one
\* sleeps in Pop, there are awake ones for all the entries of the heap, although
\* cond.Signal wakes one goroutine and others may pop first.
THEOREM NoWakeupIsLost == Spec => []NoLostWakeup
<1>1. Init => NoLostWakeup
  <2> SUFFICES ASSUME Init PROVE NoLostWakeup
    OBVIOUS
  <2>1. \A w \in Workers : worker[w].pc = "ready"
    BY IdleType DEF Init
  <2> QED
    BY <2>1 DEF NoLostWakeup
<1> QED
  BY <1>1, QueueInit, QueueStep, WakeupStep, PTL DEF Spec

-----------------------------------------------------------------------------
(***************************************************************************)
(* The three queues implement BindingQueue.  todo and busy stand for the   *)
(* refinement mapping of Abstract.                                         *)
(***************************************************************************)
Todo == dirtyBindings \cup {b \in Bindings \ {cleaning} : Elsewhere(b)}
Busy == [w \in Workers |-> IF worker[w].pc \in Holding THEN worker[w].b ELSE None]

\* Busy only changes where a goroutine takes up or puts down a binding.
LEMMA BusyStable ==
    ASSUME \A w \in Workers : \/ worker'[w].pc \in Holding /\ worker[w].pc \in Holding
                                 /\ worker'[w].b = worker[w].b
                              \/ worker[w].pc \notin Holding /\ worker'[w].pc \notin Holding
    PROVE  Busy' = Busy
BY DEF Busy

\* One step of the queue is one step of the abstract queue, or none.
LEMMA RefinementStep ==
    ASSUME QueueInv, [Next]_vars
    PROVE  \/ \E b \in Bindings : Todo' = Todo \cup {b} /\ Busy' = Busy /\ UNCHANGED shuttingDown
           \/ \E w \in Workers, b \in Bindings :
                 /\ b \in Todo /\ Busy[w] = None
                 /\ \A v \in Workers : Busy[v] # b
                 /\ Todo' = Todo \ {b}
                 /\ Busy' = [Busy EXCEPT ![w] = b]
                 /\ UNCHANGED shuttingDown
           \/ \E w \in Workers : Busy' = [Busy EXCEPT ![w] = None] /\ Todo' = Todo
                                 /\ UNCHANGED shuttingDown
           \/ shuttingDown' = TRUE /\ Todo' \in SUBSET Todo /\ Busy' = Busy
           \/ UNCHANGED <<Todo, Busy, shuttingDown>>
<1> USE QueueAssumption
<1>0. TypeOK /\ TypeOK' /\ QueueInv'
  BY QueueStep DEF QueueInv
<1>a. Unlocked => cleaning = None /\ \A b \in Bindings : moving[b] = None
  BY <1>0 DEF Unlocked, Present, QueueInv, LockShape, TypeOK
<1>1. ASSUME NEW b \in Bindings, NEW prio \in Priorities, Push(b, prio)
      PROVE  UNCHANGED <<Todo, Busy, shuttingDown>>
  BY <1>1, <1>a DEF Push, Todo, Busy, Elsewhere, activeVars
<1>2. ASSUME NEW b \in Bindings, MoveToActiveQ(b)
      PROVE  /\ Busy' = Busy /\ UNCHANGED shuttingDown
             /\ Todo' = Todo \cup {b} \/ (shuttingDown /\ Todo' \in SUBSET Todo)
  <2>1. moving[b] \in Priorities
    BY <1>0, <1>2 DEF MoveToActiveQ, IsFirst, TypeOK, Info
  <2>2. ActivePush(b, moving[b]) /\ cleaning = None /\ cleaning' = b
        /\ UNCHANGED <<backoffQ, unschedulableBindings, moving, flushing, shuttingDown>>
    BY <1>2 DEF MoveToActiveQ
  <2>3. dirtyBindings' = (IF shuttingDown THEN dirtyBindings ELSE dirtyBindings \cup {b})
    BY <1>0, <2>1, <2>2, ActivePushFacts
  <2>4. Busy' = Busy
    <3>1. \A w \in Workers : \/ worker'[w] = worker[w]
                             \/ worker[w].pc = "waiting" /\ worker'[w] = Idle("ready")
      BY <1>0, <2>1, <2>2, ActivePushFacts
    <3> QED
      BY <3>1, IdleType, BusyStable DEF Holding
  <2>5. \A d \in Bindings : Elsewhere(d)' <=> Elsewhere(d)
    BY <2>2 DEF Elsewhere
  <2> QED
    BY <2>2, <2>3, <2>4, <2>5 DEF Todo
<1>3. ASSUME NEW b \in Bindings, Change(b) PROVE UNCHANGED <<Todo, Busy, shuttingDown>>
  <2>1. \A w \in Workers : worker'[w].pc = worker[w].pc /\ worker'[w].b = worker[w].b
    BY <1>0, <1>3 DEF Change, TypeOK, Worker
  <2> QED
    BY <1>3, <2>1 DEF Change, Todo, Busy, Elsewhere, activeVars, lockVars
<1>4. ASSUME NEW over \in SUBSET Bindings,
             FlushBackoffQCompleted(over) \/ FlushUnschedulableBindingsLeftover(over)
      PROVE  UNCHANGED <<Todo, Busy, shuttingDown>>
  <2>1. UNCHANGED <<activeVars, cleaning, worker, shuttingDown>>
    BY <1>4 DEF FlushBackoffQCompleted, FlushUnschedulableBindingsLeftover
  <2>2. \A d \in Bindings : Elsewhere(d)' <=> Elsewhere(d)
    BY <1>0, <1>4, <1>a DEF FlushBackoffQCompleted, FlushUnschedulableBindingsLeftover, Elsewhere,
       Present, TypeOK
  <2> QED
    BY <2>1, <2>2 DEF Todo, Busy, activeVars
<1>5. CASE MoveToActiveQCleanup
  <2>1. UNCHANGED <<activeVars, flushing, worker, shuttingDown>> /\ cleaning' = None
    BY <1>5 DEF MoveToActiveQCleanup
  <2>2. PICK c \in Bindings : c = cleaning
    BY <1>0, <1>5 DEF MoveToActiveQCleanup, TypeOK
  <2>3. ~Elsewhere(c)' /\ \A d \in Bindings \ {c} : Elsewhere(d)' <=> Elsewhere(d)
    BY <1>0, <1>5, <2>1, <2>2 DEF MoveToActiveQCleanup, Elsewhere, TypeOK
  <2>4. Todo' = Todo
    BY <2>1, <2>2, <2>3 DEF Todo, activeVars
  <2> QED
    BY <2>1, <2>4 DEF Busy
<1>6. CASE Close
  <2>1. UNCHANGED <<activeVars, backoffQ, moving, flushing, cleaning>> /\ shuttingDown' = TRUE
        /\ \A d \in Bindings : unschedulableBindings'[d] = None
    BY <1>6, Zenon DEF Close
  <2>2. Busy' = Busy
    BY <1>0, <1>6, IdleType, BusyStable DEF Close, Holding
  <2>3. Todo' \subseteq Todo
    BY <2>1 DEF Todo, Elsewhere, activeVars
  <2> QED
    BY <2>1, <2>2, <2>3
<1>7. ASSUME NEW w \in Workers, NEW b \in Bindings, Pop(w, b)
      PROVE  /\ b \in Todo /\ Busy[w] = None
             /\ \A v \in Workers : Busy[v] # b
             /\ Todo' = Todo \ {b}
             /\ Busy' = [Busy EXCEPT ![w] = b]
             /\ UNCHANGED shuttingDown
  <2>1. /\ activeBindings[b] # None /\ worker[w].pc = "ready"
        /\ dirtyBindings' = dirtyBindings \ {b}
        /\ UNCHANGED <<lockVars, shuttingDown>>
    BY <1>7 DEF Pop, IsFirst
  <2>2. /\ worker'[w].pc = "popped" /\ worker'[w].b = b
        /\ \A v \in Workers \ {w} : worker'[v] = worker[v]
    BY <1>0, <1>7 DEF Pop, TypeOK
  <2>3. b \in dirtyBindings /\ b \notin processingBindings
    BY <2>1 DEF QueueInv, HeapShape
  <2>4. \A v \in Workers : Busy[v] # b
    BY <2>3 DEF QueueInv, HeldShape, Holds, Busy
  <2>5. b # cleaning => ~Elsewhere(b)
    BY <2>3 DEF QueueInv, ApartShape
  <2>6. Todo' = Todo \ {b}
    BY <2>1, <2>5 DEF Todo, Elsewhere, lockVars
  <2>7. Busy' = [Busy EXCEPT ![w] = b] /\ Busy[w] = None
    BY <2>1, <2>2 DEF Busy, Holding
  <2> QED
    BY <2>1, <2>3, <2>4, <2>6, <2>7 DEF Todo
<1>8. ASSUME NEW w \in Workers, PopBlocks(w) \/ ReadBinding(w)
      PROVE  UNCHANGED <<Todo, Busy, shuttingDown>>
  <2>1. UNCHANGED <<activeVars, lockVars, shuttingDown>>
    BY <1>8 DEF PopBlocks, ReadBinding
  <2>2. CASE PopBlocks(w)
    BY <1>0, <2>1, <2>2, IdleType, BusyStable
       DEF PopBlocks, TypeOK, Holding, Todo, Elsewhere, activeVars, lockVars
  <2>3. CASE ReadBinding(w)
    <3>1. worker[w] \in [pc : Holding, b : Bindings, prio : Priorities, saw : BOOLEAN]
      BY <1>0, <2>3 DEF ReadBinding, TypeOK, Worker
    <3>2. worker'[w] = [worker[w] EXCEPT !.pc = "scheduling", !.saw = TRUE]
          /\ \A v \in Workers \ {w} : worker'[v] = worker[v]
      BY <1>0, <2>3 DEF ReadBinding, TypeOK
    <3>3. worker'[w].pc = "scheduling" /\ worker'[w].b = worker[w].b /\ worker[w].pc \in Holding
      BY <3>1, <3>2
    <3>4. Busy' = Busy
      BY <3>2, <3>3, BusyStable DEF Holding
    <3> QED
      BY <2>1, <3>4 DEF Todo, Elsewhere, activeVars, lockVars
  <2> QED
    BY <1>8, <2>2, <2>3
<1>9. ASSUME NEW w \in Workers, Returns(w),
             Forget(w) \/ PushUnschedulableIfNotPresent(w) \/ PushBackoffIfNotPresent(w)
      PROVE  \E b \in Bindings : /\ Todo' = Todo \/ Todo' = Todo \cup {b}
                                 /\ Busy' = Busy /\ UNCHANGED shuttingDown
  <2>1. /\ worker[w].pc = "scheduling" /\ worker'[w].pc = "handled" /\ worker'[w].b = worker[w].b
        /\ \A v \in Workers \ {w} : worker'[v] = worker[v]
        /\ UNCHANGED <<activeVars, moving, flushing, cleaning, shuttingDown>> /\ cleaning = None
    BY <1>0, <1>9, <1>a DEF Returns, TypeOK, Worker
  <2>2. PICK b \in Bindings : worker[w].b = b
    BY <1>0, <2>1 DEF TypeOK, Worker, Holding
  <2>3. Busy' = Busy
    BY <2>1, BusyStable DEF Holding
  <2>4. ~Elsewhere(b)
    BY <2>1, <2>2 DEF QueueInv, ApartShape, Holds, Holding
  <2>5. \A d \in Bindings \ {b} : Elsewhere(d)' <=> Elsewhere(d)
    BY <1>0, <1>9, <2>1, <2>2
       DEF Forget, PushUnschedulableIfNotPresent, PushBackoffIfNotPresent, TypeOK, Elsewhere
  <2>6. Todo' = Todo \/ Todo' = Todo \cup {b}
    BY <2>1, <2>4, <2>5 DEF Todo, activeVars
  <2> QED
    BY <2>1, <2>3, <2>6
<1>10. ASSUME NEW w \in Workers, Done(w)
       PROVE  Busy' = [Busy EXCEPT ![w] = None] /\ Todo' = Todo /\ UNCHANGED shuttingDown
  <2>1. UNCHANGED <<dirtyBindings, lockVars, shuttingDown>>
    BY <1>10 DEF Done
  <2> DEFINE ws == [worker EXCEPT ![w] = Idle("ready")]
  <2>2. ws \in [Workers -> Worker]
    BY <1>0, IdleType DEF TypeOK
  <2>3. worker' \in Signalled(ws) \/ worker' = ws
    BY <1>10 DEF Done
  <2>4. \A v \in Workers : worker'[v] = ws[v] \/
           (ws[v].pc = "waiting" /\ worker'[v] = Idle("ready"))
    BY <2>2, <2>3, SignalFacts
  <2>5. ws[w] = Idle("ready") /\ \A v \in Workers \ {w} : ws[v] = worker[v]
    BY <1>0 DEF TypeOK
  <2> HIDE DEF ws
  <2>6. Busy' = [Busy EXCEPT ![w] = None]
    BY <2>4, <2>5, IdleType DEF Busy, Holding
  <2> QED
    BY <2>1, <2>6 DEF Todo, Elsewhere, lockVars
<1>11. CASE UNCHANGED vars
  BY <1>11 DEF vars, Todo, Busy, Elsewhere, activeVars, lockVars
<1>12. CASE \E b \in Bindings : MoveToActiveQ(b)
  <2>1. PICK b \in Bindings : MoveToActiveQ(b)
    BY <1>12
  <2>2. Busy' = Busy /\ UNCHANGED shuttingDown
        /\ (Todo' = Todo \cup {b} \/ (shuttingDown /\ Todo' \in SUBSET Todo))
    BY <1>2, <2>1
  <2>3. shuttingDown \in BOOLEAN
    BY <1>0 DEF TypeOK
  <2> QED
    BY <2>2, <2>3
<1>13. CASE \E w \in Workers : \/ Forget(w) \/ PushUnschedulableIfNotPresent(w)
                              \/ PushBackoffIfNotPresent(w)
  BY <1>9, <1>13 DEF Forget, PushUnschedulableIfNotPresent, PushBackoffIfNotPresent
<1> QED
  BY <1>1, <1>3, <1>4, <1>5, <1>6, <1>7, <1>8, <1>10, <1>11, <1>12, <1>13 DEF Next

\* The scheduling queue implements BindingQueue: requests survive every detour
\* through backoffQ and unschedulableBindings until a worker takes them, and no
\* binding is taken by two workers.
THEOREM QueueImplementsBindingQueue == Spec => Implements
<1>1. Init => Abstract!Init
  <2> SUFFICES ASSUME Init PROVE Abstract!Init
    OBVIOUS
  <2>1. \A w \in Workers : worker[w].pc = "ready"
    BY IdleType DEF Init
  <2> QED
    BY <2>1 DEF Init, Abstract!Init, Holding
<1>2. QueueInv /\ [Next]_vars =>
         [Abstract!Next]_Abstract!vars
  <2> SUFFICES ASSUME QueueInv, [Next]_vars
               PROVE  Abstract!Next \/ UNCHANGED Abstract!vars
    OBVIOUS
  <2> QED
    BY RefinementStep DEF Abstract!Next, Abstract!Request, Abstract!Take, Abstract!Release,
       Abstract!Close, Abstract!vars, Todo, Busy, Elsewhere
<1> QED
  BY <1>1, <1>2, QueueInit, QueueStep, PTL DEF Spec, Implements, Abstract!Spec
=============================================================================
