---------------------------- MODULE SchedulingQueue ----------------------------
(***************************************************************************)
(* The priority queue between the scheduler's event handlers and its       *)
(* worker goroutines: activeQ (heap, dirty set, processing set), backoffQ  *)
(* and unschedulableBindings.                                              *)
(*                                                                         *)
(* Two locks are at work.  bq.lock covers Push, the flushes, Forget and    *)
(* the two pushes of failed bindings.  Pop and Done only take the lock of  *)
(* activeQ, so they run in the middle of a flush: whoever holds bq.lock    *)
(* moves its infos to activeQ one by one and only then deletes them from   *)
(* the other queues.  "moving" holds the infos of the holder.              *)
(*                                                                         *)
(* An info is its priority; its timestamp is the order "older".  Time is   *)
(* abstract: a backoff or the stay in unschedulableBindings may be over at *)
(* any moment.                                                             *)
(***************************************************************************)
EXTENDS Integers, FiniteSets

CONSTANTS
    Bindings,    \* keys of the bindings
    Workers,     \* worker goroutines
    Priorities,  \* the priorities in use
    None,        \* no info, no binding
    MaxChanges,  \* bound on changes of bindings after the first add event
    MayClose     \* the scheduler may be stopped

ASSUME QueueAssumption ==
    /\ IsFiniteSet(Bindings) /\ IsFiniteSet(Workers)
    /\ Priorities \subseteq Int
    /\ None \notin Priorities \cup Bindings
    /\ MaxChanges \in Nat
    /\ MayClose \in BOOLEAN

VARIABLES
    activeBindings,         \* the heap: the info of each binding in it, or None
    older,                  \* <<a, b>>: a has the earlier timestamp
    dirtyBindings,
    processingBindings,
    backoffQ,               \* info or None
    unschedulableBindings,  \* info or None
    moving,                 \* infos the holder of bq.lock moves to activeQ
    flushing,               \* the holder is a flush, not an event handler
    cleaning,               \* the one that is in activeQ and not yet deleted elsewhere
    worker,                 \* what each goroutine does
    shuttingDown,
    notify,                 \* watch events per binding not yet given to the handlers
    settled,                \* bindings whose last change a successful attempt has read
    latest,                 \* the priority of the last push activeQ did not ignore
    changes

activeVars == <<activeBindings, older, dirtyBindings, processingBindings>>
lockVars   == <<backoffQ, unschedulableBindings, moving, flushing, cleaning>>
ghostVars  == <<notify, settled, latest, changes>>
vars       == <<activeVars, lockVars, worker, shuttingDown, ghostVars>>

Info    == Priorities \cup {None}
Present(q) == {b \in Bindings : q[b] # None}

\* A goroutine with the binding and info it popped; "saw" says that nothing it
\* depends on has changed since it read the binding.
Idle(pc) == [pc |-> pc, b |-> None, prio |-> None, saw |-> FALSE]
Holding  == {"popped", "scheduling", "handled"}

Holds(w, b) == worker[w].pc \in Holding /\ worker[w].b = b

\* Every binding in the informer's first list gets an add event.
Init ==
    /\ activeBindings = [b \in Bindings |-> None]
    /\ older = {}
    /\ dirtyBindings = {} /\ processingBindings = {}
    /\ backoffQ = [b \in Bindings |-> None]
    /\ unschedulableBindings = [b \in Bindings |-> None]
    /\ moving = [b \in Bindings |-> None] /\ flushing = FALSE /\ cleaning = None
    /\ worker = [w \in Workers |-> Idle("ready")]
    /\ shuttingDown = FALSE
    /\ notify = [b \in Bindings |-> 1]
    /\ settled = {}
    /\ latest = [b \in Bindings |-> None]
    /\ changes = 0

-----------------------------------------------------------------------------
(***************************************************************************)
(* activeQ.                                                                *)
(***************************************************************************)
Less(q, a, b) == q[a] > q[b] \/ (q[a] = q[b] /\ <<a, b>> \in older)

\* No other binding of q comes before b.
IsFirst(q, b) == q[b] # None /\ \A a \in Present(q) \ {b} : ~Less(q, a, b)

\* b gets the timestamp "now".
Stamped(b) == {p \in older : p[1] # b} \cup ((Bindings \ {b}) \X {b})

\* cond.Signal wakes one goroutine out of cond.Wait, if there is one.
Signalled(ws) ==
    LET waiting == {w \in Workers : ws[w].pc = "waiting"}
    IN  IF waiting = {} THEN {ws} ELSE {[ws EXCEPT ![w] = Idle("ready")] : w \in waiting}

AddToHeap(b, prio) ==
    /\ activeBindings' = [activeBindings EXCEPT ![b] = prio]
    /\ older' = Stamped(b)

\* Mutant: a push of a binding that is being processed is not remembered.
ActivePushNotRemembered(b, prio) ==
    IF shuttingDown \/ b \in dirtyBindings \/ b \in processingBindings
    THEN UNCHANGED <<activeVars, worker, latest>>
    ELSE /\ latest' = [latest EXCEPT ![b] = prio]
         /\ dirtyBindings' = dirtyBindings \cup {b}
         /\ UNCHANGED processingBindings
         /\ AddToHeap(b, prio) /\ worker' \in Signalled(worker)

\* Mutant: nobody is woken up.
ActivePushWithoutSignal(b, prio) ==
    IF shuttingDown \/ b \in dirtyBindings
    THEN UNCHANGED <<activeVars, worker, latest>>
    ELSE /\ latest' = [latest EXCEPT ![b] = prio]
         /\ dirtyBindings' = dirtyBindings \cup {b}
         /\ UNCHANGED <<processingBindings, worker>>
         /\ IF b \in processingBindings THEN UNCHANGED <<activeBindings, older>>
                                        ELSE AddToHeap(b, prio)

ActivePush(b, prio) ==
    IF shuttingDown \/ b \in dirtyBindings
    THEN UNCHANGED <<activeVars, worker, latest>>
    ELSE /\ latest' = [latest EXCEPT ![b] = prio]
         /\ dirtyBindings' = dirtyBindings \cup {b}
         /\ UNCHANGED processingBindings
         /\ IF b \in processingBindings
            THEN UNCHANGED <<activeBindings, older, worker>>
            ELSE AddToHeap(b, prio) /\ worker' \in Signalled(worker)

\* Mutant: the binding stays dirty.
PopStaysDirty(w, b) ==
    /\ worker[w].pc = "ready"
    /\ IsFirst(activeBindings, b)
    /\ activeBindings' = [activeBindings EXCEPT ![b] = None]
    /\ processingBindings' = processingBindings \cup {b}
    /\ worker' = [worker EXCEPT ![w] =
                     [pc |-> "popped", b |-> b, prio |-> activeBindings[b], saw |-> FALSE]]
    /\ UNCHANGED <<older, dirtyBindings, lockVars, shuttingDown, ghostVars>>

Pop(w, b) ==
    /\ worker[w].pc = "ready"
    /\ IsFirst(activeBindings, b)
    /\ activeBindings' = [activeBindings EXCEPT ![b] = None]
    /\ processingBindings' = processingBindings \cup {b}
    /\ dirtyBindings' = dirtyBindings \ {b}
    /\ worker' = [worker EXCEPT ![w] =
                     [pc |-> "popped", b |-> b, prio |-> activeBindings[b], saw |-> FALSE]]
    /\ UNCHANGED <<older, lockVars, shuttingDown, ghostVars>>

\* An empty heap: wait for a signal, or leave when the queue is shut down.
PopBlocks(w) ==
    /\ worker[w].pc = "ready"
    /\ Present(activeBindings) = {}
    /\ worker' = [worker EXCEPT ![w] = Idle(IF shuttingDown THEN "exited" ELSE "waiting")]
    /\ UNCHANGED <<activeVars, lockVars, shuttingDown, ghostVars>>

\* Mutant: a binding pushed while it was processed is not queued again.
DoneWithoutRequeue(w) ==
    LET b   == worker[w].b
        all == [worker EXCEPT ![w] = Idle("ready")]
    IN  /\ worker[w].pc = "handled"
        /\ processingBindings' = processingBindings \ {b}
        /\ worker' \in IF processingBindings = {b} THEN Signalled(all) ELSE {all}
        /\ UNCHANGED <<activeBindings, older, dirtyBindings, lockVars, shuttingDown, ghostVars>>

Done(w) ==
    LET b   == worker[w].b
        all == [worker EXCEPT ![w] = Idle("ready")]
    IN  /\ worker[w].pc = "handled"
        /\ processingBindings' = processingBindings \ {b}
        /\ IF b \in dirtyBindings
           THEN AddToHeap(b, worker[w].prio) /\ worker' \in Signalled(all)
           ELSE /\ UNCHANGED <<activeBindings, older>>
                /\ worker' \in IF processingBindings = {b} THEN Signalled(all) ELSE {all}
        /\ UNCHANGED <<dirtyBindings, lockVars, shuttingDown, ghostVars>>

-----------------------------------------------------------------------------
(***************************************************************************)
(* Under bq.lock.                                                          *)
(***************************************************************************)
Unlocked == Present(moving) = {}

\* An event handler pushes a new info built from the object it was given.
Push(b, prio) ==
    /\ Unlocked
    /\ notify[b] > 0
    /\ notify' = [notify EXCEPT ![b] = @ - 1]
    /\ moving' = [moving EXCEPT ![b] = prio]
    /\ flushing' = FALSE
    /\ UNCHANGED <<activeVars, backoffQ, unschedulableBindings, cleaning, worker,
                   shuttingDown, settled, latest, changes>>

\* The infos in "over" are popped off backoffQ before the first of them is moved.
\* A flush that waited for the lock while Close held it still runs.
FlushBackoffQCompleted(over) ==
    /\ Unlocked
    /\ over # {} /\ over \subseteq Present(backoffQ)
    /\ flushing' = TRUE
    /\ moving' = [b \in Bindings |-> IF b \in over THEN backoffQ[b] ELSE None]
    /\ backoffQ' = [b \in Bindings |-> IF b \in over THEN None ELSE backoffQ[b]]
    /\ UNCHANGED <<activeVars, unschedulableBindings, cleaning, worker, shuttingDown, ghostVars>>

FlushUnschedulableBindingsLeftover(over) ==
    /\ Unlocked
    /\ over # {} /\ over \subseteq Present(unschedulableBindings)
    /\ flushing' = TRUE
    /\ moving' = [b \in Bindings |-> IF b \in over THEN unschedulableBindings[b] ELSE None]
    /\ UNCHANGED <<activeVars, backoffQ, unschedulableBindings, cleaning, worker,
                   shuttingDown, ghostVars>>

\* moveToActiveQ, in the order of sortBindingsByPriority.
MoveToActiveQ(b) ==
    /\ cleaning = None
    /\ IsFirst(moving, b)
    /\ ActivePush(b, moving[b])
    /\ cleaning' = b
    /\ UNCHANGED <<backoffQ, unschedulableBindings, moving, flushing, shuttingDown,
                   notify, settled, changes>>

MoveToActiveQCleanup ==
    /\ cleaning # None
    /\ backoffQ' = [backoffQ EXCEPT ![cleaning] = None]
    /\ unschedulableBindings' = [unschedulableBindings EXCEPT ![cleaning] = None]
    /\ moving' = [moving EXCEPT ![cleaning] = None]
    /\ cleaning' = None
    /\ UNCHANGED <<activeVars, flushing, worker, shuttingDown, ghostVars>>

Close ==
    /\ MayClose /\ ~shuttingDown
    /\ Unlocked
    /\ shuttingDown' = TRUE
    /\ unschedulableBindings' = [b \in Bindings |-> None]
    /\ worker' = [w \in Workers |->
                     IF worker[w].pc = "waiting" THEN Idle("ready") ELSE worker[w]]
    /\ UNCHANGED <<activeVars, backoffQ, moving, flushing, cleaning, ghostVars>>

-----------------------------------------------------------------------------
(***************************************************************************)
(* The users of the queue: scheduleNext and the informer.                  *)
(***************************************************************************)
\* doSchedule reads the binding from the informer's cache.
ReadBinding(w) ==
    /\ worker[w].pc = "popped"
    /\ worker' = [worker EXCEPT ![w].pc = "scheduling", ![w].saw = TRUE]
    /\ UNCHANGED <<activeVars, lockVars, shuttingDown, ghostVars>>

\* doSchedule has returned and handleErr goes on under bq.lock.
Returns(w) ==
    /\ worker[w].pc = "scheduling"
    /\ Unlocked
    /\ worker' = [worker EXCEPT ![w].pc = "handled"]
    /\ UNCHANGED <<activeVars, moving, flushing, cleaning, shuttingDown, notify, latest, changes>>

Forget(w) ==
    /\ Returns(w)
    /\ backoffQ' = [backoffQ EXCEPT ![worker[w].b] = None]
    /\ settled' = IF worker[w].saw THEN settled \cup {worker[w].b} ELSE settled
    /\ UNCHANGED unschedulableBindings

PushUnschedulableIfNotPresent(w) ==
    LET b == worker[w].b IN
    /\ Returns(w)
    /\ unschedulableBindings' =
          IF backoffQ[b] # None \/ b \in dirtyBindings THEN unschedulableBindings
          ELSE [unschedulableBindings EXCEPT ![b] = worker[w].prio]
    /\ UNCHANGED <<backoffQ, settled>>

PushBackoffIfNotPresent(w) ==
    LET b == worker[w].b IN
    /\ Returns(w)
    /\ backoffQ' =
          IF unschedulableBindings[b] # None \/ b \in dirtyBindings THEN backoffQ
          ELSE [backoffQ EXCEPT ![b] = worker[w].prio]
    /\ UNCHANGED <<unschedulableBindings, settled>>

\* The informer's cache changes in something the scheduling of b depends on;
\* the handlers are told later.
Change(b) ==
    /\ changes < MaxChanges
    /\ changes' = changes + 1
    /\ notify' = [notify EXCEPT ![b] = @ + 1]
    /\ settled' = settled \ {b}
    /\ worker' = [w \in Workers |->
                     IF Holds(w, b) THEN [worker[w] EXCEPT !.saw = FALSE] ELSE worker[w]]
    /\ UNCHANGED <<activeVars, lockVars, shuttingDown, latest>>

Next ==
    \/ \E b \in Bindings :
          \/ \E prio \in Priorities : Push(b, prio)
          \/ MoveToActiveQ(b)
          \/ Change(b)
    \/ \E over \in SUBSET Bindings :
          \/ FlushBackoffQCompleted(over)
          \/ FlushUnschedulableBindingsLeftover(over)
    \/ MoveToActiveQCleanup
    \/ Close
    \/ \E w \in Workers :
          \/ \E b \in Bindings : Pop(w, b)
          \/ PopBlocks(w)
          \/ ReadBinding(w)
          \/ Forget(w)
          \/ PushUnschedulableIfNotPresent(w)
          \/ PushBackoffIfNotPresent(w)
          \/ Done(w)

(***************************************************************************)
(* Goroutines run, attempts return and timers fire.  sync.Mutex hands the  *)
(* lock to a waiter that has been starved for a millisecond, which makes   *)
(* acquiring bq.lock strongly fair; activeQ's lock is only held for a      *)
(* moment, but its heap may be emptied by others: also strong.             *)
(***************************************************************************)
Fairness ==
    /\ \A b \in Bindings :
          /\ SF_vars(\E prio \in Priorities : Push(b, prio))
          /\ WF_vars(MoveToActiveQ(b))
          /\ SF_vars(\E over \in SUBSET Bindings : b \in over /\ FlushBackoffQCompleted(over))
          /\ SF_vars(\E over \in SUBSET Bindings :
                        b \in over /\ FlushUnschedulableBindingsLeftover(over))
    /\ WF_vars(MoveToActiveQCleanup)
    /\ \A w \in Workers :
          /\ WF_vars((\E b \in Bindings : Pop(w, b)) \/ PopBlocks(w))
          /\ WF_vars(ReadBinding(w))
          /\ SF_vars(Forget(w) \/ PushUnschedulableIfNotPresent(w) \/ PushBackoffIfNotPresent(w))
          /\ WF_vars(Done(w))

Spec     == Init /\ [][Next]_vars
FairSpec == Spec /\ Fairness

-----------------------------------------------------------------------------
(***************************************************************************)
(* Properties.                                                             *)
(***************************************************************************)
Worker ==
    [pc : {"ready", "waiting", "exited"}, b : {None}, prio : {None}, saw : {FALSE}]
    \cup [pc : Holding, b : Bindings, prio : Priorities, saw : BOOLEAN]

\* Every variable keeps its type.
TypeOK ==
    /\ activeBindings \in [Bindings -> Info]
    /\ older \subseteq Bindings \X Bindings
    /\ dirtyBindings \subseteq Bindings /\ processingBindings \subseteq Bindings
    /\ backoffQ \in [Bindings -> Info]
    /\ unschedulableBindings \in [Bindings -> Info]
    /\ moving \in [Bindings -> Info]
    /\ flushing \in BOOLEAN /\ cleaning \in Bindings \cup {None}
    /\ worker \in [Workers -> Worker]
    /\ shuttingDown \in BOOLEAN
    /\ notify \in [Bindings -> Nat]
    /\ settled \subseteq Bindings
    /\ latest \in [Bindings -> Info]
    /\ changes \in Nat

\* A binding is processed by at most one worker goroutine, although Push marks
\* it dirty and Done re-queues it while other goroutines pop.
NoConcurrentProcessing ==
    \A b \in Bindings, v, w \in Workers : Holds(v, b) /\ Holds(w, b) => v = w

\* The heap of activeQ holds exactly the dirty bindings nobody processes, and
\* outside moveToActiveQ a binding is in at most one of activeQ, backoffQ and
\* unschedulableBindings, so no retry of it is pending twice.
QueuedOnce ==
    /\ Present(activeBindings) = dirtyBindings \ processingBindings
    /\ \A b \in Bindings \ {cleaning} :
          /\ backoffQ[b] = None \/ unschedulableBindings[b] = None
          /\ b \in dirtyBindings => backoffQ[b] = None /\ unschedulableBindings[b] = None

\* b is on its way to a worker.
Waits(b) ==
    \/ notify[b] > 0
    \/ b \in dirtyBindings
    \/ /\ b # cleaning
       /\ moving[b] # None \/ backoffQ[b] # None \/ unschedulableBindings[b] # None

\* An attempt of w will read, or has read, the last change of b.
Looks(w, b) ==
    /\ Holds(w, b)
    /\ \/ worker[w].pc = "popped"
       \/ worker[w].pc = "scheduling" /\ worker[w].saw

\* No change is forgotten: a binding whose last change no successful attempt has
\* read is waiting in some queue, or an attempt that reads that change is on.
NoBindingForgotten ==
    ~shuttingDown =>
       \A b \in Bindings \ settled : Waits(b) \/ \E w \in Workers : Looks(w, b)

\* cond.Signal loses nobody: while goroutines sleep in Pop, there are awake ones
\* for all the bindings in the heap, and a closed queue lets nobody sleep.
NoLostWakeup ==
    (\E w \in Workers : worker[w].pc = "waiting") =>
       /\ ~shuttingDown
       /\ Cardinality(Present(activeBindings))
             <= Cardinality({w \in Workers : worker[w].pc = "ready"})

\* The three queues together behave as the one queue BindingQueue describes.
Abstract ==
    INSTANCE BindingQueue WITH
        todo   <- dirtyBindings \cup
                    {b \in Bindings \ {cleaning} :
                        \/ flushing /\ moving[b] # None
                        \/ backoffQ[b] # None \/ unschedulableBindings[b] # None},
        busy   <- [w \in Workers |-> IF worker[w].pc \in Holding THEN worker[w].b ELSE None],
        closed <- shuttingDown

Implements == Abstract!Spec

\* Every binding somebody has asked for is taken by a worker, whatever else
\* keeps failing: with equal priorities nobody is starved.
EveryChangeIsTaken ==
    \A b \in Bindings : b \notin settled ~> \E w \in Workers : Holds(w, b)

\* A worker gets the binding with the highest priority, by the last push of
\* each binding (a push of one that is already queued is a documented no-op).
PopsHighestPriority ==
    [][\A w \in Workers, a, b \in Bindings :
          Pop(w, b) /\ activeBindings[a] # None => latest[b] >= latest[a]]_vars
=============================================================================
