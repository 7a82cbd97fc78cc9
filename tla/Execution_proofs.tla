--------------------------- MODULE Execution_proofs ---------------------------
(***************************************************************************)
(* Theorems about Execution, for every set of manifests and any number of  *)
(* outside moves.                                                          *)
(***************************************************************************)
EXTENDS Execution, TLAPS

\* A log only grows: the versions it has keep their positions.
LEMMA AppendKeeps ==
    ASSUME NEW S, NEW s \in Seq(S), NEW e \in S
    PROVE  /\ Append(s, e) \in Seq(S)
           /\ Append(s, e) # <<>>
           /\ Len(Append(s, e)) = Len(s) + 1
           /\ Len(s) \in Nat
           /\ \A i \in 1..Len(s) : Append(s, e)[i] = s[i]
           /\ Append(s, e)[Len(s) + 1] = e
OBVIOUS

\* What the types say about the versions actions look at.
LEMMA Versions ==
    ASSUME TypeOK
    PROVE  /\ Len(workLog) \in Nat /\ Len(objLog) \in Nat
           /\ Seen \in 1..Len(objLog)
           /\ objLog[Seen] \in Object \cup {Absent}
           /\ Len(objLog) # 0 /\ Obj \in Object \cup {Absent}
           /\ Work \in WorkState \cup {Absent}
           /\ CachedWork \in WorkState \cup {Absent}
           /\ ctl # Idle => ctl \in Reconciliation /\ Desired \in Object
<1> USE DEF TypeOK
<1>1. Len(workLog) \in Nat /\ Len(objLog) \in Nat
  BY DEF WorkOK, MemberOK
<1>2. Len(objLog) # 0
  BY DEF MemberOK
<1>3. Seen \in 1..Len(objLog)
  BY <1>1, <1>2 DEF MemberOK, Seen
<1>4. \A i \in 1..Len(objLog) : objLog[i] \in Object \cup {Absent}
  BY DEF MemberOK
<1>5. \A i \in 1..Len(workLog) : workLog[i] \in WorkState \cup {Absent}
  BY DEF WorkOK
<1>6. Obj \in Object \cup {Absent}
  BY <1>1, <1>2, <1>4 DEF Obj
<1>7. Work \in WorkState \cup {Absent} /\ CachedWork \in WorkState \cup {Absent}
  BY <1>1, <1>5 DEF WorkOK, Work, CachedWork
<1>8. ctl # Idle => ctl \in Reconciliation /\ Desired \in Object
  <2> SUFFICES ASSUME ctl # Idle PROVE ctl \in Reconciliation /\ Desired \in Object
    OBVIOUS
  <2>1. ctl \in Reconciliation /\ ctl.at \in 1..workCache /\ workLog[ctl.at] # Absent
    BY DEF ReconciliationOK
  <2>2. workLog[ctl.at] \in WorkState
    BY <2>1, <1>1, <1>5 DEF WorkOK
  <2> QED
    BY <2>1, <2>2, <1>6 DEF Desired, Object, WorkState, Healths
<1> QED
  BY <1>1, <1>2, <1>3, <1>4, <1>6, <1>7, <1>8

\* Writing a version of the Work.
LEMMA WorkWrite ==
    ASSUME TypeOK, NEW w \in WorkState \cup {Absent},
           workLog' = Append(workLog, w), UNCHANGED workCache
    PROVE  /\ WorkOK'
           /\ \A i \in 1..workCache : workLog'[i] = workLog[i]
           /\ Work' = w
BY AppendKeeps DEF TypeOK, WorkOK, Work

\* Writing a version of the object.
LEMMA ObjectWrite ==
    ASSUME TypeOK, NEW o \in Object \cup {Absent},
           objLog' = Append(objLog, o), UNCHANGED <<objCache, informer>>
    PROVE  /\ objLog' \in Seq(Object \cup {Absent}) /\ objLog' # <<>>
           /\ Len(objLog') = Len(objLog) + 1 /\ Len(objLog) \in Nat
           /\ objCache' \in 0..Len(objLog')
           /\ \A i \in 1..Len(objLog) : objLog'[i] = objLog[i]
           /\ Obj' = o
BY AppendKeeps DEF TypeOK, MemberOK, Obj

IInv == TypeOK /\ LockedIsAllowed

Steps == {"apply", "create", "update", "record", "report",
          "delete", "deleteCall", "release", "finalizer"}

\* A reconciliation that goes on with its version of the Work is well-formed.
LEMMA GotoOK ==
    ASSUME TypeOK, ctl # Idle, NEW pc \in Steps, NEW v \in 0..Len(objLog'), Len(objLog') \in Nat,
           ctl' = Goto(pc, v), workCache' = workCache,
           \A i \in 1..workCache : workLog'[i] = workLog[i]
    PROVE  ReconciliationOK'
<1>1. ctl \in Reconciliation /\ ctl.at \in 1..workCache /\ workLog[ctl.at] # Absent
  BY DEF TypeOK, ReconciliationOK
<1>2. ctl' \in Reconciliation /\ ctl'.at = ctl.at /\ ctl'.ver = v
  BY <1>1 DEF Goto, Reconciliation, Steps
<1> QED
  BY <1>1, <1>2 DEF ReconciliationOK

\* So is one that reports, while the log keeps the versions it has.
LEMMA ReportOK ==
    ASSUME TypeOK, ctl # Idle, NEW b \in BOOLEAN,
           Len(objLog') \in {Len(objLog), Len(objLog) + 1},
           ctl' = Report(b), workCache' = workCache,
           \A i \in 1..workCache : workLog'[i] = workLog[i]
    PROVE  ReconciliationOK'
<1>1. /\ ctl \in Reconciliation /\ ctl.at \in 1..workCache /\ workLog[ctl.at] # Absent
      /\ ctl.ver \in 0..Len(objLog) /\ Len(objLog) \in Nat
  BY Versions DEF TypeOK, ReconciliationOK
<1>2. ctl' \in Reconciliation /\ ctl'.at = ctl.at /\ ctl'.ver = ctl.ver
  BY <1>1 DEF Report, Reconciliation
<1> QED
  BY <1>1, <1>2 DEF ReconciliationOK

\* A move of the outside is counted.
LEMMA MoveOK ==
    ASSUME QueuesOK, NEW k \in Kinds, Move(k)
    PROVE  left' \in [Kinds -> Nat]
BY DEF QueuesOK, Move

\* A write by somebody else in the member leaves the reconciliation sound:
\* the version it holds keeps its place in the log.
LEMMA MemberWritesInv ==
    ASSUME IInv, NEW k \in Kinds, Move(k), NEW o \in Object \cup {Absent}, MemberWrites(o)
    PROVE  IInv'
<1> TypeOK /\ LockedIsAllowed
  BY DEF IInv
<1>0. /\ UNCHANGED <<workLog, workCache, queued, ctl, objCache, events, informer, record,
                      statusOn, statusQ, stat, ready, overlooked>>
      /\ objLog' = Append(objLog, o)
  BY DEF MemberWrites, workVars, statusVars
<1>1. /\ objLog' \in Seq(Object \cup {Absent}) /\ objLog' # <<>>
      /\ Len(objLog') = Len(objLog) + 1 /\ Len(objLog) \in Nat
      /\ \A i \in 1..Len(objLog) : objLog'[i] = objLog[i]
  BY <1>0, ObjectWrite
<1>2. WorkOK' /\ EventsOK'
  BY <1>0 DEF TypeOK, WorkOK, EventsOK
<1>3. MemberOK'
  BY <1>0, <1>1 DEF TypeOK, MemberOK
<1>4. ReconciliationOK'
  BY <1>0, <1>1 DEF TypeOK, ReconciliationOK
<1>5. QueuesOK'
  BY <1>0 DEF Move, TypeOK, QueuesOK
<1>6. LockedIsAllowed'
  BY <1>0, <1>1 DEF TypeOK, ReconciliationOK, LockedIsAllowed, AllowUpdate
<1> QED
  BY <1>2, <1>3, <1>4, <1>5, <1>6 DEF IInv, TypeOK

\* So does a write of the Work.
LEMMA WorkWriteInv ==
    ASSUME IInv, NEW w \in WorkState \cup {Absent}, workLog' = Append(workLog, w),
           UNCHANGED <<workCache, objLog, objCache, events, informer, record>>, QueuesOK',
           UNCHANGED ctl \/ ctl' = Idle
    PROVE  IInv'
<1> TypeOK /\ LockedIsAllowed
  BY DEF IInv
<1>1. WorkOK' /\ \A i \in 1..workCache : workLog'[i] = workLog[i]
  BY WorkWrite
<1>2. MemberOK' /\ EventsOK'
  BY DEF TypeOK, MemberOK, EventsOK
<1>3. ReconciliationOK'
  BY <1>1 DEF TypeOK, ReconciliationOK
<1>4. LockedIsAllowed'
  BY DEF LockedIsAllowed, AllowUpdate
<1> QED
  BY <1>1, <1>2, <1>3, <1>4 DEF IInv, TypeOK

\* An event that is queued names versions the cache has.
LEMMA AppendEvent ==
    ASSUME EventsOK, NEW a \in Nat, NEW b \in Nat \ {0}, a <= b,
           objCache \in Nat, objCache <= b, objCache' = b,
           events' = Append(events, <<a, b>>)
    PROVE  EventsOK'
<1>1. /\ events' \in Seq(Nat \X Nat) /\ Len(events') = Len(events) + 1 /\ Len(events) \in Nat
      /\ \A i \in 1..Len(events) : events'[i] = events[i]
      /\ events'[Len(events) + 1] = <<a, b>>
  BY AppendKeeps DEF EventsOK
<1>2. ASSUME NEW i \in 1..Len(events')
      PROVE  events'[i][1] \in 0..objCache' /\ events'[i][2] \in 1..objCache'
  <2>1. CASE i \in 1..Len(events)
    BY <1>1, <2>1 DEF EventsOK
  <2>2. CASE i = Len(events) + 1
    BY <1>1, <2>2
  <2> QED
    BY <1>1, <1>2, <2>1, <2>2
<1> QED
  BY <1>1, <1>2 DEF EventsOK

\* And a step that touches neither log nor cache, whatever it does to queues.
LEMMA QueueStepInv ==
    ASSUME IInv, UNCHANGED <<workLog, workCache, objLog, objCache, events, informer, record>>,
           QueuesOK', UNCHANGED ctl \/ ctl' = Idle
    PROVE  IInv'
BY DEF IInv, TypeOK, WorkOK, MemberOK, EventsOK, ReconciliationOK, LockedIsAllowed, AllowUpdate

LEMMA InitInv == ASSUME ExecutionAssumption, Init PROVE IInv
<1> USE ExecutionAssumption
<1>1. WorkOK
  BY DEF Init, WorkOK, WorkState
<1>2. MemberOK /\ EventsOK
  BY DEF Init, MemberOK, EventsOK
<1>3. ReconciliationOK /\ QueuesOK
  BY DEF Init, ReconciliationOK, QueuesOK
<1>4. LockedIsAllowed
  BY DEF Init, LockedIsAllowed
<1> QED
  BY <1>1, <1>2, <1>3, <1>4 DEF IInv, TypeOK

LEMMA NextInv ==
    ASSUME ExecutionAssumption, IInv, [Next]_vars
    PROVE  IInv'
<1> TypeOK /\ LockedIsAllowed
  BY DEF IInv
<1> USE ExecutionAssumption, Versions
<1> Idle.pc = "idle"
  BY DEF Idle
<1>1. CASE Reconcile
  <2>0. /\ UNCHANGED <<workCache, objLog, objCache, events, record>>
        /\ UNCHANGED informer \/ RegisterInformer
        /\ overlooked' \subseteq overlooked
    BY <1>1 DEF Reconcile, LooksAgain, memberVars
  <2>1. WorkOK' /\ \A i \in 1..workCache : workLog'[i] = workLog[i]
    <3>1. CASE UNCHANGED workLog
      BY <2>0, <3>1 DEF TypeOK, WorkOK
    <3>2. CASE ~UNCHANGED workLog
      <4> DEFINE w == [CachedWork EXCEPT !.dispatching = TRUE]
      <4>1. CachedWork # Absent /\ workLog' = Append(workLog, w)
        BY <1>1, <3>2 DEF Reconcile, UpdateWorkDispatchingConditionIfNeeded, UpdateStatus
      <4>2. w \in WorkState
        BY <4>1 DEF WorkState
      <4> QED
        BY <2>0, <4>1, <4>2, WorkWrite
    <3> QED
      BY <3>1, <3>2
  <2>2. MemberOK'
    BY <2>0 DEF RegisterInformer, TypeOK, MemberOK
  <2>3. EventsOK'
    BY <2>0 DEF TypeOK, EventsOK
  <2>4. ReconciliationOK'
    <3>1. CASE UNCHANGED ctl
      BY <2>0, <2>1, <3>1 DEF TypeOK, ReconciliationOK
    <3>2. CASE CachedWork # Absent /\ \E pc \in {"apply", "delete"} : Start(pc)
      <4> PICK pc \in {"apply", "delete"} : Start(pc)
        BY <3>2
      <4>1. ctl' \in Reconciliation /\ ctl'.at = workCache /\ ctl'.ver = 0
        BY DEF Start, Reconciliation, TypeOK, WorkOK
      <4>2. workCache \in 1..workCache /\ workLog'[workCache] # Absent
        BY <2>1, <3>2 DEF TypeOK, WorkOK, CachedWork
      <4> QED
        BY <2>0, <4>1, <4>2 DEF ReconciliationOK
    <3> QED
      BY <1>1, <3>1, <3>2 DEF Reconcile
  <2>5. QueuesOK'
    BY <1>1, <2>0 DEF Reconcile, Start, TypeOK, QueuesOK, statusVars
  <2>6. LockedIsAllowed'
    <3>1. ctl' = Idle \/ Start("apply") \/ Start("delete")
      BY <1>1 DEF Reconcile
    <3> QED
      BY <3>1 DEF Start, LockedIsAllowed, Idle
  <2> QED
    BY <2>1, <2>2, <2>3, <2>4, <2>5, <2>6 DEF IInv, TypeOK
<1>2. CASE TryCreateOrUpdateWorkload
  <2> ctl # Idle
    BY <1>2 DEF TryCreateOrUpdateWorkload
  <2>0. UNCHANGED <<workLog, workCache, objLog, objCache, events, informer, record>>
    BY <1>2 DEF TryCreateOrUpdateWorkload, workVars, memberVars
  <2>1. WorkOK' /\ MemberOK' /\ EventsOK'
    BY <2>0 DEF TypeOK, WorkOK, MemberOK, EventsOK
  <2>2. \/ ctl' = Goto("create", ctl.ver) \/ ctl' = Report(FALSE)
        \/ ctl' = Goto("record", Seen) \/ ctl' = Goto("update", Seen)
    BY <1>2 DEF TryCreateOrUpdateWorkload
  <2>3. ctl.ver \in 0..Len(objLog) /\ Len(objLog') \in {Len(objLog), Len(objLog) + 1}
    BY <2>0 DEF TypeOK, ReconciliationOK
  <2>4. ReconciliationOK'
    <3>1. CASE ctl' = Goto("create", ctl.ver)
      BY <2>0, <2>3, <3>1, GotoOK DEF Steps
    <3>2. CASE ctl' = Report(FALSE)
      BY <2>0, <2>3, <3>2, ReportOK
    <3>3. CASE ctl' = Goto("record", Seen)
      BY <2>0, <3>3, GotoOK DEF Steps
    <3>4. CASE ctl' = Goto("update", Seen)
      BY <2>0, <3>4, GotoOK DEF Steps
    <3> QED
      BY <2>2, <3>1, <3>2, <3>3, <3>4
  <2>5. QueuesOK'
    BY <1>2 DEF TryCreateOrUpdateWorkload, TypeOK, QueuesOK, statusVars
  <2>6. LockedIsAllowed'
    BY <1>2 DEF TryCreateOrUpdateWorkload, Goto, Report, LockedIsAllowed, AllowUpdate, memberVars
  <2> QED
    BY <2>1, <2>4, <2>5, <2>6 DEF IInv, TypeOK
<1>3. CASE Create
  <2> ctl # Idle
    BY <1>3 DEF Create
  <2>0. UNCHANGED <<workLog, workCache, objCache, events, informer, record>>
    BY <1>3 DEF Create, workVars
  <2>1. WorkOK' /\ EventsOK'
    BY <2>0 DEF TypeOK, WorkOK, EventsOK
  <2>2. \/ UNCHANGED objLog /\ \E b \in BOOLEAN : ctl' = Report(b)
        \/ objLog' = Append(objLog, Desired) /\ ctl' = Goto("record", Len(objLog) + 1)
    BY <1>3 DEF Create, Written
  <2>3. MemberOK' /\ ReconciliationOK'
    <3>1. CASE UNCHANGED objLog /\ \E b \in BOOLEAN : ctl' = Report(b)
      <4>1. MemberOK' /\ Len(objLog') \in {Len(objLog), Len(objLog) + 1}
        BY <2>0, <3>1 DEF TypeOK, MemberOK
      <4> QED
        BY <2>0, <3>1, <4>1, ReportOK
    <3>2. CASE objLog' = Append(objLog, Desired) /\ ctl' = Goto("record", Len(objLog) + 1)
      <4>1. MemberOK' /\ Len(objLog') = Len(objLog) + 1
        BY <2>0, <3>2, ObjectWrite DEF TypeOK, MemberOK
      <4> QED
        BY <2>0, <3>2, <4>1, GotoOK DEF Steps
    <3> QED
      BY <2>2, <3>1, <3>2
  <2>4. QueuesOK'
    BY <1>3 DEF Create, TypeOK, QueuesOK, statusVars
  <2>5. LockedIsAllowed'
    BY <2>2 DEF Goto, Report, LockedIsAllowed
  <2> QED
    BY <2>1, <2>3, <2>4, <2>5 DEF IInv, TypeOK
<1>4. CASE Update
  <2> ctl # Idle /\ ctl.ver \in 0..Len(objLog)
    BY <1>4 DEF Update, TypeOK, ReconciliationOK
  <2>0. UNCHANGED <<workLog, workCache, objCache, events, informer, record>>
    BY <1>4 DEF Update, workVars
  <2>1. WorkOK' /\ EventsOK'
    BY <2>0 DEF TypeOK, WorkOK, EventsOK
  <2>2. \/ UNCHANGED objLog /\ (ctl' = Report(FALSE) \/ ctl' = Goto("apply", ctl.ver))
        \/ objLog' = Append(objLog, Desired) /\ ctl' = Goto("record", Len(objLog) + 1)
    BY <1>4 DEF Update, Written
  <2>3. MemberOK' /\ ReconciliationOK'
    <3>1. CASE UNCHANGED objLog /\ ctl' = Report(FALSE)
      <4>1. MemberOK' /\ Len(objLog') \in {Len(objLog), Len(objLog) + 1}
        BY <2>0, <3>1 DEF TypeOK, MemberOK
      <4> QED
        BY <2>0, <3>1, <4>1, ReportOK
    <3>2. CASE UNCHANGED objLog /\ ctl' = Goto("apply", ctl.ver)
      BY <2>0, <3>2, GotoOK DEF TypeOK, MemberOK, Steps
    <3>3. CASE objLog' = Append(objLog, Desired) /\ ctl' = Goto("record", Len(objLog) + 1)
      <4>1. MemberOK' /\ Len(objLog') = Len(objLog) + 1
        BY <2>0, <3>3, ObjectWrite DEF TypeOK, MemberOK
      <4> QED
        BY <2>0, <3>3, <4>1, GotoOK DEF Steps
    <3> QED
      BY <2>2, <3>1, <3>2, <3>3
  <2>4. QueuesOK'
    BY <1>4 DEF Update, TypeOK, QueuesOK, statusVars
  <2>5. LockedIsAllowed'
    BY <2>2 DEF Goto, Report, LockedIsAllowed
  <2> QED
    BY <2>1, <2>3, <2>4, <2>5 DEF IInv, TypeOK
<1>5. CASE RecordVersion
  <2> ctl # Idle /\ ctl.ver \in 0..Len(objLog)
    BY <1>5 DEF RecordVersion, TypeOK, ReconciliationOK
  <2>0. /\ UNCHANGED <<workLog, workCache, objLog, objCache, events, informer>>
        /\ record' = ctl.ver /\ ctl' = Report(TRUE)
    BY <1>5 DEF RecordVersion, workVars, memberVars
  <2>1. WorkOK' /\ EventsOK' /\ MemberOK'
    BY <2>0 DEF TypeOK, WorkOK, EventsOK, MemberOK
  <2>2. ReconciliationOK'
    <3>1. Len(objLog') \in {Len(objLog), Len(objLog) + 1}
      BY <2>0
    <3> QED
      BY <2>0, <3>1, ReportOK
  <2>3. QueuesOK'
    BY <1>5 DEF RecordVersion, LooksAgain, TypeOK, QueuesOK, statusVars
  <2>4. LockedIsAllowed'
    BY <2>0 DEF Report, LockedIsAllowed
  <2> QED
    BY <2>1, <2>2, <2>3, <2>4 DEF IInv, TypeOK
<1>6. CASE UpdateAppliedCondition
  <2>0. /\ UNCHANGED <<workCache, objLog, objCache, events, informer, record>>
        /\ ctl' = Idle
        /\ \/ UNCHANGED workLog
           \/ CachedWork # Absent /\ workLog' = Append(workLog, WithApplied)
    BY <1>6 DEF UpdateAppliedCondition, UpdateStatus, Fails, memberVars
  <2>1. QueuesOK'
    BY <1>6 DEF UpdateAppliedCondition, Fails, TypeOK, QueuesOK, statusVars
  <2>2. CachedWork # Absent => WithApplied \in WorkState
    BY DEF WithApplied, WorkState
  <2> QED
    BY <2>0, <2>1, <2>2, WorkWriteInv, QueueStepInv
<1>7. CASE TryDeleteWorkload
  <2> ctl # Idle
    BY <1>7 DEF TryDeleteWorkload
  <2>0. /\ UNCHANGED <<workLog, workCache, objLog, objCache, events, informer, record>>
        /\ ctl' = Goto("deleteCall", 0) \/ ctl' = Goto("finalizer", 0)
    BY <1>7 DEF TryDeleteWorkload, workVars, memberVars
  <2>1. WorkOK' /\ EventsOK' /\ MemberOK'
    BY <2>0 DEF TypeOK, WorkOK, EventsOK, MemberOK
  <2>2. ReconciliationOK'
    <3>1. CASE ctl' = Goto("deleteCall", 0)
      BY <2>0, <3>1, GotoOK DEF Steps
    <3>2. CASE ctl' = Goto("finalizer", 0)
      BY <2>0, <3>2, GotoOK DEF Steps
    <3> QED
      BY <2>0, <3>1, <3>2
  <2>3. QueuesOK'
    BY <1>7 DEF TryDeleteWorkload, TypeOK, QueuesOK, statusVars
  <2>4. LockedIsAllowed'
    BY <2>0 DEF Goto, LockedIsAllowed
  <2> QED
    BY <2>1, <2>2, <2>3, <2>4 DEF IInv, TypeOK
<1>8. CASE Delete
  <2> ctl # Idle /\ ctl.ver \in 0..Len(objLog)
    BY <1>8 DEF Delete, TypeOK, ReconciliationOK
  <2>0. /\ UNCHANGED <<workLog, workCache, objCache, events, informer>>
        /\ record' = 0 /\ ctl' = Goto("finalizer", ctl.ver)
        /\ UNCHANGED objLog \/ objLog' = Append(objLog, Absent)
    BY <1>8 DEF Delete, workVars
  <2>1. WorkOK' /\ EventsOK'
    BY <2>0 DEF TypeOK, WorkOK, EventsOK
  <2>2. MemberOK' /\ Len(objLog') \in {Len(objLog), Len(objLog) + 1}
    BY <2>0, ObjectWrite DEF TypeOK, MemberOK
  <2>3. ReconciliationOK'
    BY <2>0, <2>2, GotoOK DEF Steps
  <2>4. QueuesOK'
    BY <1>8 DEF Delete, TypeOK, QueuesOK, statusVars
  <2>5. LockedIsAllowed'
    BY <2>0 DEF Goto, LockedIsAllowed
  <2> QED
    BY <2>1, <2>2, <2>3, <2>4, <2>5 DEF IInv, TypeOK
<1>9. CASE CleanupPolicyClaimMetadata
  <2> ctl # Idle
    BY <1>9 DEF CleanupPolicyClaimMetadata
  <2>0. UNCHANGED <<workLog, workCache, objLog, objCache, events, informer>>
    BY <1>9 DEF CleanupPolicyClaimMetadata, workVars, memberVars
  <2>1. ctl' = Idle \/ ctl' = Goto("finalizer", Seen) \/ ctl' = Goto("release", Seen)
    BY <1>9 DEF CleanupPolicyClaimMetadata, Fails
  <2>2. record' \in 0..Len(objLog)
    BY <1>9 DEF CleanupPolicyClaimMetadata, TypeOK, MemberOK
  <2>3. WorkOK' /\ EventsOK' /\ MemberOK'
    BY <2>0, <2>2 DEF TypeOK, WorkOK, EventsOK, MemberOK
  <2>4. ReconciliationOK'
    <3>1. CASE ctl' = Idle
      BY <3>1 DEF ReconciliationOK, Idle
    <3>2. CASE ctl' = Goto("finalizer", Seen)
      BY <2>0, <3>2, GotoOK DEF Steps
    <3>3. CASE ctl' = Goto("release", Seen)
      BY <2>0, <3>3, GotoOK DEF Steps
    <3> QED
      BY <2>1, <3>1, <3>2, <3>3
  <2>5. QueuesOK'
    BY <1>9 DEF CleanupPolicyClaimMetadata, Fails, TypeOK, QueuesOK, statusVars
  <2>6. LockedIsAllowed'
    BY <1>9 DEF CleanupPolicyClaimMetadata, Fails, Goto, Idle, LockedIsAllowed, AllowUpdate, memberVars
  <2> QED
    BY <2>3, <2>4, <2>5, <2>6 DEF IInv, TypeOK
<1>10. CASE Release
  <2> ctl # Idle /\ ctl.ver \in 0..Len(objLog)
    BY <1>10 DEF Release, TypeOK, ReconciliationOK
  <2>1. QueuesOK'
    BY <1>10 DEF Release, Fails, TypeOK, QueuesOK, statusVars
  <2>2. CASE ctl' = Idle
    <3>1. UNCHANGED <<workLog, workCache, objLog, objCache, events, informer, record>>
      BY <1>10, <2>2 DEF Release, Goto, Idle, workVars
    <3> QED
      BY <2>1, <2>2, <3>1, QueueStepInv
  <2>3. CASE ctl' = Goto("finalizer", ctl.ver)
    <3>1. /\ UNCHANGED <<workLog, workCache, objCache, events, informer>>
          /\ objLog' = Append(objLog, [Desired EXCEPT !.managed = FALSE])
          /\ record' = Len(objLog) + 1
      BY <1>10, <2>3 DEF Release, Fails, Goto, Idle, workVars
    <3>2. [Desired EXCEPT !.managed = FALSE] \in Object
      BY DEF Object
    <3>3. MemberOK' /\ Len(objLog') = Len(objLog) + 1
      BY <3>1, <3>2, ObjectWrite DEF TypeOK, MemberOK
    <3>4. WorkOK' /\ EventsOK'
      BY <3>1 DEF TypeOK, WorkOK, EventsOK
    <3>5. ReconciliationOK'
      BY <2>3, <3>1, <3>3, GotoOK DEF Steps
    <3>6. LockedIsAllowed'
      BY <2>3 DEF Goto, LockedIsAllowed
    <3> QED
      BY <2>1, <3>3, <3>4, <3>5, <3>6 DEF IInv, TypeOK
  <2> QED
    BY <1>10, <2>2, <2>3 DEF Release, Fails
<1>11. CASE RemoveFinalizer
  <2>0. /\ UNCHANGED <<workCache, objLog, objCache, events, informer, record>>
        /\ ctl' = Idle
        /\ UNCHANGED workLog \/ workLog' = Append(workLog, Absent)
    BY <1>11 DEF RemoveFinalizer, Fails, memberVars
  <2>1. QueuesOK'
    BY <1>11 DEF RemoveFinalizer, Fails, TypeOK, QueuesOK, statusVars
  <2> QED
    BY <2>0, <2>1, WorkWriteInv, QueueStepInv
<1>12. CASE CallFails
  <2>0. UNCHANGED <<workLog, workCache, objCache, events, informer, record>>
    BY <1>12 DEF CallFails, workVars
  <2>1. QueuesOK'
    <3>1. left' \in [Kinds -> Nat]
      BY <1>12, MoveOK DEF CallFails, TypeOK, Kinds
    <3> QED
      BY <1>12, <3>1 DEF CallFails, Fails, TypeOK, QueuesOK, statusVars
  <2>2. ctl # Idle /\ (ctl' = Idle \/ ctl' = Report(FALSE))
    BY <1>12 DEF CallFails, Fails
  <2>3. UNCHANGED objLog \/ \E o \in Object \cup {Absent} : objLog' = Append(objLog, o)
    <3>1. [Desired EXCEPT !.managed = FALSE] \in Object
      BY <2>2 DEF Object
    <3> QED
      BY <1>12, <2>2, <3>1 DEF CallFails
  <2>4. MemberOK' /\ Len(objLog') \in {Len(objLog), Len(objLog) + 1}
    BY <2>0, <2>3, ObjectWrite DEF TypeOK, MemberOK
  <2>5. WorkOK' /\ EventsOK'
    BY <2>0 DEF TypeOK, WorkOK, EventsOK
  <2>6. ReconciliationOK'
    <3>1. CASE ctl' = Idle
      BY <3>1 DEF ReconciliationOK, Idle
    <3>2. CASE ctl' = Report(FALSE)
      BY <2>0, <2>2, <2>4, <3>2, ReportOK
    <3> QED
      BY <2>2, <3>1, <3>2
  <2>7. LockedIsAllowed'
    BY <2>2 DEF Report, Idle, LockedIsAllowed
  <2> QED
    BY <2>1, <2>4, <2>5, <2>6, <2>7 DEF IInv, TypeOK
<1>13. CASE WatchWork
  <2>0. /\ UNCHANGED <<workLog, ctl, objLog, objCache, events, informer, record>>
        /\ workCache < Len(workLog) /\ workCache' = workCache + 1
    BY <1>13 DEF WatchWork, memberVars
  <2>1. WorkOK' /\ MemberOK' /\ EventsOK'
    BY <2>0 DEF TypeOK, WorkOK, MemberOK, EventsOK
  <2>2. ReconciliationOK'
    BY <2>0 DEF TypeOK, WorkOK, ReconciliationOK
  <2>3. QueuesOK'
    BY <1>13 DEF WatchWork, TypeOK, QueuesOK, statusVars
  <2>4. LockedIsAllowed'
    BY <2>0 DEF LockedIsAllowed, AllowUpdate
  <2> QED
    BY <2>1, <2>2, <2>3, <2>4 DEF IInv, TypeOK
<1>14. CASE ListObject
  <2>0. /\ UNCHANGED <<workLog, workCache, ctl, objLog, informer, record>>
        /\ objCache = 0 /\ objCache' = Len(objLog)
        /\ events' = events \/ events' = Append(events, <<0, Len(objLog)>>)
    BY <1>14 DEF ListObject, workVars
  <2>1. WorkOK' /\ MemberOK' /\ ReconciliationOK'
    BY <2>0 DEF TypeOK, WorkOK, MemberOK, ReconciliationOK
  <2>2. EventsOK'
    BY <2>0, AppendEvent DEF TypeOK, EventsOK
  <2>3. QueuesOK'
    BY <1>14 DEF ListObject, Annotated, Overlooks, TypeOK, QueuesOK
  <2>4. LockedIsAllowed'
    BY <2>0 DEF LockedIsAllowed, AllowUpdate
  <2> QED
    BY <2>1, <2>2, <2>3, <2>4 DEF IInv, TypeOK
<1>15. CASE WatchObject
  <2>0. /\ UNCHANGED <<workLog, workCache, ctl, objLog, informer, record>>
        /\ objCache # 0 /\ objCache < Len(objLog) /\ objCache' = objCache + 1
        /\ events' = Append(events, <<objCache, objCache + 1>>)
    BY <1>15 DEF WatchObject, workVars
  <2>1. WorkOK' /\ MemberOK' /\ ReconciliationOK'
    BY <2>0 DEF TypeOK, WorkOK, MemberOK, ReconciliationOK
  <2>2. EventsOK'
    <3>1. objCache \in Nat
      BY DEF TypeOK, MemberOK
    <3> QED
      BY <2>0, <3>1, AppendEvent DEF TypeOK
  <2>3. QueuesOK'
    BY <1>15 DEF WatchObject, Annotated, TypeOK, QueuesOK
  <2>4. LockedIsAllowed'
    BY <2>0 DEF LockedIsAllowed, AllowUpdate
  <2> QED
    BY <2>1, <2>2, <2>3, <2>4 DEF IInv, TypeOK
<1>16. CASE HandleEvent
  <2>0. /\ UNCHANGED <<workLog, workCache, ctl, objLog, objCache, informer, record>>
        /\ events # <<>> /\ events' = Tail(events)
    BY <1>16 DEF HandleEvent, workVars
  <2>1. WorkOK' /\ MemberOK' /\ ReconciliationOK'
    BY <2>0 DEF TypeOK, WorkOK, MemberOK, ReconciliationOK
  <2>2. EventsOK'
    <3>1. /\ Tail(events) \in Seq(Nat \X Nat)
          /\ \A i \in 1..Len(Tail(events)) : i + 1 \in 1..Len(events) /\ Tail(events)[i] = events[i + 1]
      BY <2>0 DEF TypeOK, EventsOK
    <3> QED
      BY <2>0, <3>1 DEF TypeOK, EventsOK
  <2>3. QueuesOK'
    BY <1>16 DEF HandleEvent, LooksAgain, Overlooks, TypeOK, QueuesOK, statusVars
  <2>4. LockedIsAllowed'
    BY <2>0 DEF LockedIsAllowed, AllowUpdate
  <2> QED
    BY <2>1, <2>2, <2>3, <2>4 DEF IInv, TypeOK
<1>17. CASE BuildResourceInformers
  <2>0. /\ UNCHANGED <<workLog, workCache, ctl, objLog, objCache, events, record>>
        /\ RegisterInformer
    BY <1>17 DEF BuildResourceInformers, workVars, memberVars
  <2>1. WorkOK' /\ EventsOK' /\ ReconciliationOK'
    BY <2>0 DEF TypeOK, WorkOK, EventsOK, ReconciliationOK
  <2>2. MemberOK'
    BY <2>0 DEF TypeOK, MemberOK, RegisterInformer
  <2>3. QueuesOK'
    BY <1>17 DEF BuildResourceInformers, Annotated, TypeOK, QueuesOK
  <2>4. LockedIsAllowed'
    BY <2>0 DEF LockedIsAllowed, AllowUpdate
  <2> QED
    BY <2>1, <2>2, <2>3, <2>4 DEF IInv, TypeOK
<1>18. CASE SyncWorkStatus
  <2>1. UNCHANGED <<workLog, workCache, ctl, objLog, objCache, events, informer, record>>
    BY <1>18 DEF SyncWorkStatus, workVars, memberVars
  <2>2. QueuesOK'
    BY <1>18 DEF SyncWorkStatus, Annotated, Object, LooksAgain, TypeOK, QueuesOK
  <2> QED
    BY <2>1, <2>2, QueueStepInv
<1>19. CASE ReflectStatus
  <2>0. /\ UNCHANGED <<workCache, ctl, objLog, objCache, events, informer, record>>
        /\ stat # "idle"
        /\ \/ UNCHANGED workLog
           \/ CachedWork # Absent /\ workLog' = Append(workLog, WithHealth)
    BY <1>19 DEF ReflectStatus, UpdateStatus, memberVars
  <2>1. QueuesOK'
    BY <1>19 DEF ReflectStatus, Overlooks, TypeOK, QueuesOK
  <2>2. CachedWork # Absent => WithHealth \in WorkState
    BY <2>0 DEF WithHealth, WorkState, TypeOK, QueuesOK
  <2> QED
    BY <2>0, <2>1, <2>2, WorkWriteInv, QueueStepInv
<1>20. ASSUME NEW m \in Manifests, UpdateWork(m) PROVE IInv'
  <2>1. /\ UNCHANGED <<workCache, ctl, objLog, objCache, events, informer, record>>
        /\ workLog' = Append(workLog, [Work EXCEPT !.manifest = m])
    BY <1>20 DEF UpdateWork, memberVars
  <2>2. QueuesOK'
    <3>1. left' \in [Kinds -> Nat]
      BY <1>20, MoveOK DEF UpdateWork, TypeOK, Kinds
    <3> QED
      BY <1>20, <3>1 DEF UpdateWork, TypeOK, QueuesOK, statusVars
  <2>3. [Work EXCEPT !.manifest = m] \in WorkState
    BY <1>20 DEF UpdateWork, WorkState
  <2> QED
    BY <2>1, <2>2, <2>3, WorkWriteInv
<1>21. CASE RemoveWork
  <2>1. /\ UNCHANGED <<workCache, ctl, objLog, objCache, events, informer, record>>
        /\ workLog' = Append(workLog, [Work EXCEPT !.deleting = TRUE])
    BY <1>21 DEF RemoveWork, memberVars
  <2>2. QueuesOK'
    <3>1. left' \in [Kinds -> Nat]
      BY <1>21, MoveOK DEF RemoveWork, TypeOK, Kinds
    <3> QED
      BY <1>21, <3>1 DEF RemoveWork, TypeOK, QueuesOK, statusVars
  <2>3. [Work EXCEPT !.deleting = TRUE] \in WorkState
    BY <1>21 DEF RemoveWork, WorkState
  <2> QED
    BY <2>1, <2>2, <2>3, WorkWriteInv
<1>22. ASSUME NEW m \in Manifests, EditObject(m) PROVE IInv'
  <2>1. [Obj EXCEPT !.manifest = m] \in Object
    BY <1>22 DEF EditObject, Object
  <2> QED
    BY <1>22, <2>1, MemberWritesInv DEF EditObject, Kinds
<1>23. ASSUME NEW m \in Manifests, CreateForeignObject(m) PROVE IInv'
  <2>1. [manifest |-> m, managed |-> FALSE, health |-> "Unhealthy"] \in Object
    BY DEF Object, Healths
  <2> QED
    BY <1>23, <2>1, MemberWritesInv DEF CreateForeignObject, Kinds
<1>24. CASE DeleteObject
  BY <1>24, MemberWritesInv DEF DeleteObject, Kinds
<1>25. ASSUME NEW h \in Healths, ChangeHealth(h) PROVE IInv'
  <2>1. [Obj EXCEPT !.health = h] \in Object
    BY <1>25 DEF ChangeHealth, Object
  <2> QED
    BY <1>25, <2>1, MemberWritesInv DEF ChangeHealth, Kinds
<1>26. CASE ClusterUnready \/ ClusterReady
  <2>1. UNCHANGED <<workLog, workCache, ctl, objLog, objCache, events, informer, record>>
    BY <1>26 DEF ClusterUnready, ClusterReady, workVars, memberVars
  <2>2. QueuesOK'
    <3>1. left' \in [Kinds -> Nat]
      BY <1>26, MoveOK DEF ClusterUnready, ClusterReady, TypeOK, QueuesOK, Kinds
    <3> QED
      BY <1>26, <3>1 DEF ClusterUnready, ClusterReady, TypeOK, QueuesOK, statusVars
  <2> QED
    BY <2>1, <2>2, QueueStepInv
<1>27. CASE Restart
  <2>1. WorkOK'
    BY <1>27 DEF Restart, TypeOK, WorkOK
  <2>2. MemberOK'
    BY <1>27 DEF Restart, TypeOK, MemberOK
  <2>3. EventsOK' /\ ReconciliationOK'
    BY <1>27 DEF Restart, EventsOK, ReconciliationOK, Idle
  <2>4. QueuesOK'
    <3>1. left' \in [Kinds -> Nat]
      BY <1>27, MoveOK DEF Restart, TypeOK, Kinds
    <3> QED
      BY <1>27, <3>1 DEF Restart, TypeOK, QueuesOK
  <2>5. LockedIsAllowed'
    BY <1>27 DEF Restart, Idle, LockedIsAllowed
  <2> QED
    BY <2>1, <2>2, <2>3, <2>4, <2>5 DEF IInv, TypeOK
<1>28. CASE UNCHANGED vars
  <2>1. UNCHANGED <<workLog, workCache, ctl, objLog, objCache, events, informer, record>>
    BY <1>28 DEF vars, workVars, memberVars
  <2>2. QueuesOK'
    BY <1>28 DEF vars, statusVars, TypeOK, QueuesOK
  <2> QED
    BY <2>1, <2>2, QueueStepInv
<1>29. CASE ExecutionController
  BY <1>29, <1>1, <1>2, <1>3, <1>4, <1>5, <1>6, <1>7, <1>8, <1>9, <1>10, <1>11
     DEF ExecutionController
<1>30. CASE Informers \/ StatusController
  BY <1>30, <1>13, <1>14, <1>15, <1>16, <1>17, <1>18, <1>19 DEF Informers, StatusController
<1>31. CASE Environment
  BY <1>31, <1>12, <1>20, <1>21, <1>22, <1>23, <1>24, <1>25, <1>26, <1>27 DEF Environment
<1> QED
  BY <1>28, <1>29, <1>30, <1>31 DEF Next

\* Every version that anybody holds, a cache, a handler's event, the version
\* record or a reconciliation, is one its log has, and the informer counts as
\* synced only after a list (RegisterInformerHandlerAndCheckSynced), in every
\* interleaving of the two controllers, the informers and the outside.
THEOREM ExecutionTypeCorrect == Spec => []TypeOK
<1>1. Init => IInv
  BY InitInv, ExecutionAssumption
<1>2. IInv /\ [Next]_vars => IInv'
  BY NextInv, ExecutionAssumption
<1>3. IInv => TypeOK
  BY DEF IInv
<1> QED
  BY <1>1, <1>2, <1>3, PTL DEF Spec

\* The step that writes over an unmanaged object is refused by the lock.
LEMMA UnmanagedStep ==
    ASSUME ExecutionAssumption, IInv, [Next]_vars,
           Obj # Absent, ~Obj.managed, ~Overwrite, Obj' # Absent
    PROVE  Obj'.manifest = Obj.manifest /\ ~Obj'.managed
<1> TypeOK /\ LockedIsAllowed
  BY DEF IInv
<1> USE ExecutionAssumption, Versions
<1>1. ~AllowUpdate(Obj)
  BY DEF AllowUpdate
<1>2. ctl # Idle /\ ctl.pc \in {"update", "release"} => ctl.ver # Len(objLog)
  BY <1>1 DEF LockedIsAllowed, Obj
<1>3. \A o : objLog' = Append(objLog, o) => Obj' = o
  <2> SUFFICES ASSUME NEW o, objLog' = Append(objLog, o) PROVE Obj' = o
    OBVIOUS
  <2> QED
    BY DEF TypeOK, MemberOK, Obj
<1>4. CASE UNCHANGED objLog
  BY <1>4 DEF Obj
<1>5. CASE Create \/ Update \/ Release \/ CallFails
  <2>0. ctl.pc \in {"update", "release"} => ctl.ver # Len(objLog)
    BY <1>2 DEF Idle
  <2>1. CASE Create
    BY <1>4, <2>1 DEF Create
  <2>2. CASE Update
    BY <1>4, <2>0, <2>2 DEF Update
  <2>3. CASE Release
    BY <1>4, <2>0, <2>3 DEF Release
  <2>4. CASE CallFails
    <3>1. UNCHANGED objLog \/ objLog' = Append(objLog, Absent)
      BY <2>0, <2>4 DEF CallFails
    <3> QED
      BY <1>3, <1>4, <3>1
  <2> QED
    BY <1>5, <2>1, <2>2, <2>3, <2>4
<1>6. CASE Delete \/ DeleteObject
  BY <1>3, <1>4, <1>6 DEF Delete, DeleteObject, MemberWrites
<1>7. ASSUME NEW m \in Manifests, EditObject(m) \/ CreateForeignObject(m) PROVE FALSE
  BY <1>7 DEF EditObject, CreateForeignObject
<1>8. ASSUME NEW h \in Healths, ChangeHealth(h)
      PROVE  Obj'.manifest = Obj.manifest /\ ~Obj'.managed
  <2>1. Obj' = [Obj EXCEPT !.health = h]
    BY <1>3, <1>8 DEF ChangeHealth, MemberWrites
  <2> QED
    BY <2>1 DEF Object
<1>9. CASE ExecutionController
  <2>1. CASE Create \/ Update \/ Release \/ Delete
    BY <1>5, <1>6, <2>1
  <2>2. CASE ~(Create \/ Update \/ Release \/ Delete)
    <3>1. UNCHANGED objLog
      BY <1>9, <2>2 DEF ExecutionController, Reconcile, TryCreateOrUpdateWorkload,
         RecordVersion, UpdateAppliedCondition, TryDeleteWorkload,
         CleanupPolicyClaimMetadata, RemoveFinalizer, memberVars
    <3> QED
      BY <1>4, <3>1
  <2> QED
    BY <2>1, <2>2
<1>10. CASE Informers \/ StatusController
  <2>1. UNCHANGED objLog
    BY <1>10 DEF Informers, WatchWork, ListObject, WatchObject, HandleEvent,
       StatusController, BuildResourceInformers, SyncWorkStatus, ReflectStatus, memberVars
  <2> QED
    BY <1>4, <2>1
<1>11. CASE RemoveWork \/ ClusterUnready \/ ClusterReady \/ Restart
  BY <1>4, <1>11 DEF RemoveWork, ClusterUnready, ClusterReady, Restart, memberVars
<1>12. ASSUME NEW m \in Manifests, UpdateWork(m)
       PROVE  Obj'.manifest = Obj.manifest /\ ~Obj'.managed
  BY <1>4, <1>12 DEF UpdateWork, memberVars
<1>13. CASE Environment
  BY <1>13, <1>5, <1>6, <1>7, <1>8, <1>11, <1>12 DEF Environment
<1>14. CASE UNCHANGED vars
  BY <1>4, <1>14 DEF vars, memberVars
<1> QED
  BY <1>9, <1>10, <1>13, <1>14 DEF Next

\* An object in the member that does not carry Karmada's label keeps its
\* content and stays unmanaged unless the Work asks for Overwrite, however
\* stale the copy was that allowUpdate was asked about: ObjectWatcher.Update
\* sends the resourceVersion of exactly that copy.
THEOREM UnmanagedIsSafe == Spec => UnmanagedNotOverwritten
<1>1. Init => IInv
  BY InitInv, ExecutionAssumption
<1>2. IInv /\ [Next]_vars => IInv'
  BY NextInv, ExecutionAssumption
<1>3. IInv /\ [Next]_vars =>
        [Obj # Absent /\ ~Obj.managed /\ ~Overwrite /\ Obj' # Absent =>
            Obj'.manifest = Obj.manifest /\ ~Obj'.managed]_vars
  BY UnmanagedStep, ExecutionAssumption
<1> QED
  BY <1>1, <1>2, <1>3, PTL DEF Spec, UnmanagedNotOverwritten


-----------------------------------------------------------------------------
(***************************************************************************)
(* Who writes what: the steps seen from each of the two logs, and from the *)
(* reconciliation under way.                                               *)
(***************************************************************************)
Ending(w) == w = Absent \/ w.deleting

\* The steps of a reconciliation of a Work that is being deleted.
Cleaning == {"delete", "deleteCall", "release", "finalizer"}

\* The next version of the Work: nothing undoes a deletion, and only the removal
\* of the finalizer makes it go.
NextWork(w) ==
    /\ Work # Absent
    /\ w = Absent => ctl # Idle /\ ctl.pc = "finalizer" /\ ctl.at = Len(workLog) /\ ctl' = Idle
    /\ w # Absent => /\ Work.deleting => w.deleting
                     /\ w.health = Work.health \/ (stat # "idle" /\ w.health = stat /\ stat' = "idle")

LEMMA WorkStep ==
    ASSUME ExecutionAssumption, IInv, [Next]_vars
    PROVE  /\ workCache <= workCache'
           /\ \/ UNCHANGED workLog
              \/ UNCHANGED workCache /\ \E w \in WorkState \cup {Absent} :
                    workLog' = Append(workLog, w) /\ NextWork(w)
<1> TypeOK /\ LockedIsAllowed
  BY DEF IInv
<1> USE ExecutionAssumption, Versions
<1> DEFINE Appends(w) == UNCHANGED workCache /\ workLog' = Append(workLog, w) /\ NextWork(w)
           Goal == /\ workCache <= workCache'
                   /\ \/ UNCHANGED workLog
                      \/ UNCHANGED workCache /\ \E w \in WorkState \cup {Absent} :
                            workLog' = Append(workLog, w) /\ NextWork(w)
<1> SUFFICES Goal
  OBVIOUS
<1>0. workCache \in Nat /\ workCache <= Len(workLog) /\ workCache <= workCache
  BY DEF TypeOK, WorkOK
<1>1. ASSUME UNCHANGED <<workLog, workCache>> PROVE Goal
  BY <1>0, <1>1
<1>2. ASSUME NEW w \in WorkState \cup {Absent}, Appends(w) PROVE Goal
  BY <1>0, <1>2
<1>3. CachedWork # Absent /\ workCache = Len(workLog) => CachedWork = Work
  BY DEF CachedWork, Work
<1>4. CASE UpdateAppliedCondition
  <2>1. CASE UNCHANGED workLog
    BY <1>1, <1>4, <2>1 DEF UpdateAppliedCondition
  <2>2. CASE ~UNCHANGED workLog
    <3>1. /\ CachedWork # Absent /\ workCache = Len(workLog) /\ ctl.pc = "report"
          /\ workLog' = Append(workLog, WithApplied) /\ UNCHANGED workCache
      BY <1>4, <2>2 DEF UpdateAppliedCondition, UpdateStatus
    <3>2. /\ WithApplied \in WorkState /\ WithApplied.deleting = Work.deleting
          /\ Work # Absent /\ WithApplied.health = Work.health
      BY <1>3, <3>1 DEF WithApplied, WorkState
    <3> QED
      BY <1>2, <3>1, <3>2 DEF NextWork
  <2> QED
    BY <2>1, <2>2
<1>5. CASE ReflectStatus
  <2>1. CASE UNCHANGED workLog
    BY <1>1, <1>5, <2>1 DEF ReflectStatus
  <2>2. CASE ~UNCHANGED workLog
    <3>1. /\ CachedWork # Absent /\ workCache = Len(workLog) /\ stat \in Healths /\ stat' = "idle"
          /\ workLog' = Append(workLog, WithHealth) /\ UNCHANGED workCache
      BY <1>5, <2>2 DEF ReflectStatus, UpdateStatus, TypeOK, QueuesOK
    <3>2. /\ WithHealth \in WorkState /\ WithHealth.deleting = Work.deleting
          /\ Work # Absent /\ WithHealth.health = stat /\ stat # "idle"
      BY <1>3, <3>1 DEF WithHealth, WorkState, Healths
    <3> QED
      BY <1>2, <3>1, <3>2 DEF NextWork
  <2> QED
    BY <2>1, <2>2
<1>6. CASE RemoveFinalizer
  <2>1. CASE UNCHANGED workLog
    BY <1>1, <1>6, <2>1 DEF RemoveFinalizer
  <2>2. CASE ~UNCHANGED workLog
    <3>1. /\ ctl.pc = "finalizer" /\ ctl.at = Len(workLog) /\ ctl' = Idle
          /\ workLog' = Append(workLog, Absent) /\ UNCHANGED workCache
      BY <1>6, <2>2 DEF RemoveFinalizer
    <3>2. ctl # Idle
      BY <3>1 DEF Idle
    <3>3. Work # Absent
      BY <3>1, <3>2 DEF TypeOK, ReconciliationOK, Work
    <3> QED
      BY <1>2, <3>1, <3>2, <3>3 DEF NextWork
  <2> QED
    BY <2>1, <2>2
<1>7. ASSUME NEW m \in Manifests, UpdateWork(m) PROVE Goal
  <2>1. Appends([Work EXCEPT !.manifest = m]) /\ [Work EXCEPT !.manifest = m] \in WorkState
    BY <1>7 DEF UpdateWork, Move, NextWork, WorkState
  <2> QED
    BY <1>2, <2>1
<1>8. CASE RemoveWork
  <2>1. /\ Appends([Work EXCEPT !.deleting = TRUE])
        /\ [Work EXCEPT !.deleting = TRUE] \in WorkState
    BY <1>8 DEF RemoveWork, NextWork, WorkState
  <2> QED
    BY <1>2, <2>1
<1>9. CASE WatchWork \/ Restart
  <2>1. UNCHANGED workLog /\ workCache' \in {workCache + 1, Len(workLog)}
    BY <1>9 DEF WatchWork, Restart
  <2>2. workCache <= workCache'
    BY <1>0, <2>1
  <2> QED
    BY <2>1, <2>2
<1>17. CASE Reconcile
  <2>1. CASE UNCHANGED workLog
    BY <1>1, <1>17, <2>1 DEF Reconcile
  <2>2. CASE ~UNCHANGED workLog
    <3> DEFINE w == [CachedWork EXCEPT !.dispatching = TRUE]
    <3>1. /\ CachedWork # Absent /\ workCache = Len(workLog)
          /\ workLog' = Append(workLog, w) /\ UNCHANGED workCache
      BY <1>17, <2>2 DEF Reconcile, UpdateWorkDispatchingConditionIfNeeded, UpdateStatus
    <3>2. /\ w \in WorkState /\ w.deleting = Work.deleting
          /\ Work # Absent /\ w.health = Work.health
      BY <1>3, <3>1 DEF WorkState
    <3> QED
      BY <1>2, <3>1, <3>2 DEF NextWork
  <2> QED
    BY <2>1, <2>2
<1>10. CASE ExecutionController
  <2>1. CASE UpdateAppliedCondition \/ RemoveFinalizer \/ Reconcile
    BY <1>4, <1>6, <1>17, <2>1
  <2>2. CASE ~(UpdateAppliedCondition \/ RemoveFinalizer \/ Reconcile)
    <3>1. UNCHANGED <<workLog, workCache>>
      BY <1>10, <2>2 DEF ExecutionController, TryCreateOrUpdateWorkload, Create,
         Update, RecordVersion, TryDeleteWorkload, Delete, CleanupPolicyClaimMetadata, Release,
         workVars
    <3> QED
      BY <1>1, <3>1
  <2> QED
    BY <2>1, <2>2
<1>11. CASE ListObject \/ WatchObject \/ HandleEvent \/ BuildResourceInformers \/ SyncWorkStatus
  <2>1. UNCHANGED <<workLog, workCache>>
    BY <1>11 DEF ListObject, WatchObject, HandleEvent, BuildResourceInformers, SyncWorkStatus,
       workVars
  <2> QED
    BY <1>1, <2>1
<1>12. CASE CallFails \/ DeleteObject \/ ClusterUnready \/ ClusterReady \/ UNCHANGED vars
  <2>1. UNCHANGED <<workLog, workCache>>
    BY <1>12 DEF CallFails, DeleteObject, MemberWrites, ClusterUnready, ClusterReady, workVars, vars
  <2> QED
    BY <1>1, <2>1
<1>13. ASSUME NEW m \in Manifests, EditObject(m) \/ CreateForeignObject(m) PROVE Goal
  <2>1. UNCHANGED <<workLog, workCache>>
    BY <1>13 DEF EditObject, CreateForeignObject, MemberWrites, workVars
  <2> QED
    BY <1>1, <2>1
<1>14. ASSUME NEW h \in Healths, ChangeHealth(h) PROVE Goal
  <2>1. UNCHANGED <<workLog, workCache>>
    BY <1>14 DEF ChangeHealth, MemberWrites, workVars
  <2> QED
    BY <1>1, <2>1
<1> HIDE DEF Goal
<1>15. CASE Informers \/ StatusController
  BY <1>5, <1>9, <1>11, <1>15 DEF Informers, StatusController
<1>16. CASE Environment
  BY <1>7, <1>8, <1>9, <1>12, <1>13, <1>14, <1>16 DEF Environment
<1> QED
  BY <1>10, <1>12, <1>15, <1>16 DEF Next

\* What the cache has seen of the Work stays where it is.
LEMMA WorkKept ==
    ASSUME ExecutionAssumption, IInv, [Next]_vars
    PROVE  \A i \in 1..workCache : workLog'[i] = workLog[i]
<1> TypeOK
  BY DEF IInv
<1>1. CASE UNCHANGED workLog
  BY <1>1
<1>2. ASSUME NEW w \in WorkState \cup {Absent}, workLog' = Append(workLog, w)
      PROVE  \A i \in 1..workCache : workLog'[i] = workLog[i]
  BY <1>2, AppendKeeps DEF TypeOK, WorkOK
<1> QED
  BY <1>1, <1>2, WorkStep

\* The next version of the object: what the controller creates, updates, releases
\* or deletes, and what others edit, create, report or delete in the member.
NextObject(o) ==
    \/ o = Absent /\ Obj # Absent /\ (ctl.pc = "deleteCall" \/ left["delete"] > 0)
    \/ /\ o = Desired /\ ctl # Idle
       /\ ctl.pc = "update" \/ (ctl.pc = "create" /\ Obj = Absent)
    \/ o = [Desired EXCEPT !.managed = FALSE] /\ ctl # Idle /\ ctl.pc = "release"
    \/ \E m \in Manifests :
          o = [Obj EXCEPT !.manifest = m] /\ Annotated(Obj) /\ left["edit"] > 0
    \/ /\ o # Absent /\ ~o.managed /\ o.health = "Unhealthy"
       /\ Obj = Absent /\ left["foreign"] > 0
    \/ \E h \in Healths :
          /\ o = [Obj EXCEPT !.health = h] /\ Obj # Absent /\ Obj.health # h
          /\ left["health"] > 0 /\ left'["health"] = left["health"] - 1

LEMMA ObjectStep ==
    ASSUME ExecutionAssumption, IInv, [Next]_vars
    PROVE  \/ UNCHANGED objLog
           \/ /\ UNCHANGED <<objCache, events, informer>>
              /\ \E o \in Object \cup {Absent} : objLog' = Append(objLog, o) /\ NextObject(o)
<1> TypeOK /\ LockedIsAllowed
  BY DEF IInv
<1> USE ExecutionAssumption, Versions
<1> DEFINE Changed(o) == /\ UNCHANGED <<objCache, events, informer>>
                         /\ objLog' = Append(objLog, o) /\ NextObject(o)
           Goal == \/ UNCHANGED objLog
                   \/ /\ UNCHANGED <<objCache, events, informer>>
                      /\ \E o \in Object \cup {Absent} :
                            objLog' = Append(objLog, o) /\ NextObject(o)
<1> SUFFICES Goal
  OBVIOUS
<1>1. ASSUME UNCHANGED objLog PROVE Goal
  BY <1>1
<1>2. ASSUME NEW o \in Object \cup {Absent}, Changed(o) PROVE Goal
  BY <1>2
<1>3. ctl.pc # "idle" => ctl # Idle
  BY DEF Idle
<1>4. ctl # Idle => Desired \in Object /\ [Desired EXCEPT !.managed = FALSE] \in Object
  BY DEF Object
<1> HIDE DEF Goal
<1>5. CASE Create \/ Update
  <2>1. CASE UNCHANGED objLog
    BY <1>1, <2>1
  <2>2. CASE ~UNCHANGED objLog
    <3>1. /\ objLog' = Append(objLog, Desired) /\ UNCHANGED <<objCache, events, informer>>
          /\ ctl.pc = "update" \/ (ctl.pc = "create" /\ Obj = Absent)
      BY <1>5, <2>2 DEF Create, Update
    <3>2. Changed(Desired) /\ Desired \in Object
      BY <1>3, <1>4, <3>1 DEF NextObject
    <3> QED
      BY <1>2, <3>2
  <2> QED
    BY <2>1, <2>2
<1>6. CASE Delete
  <2>1. CASE UNCHANGED objLog
    BY <1>1, <2>1
  <2>2. CASE ~UNCHANGED objLog
    <3>1. Changed(Absent)
      BY <1>6, <2>2 DEF Delete, NextObject
    <3> QED
      BY <1>2, <3>1
  <2> QED
    BY <2>1, <2>2
<1>7. CASE Release
  <2>1. CASE UNCHANGED objLog
    BY <1>1, <2>1
  <2>2. CASE ~UNCHANGED objLog
    <3>1. /\ Changed([Desired EXCEPT !.managed = FALSE])
          /\ [Desired EXCEPT !.managed = FALSE] \in Object
      BY <1>3, <1>4, <1>7, <2>2 DEF Release, NextObject
    <3> QED
      BY <1>2, <3>1
  <2> QED
    BY <2>1, <2>2
<1>8. CASE CallFails
  <2>1. CASE UNCHANGED objLog
    BY <1>1, <2>1
  <2>2. CASE ~UNCHANGED objLog
    <3>0. UNCHANGED <<objCache, events, informer>>
      BY <1>8 DEF CallFails
    <3>1. \/ /\ objLog' = Append(objLog, Desired)
             /\ ctl.pc = "update" \/ (ctl.pc = "create" /\ Obj = Absent)
          \/ objLog' = Append(objLog, Absent) /\ Obj # Absent /\ ctl.pc = "deleteCall"
          \/ objLog' = Append(objLog, [Desired EXCEPT !.managed = FALSE]) /\ ctl.pc = "release"
      BY <1>8, <2>2 DEF CallFails
    <3>2. \/ Changed(Desired) /\ Desired \in Object
          \/ Changed(Absent)
          \/ /\ Changed([Desired EXCEPT !.managed = FALSE])
             /\ [Desired EXCEPT !.managed = FALSE] \in Object
      BY <1>3, <1>4, <3>0, <3>1 DEF NextObject
    <3> QED
      BY <1>2, <3>2
  <2> QED
    BY <2>1, <2>2
<1>9. CASE DeleteObject
  <2>1. Changed(Absent)
    BY <1>9 DEF DeleteObject, MemberWrites, Move, NextObject
  <2> QED
    BY <1>2, <2>1
<1>10. ASSUME NEW m \in Manifests, EditObject(m) PROVE Goal
  <2>1. Changed([Obj EXCEPT !.manifest = m]) /\ [Obj EXCEPT !.manifest = m] \in Object
    BY <1>10 DEF EditObject, MemberWrites, Move, NextObject, Annotated, Object
  <2> QED
    BY <1>2, <2>1
<1>11. ASSUME NEW m \in Manifests, CreateForeignObject(m) PROVE Goal
  <2> DEFINE o == [manifest |-> m, managed |-> FALSE, health |-> "Unhealthy"]
  <2>1. o \in Object
    BY DEF Object, Healths
  <2>2. o # Absent
    BY <2>1
  <2>3. Changed(o)
    BY <1>11, <2>2 DEF CreateForeignObject, MemberWrites, Move, NextObject
  <2> QED
    BY <1>2, <2>1, <2>3
<1>12. ASSUME NEW h \in Healths, ChangeHealth(h) PROVE Goal
  <2>1. left'["health"] = left["health"] - 1
    BY <1>12 DEF ChangeHealth, Move, TypeOK, QueuesOK, Kinds
  <2>2. Changed([Obj EXCEPT !.health = h]) /\ [Obj EXCEPT !.health = h] \in Object
    BY <1>12, <2>1 DEF ChangeHealth, MemberWrites, Move, NextObject, Object
  <2> QED
    BY <1>2, <2>2
<1>13. CASE ExecutionController
  <2>1. CASE Create \/ Update \/ Release \/ Delete
    BY <1>5, <1>6, <1>7, <2>1
  <2>2. CASE ~(Create \/ Update \/ Release \/ Delete)
    <3>1. UNCHANGED objLog
      BY <1>13, <2>2 DEF ExecutionController, Reconcile, TryCreateOrUpdateWorkload,
         RecordVersion, UpdateAppliedCondition, TryDeleteWorkload,
         CleanupPolicyClaimMetadata, RemoveFinalizer, memberVars
    <3> QED
      BY <1>1, <3>1
  <2> QED
    BY <2>1, <2>2
<1>14. CASE Informers \/ StatusController
  <2>1. UNCHANGED objLog
    BY <1>14 DEF Informers, WatchWork, ListObject, WatchObject, HandleEvent,
       StatusController, BuildResourceInformers, SyncWorkStatus, ReflectStatus, memberVars
  <2> QED
    BY <1>1, <2>1
<1>15. CASE RemoveWork \/ ClusterUnready \/ ClusterReady \/ Restart \/ UNCHANGED vars
  BY <1>1, <1>15 DEF RemoveWork, ClusterUnready, ClusterReady, Restart, memberVars, vars
<1>16. ASSUME NEW m \in Manifests, UpdateWork(m) PROVE Goal
  BY <1>1, <1>16 DEF UpdateWork, memberVars
<1>17. CASE Environment
  BY <1>17, <1>8, <1>9, <1>10, <1>11, <1>12, <1>15, <1>16 DEF Environment
<1> QED
  BY <1>13, <1>14, <1>15, <1>17 DEF Next

\* A reconciliation begins with the cached version of the Work and stays with it;
\* one that cleans up does nothing else.
Begins ==
    /\ ctl' # Idle /\ ctl'.at = workCache /\ CachedWork # Absent
    /\ ctl'.pc = IF CachedWork.deleting THEN "delete" ELSE "apply"

GoesOn ==
    /\ ctl # Idle /\ ctl' # Idle /\ ctl'.at = ctl.at
    /\ ctl'.pc \in Cleaning <=> ctl.pc \in Cleaning

LEMMA ControllerStep ==
    ASSUME ExecutionAssumption, IInv, [Next]_vars
    PROVE  \/ ctl' = ctl
           \/ ctl' = Idle
           \/ UNCHANGED workCache /\ (Begins \/ GoesOn)
<1> TypeOK /\ LockedIsAllowed
  BY DEF IInv
<1> USE ExecutionAssumption, Versions
<1> DEFINE Goal == \/ ctl' = ctl
                   \/ ctl' = Idle
                   \/ UNCHANGED workCache /\ (Begins \/ GoesOn)
<1> SUFFICES Goal
  OBVIOUS
<1>1. \A pc : pc \in Steps => pc # "idle"
  BY DEF Steps
<1>2. ASSUME ctl.pc \in Steps, NEW pc \in Steps, NEW v, ctl' = Goto(pc, v),
             pc \in Cleaning <=> ctl.pc \in Cleaning
      PROVE  GoesOn
  BY <1>1, <1>2 DEF Goto, GoesOn, Idle
<1>3. ASSUME ctl.pc \in Steps \ Cleaning, NEW b, ctl' = Report(b)
      PROVE  GoesOn
  BY <1>1, <1>3 DEF Report, GoesOn, Idle, Cleaning
<1>4. CASE Reconcile
  <2>1. \/ UNCHANGED ctl
        \/ CachedWork # Absent /\ CachedWork.deleting /\ Start("delete")
        \/ CachedWork # Absent /\ ~CachedWork.deleting /\ Start("apply")
    BY <1>4 DEF Reconcile
  <2>2. UNCHANGED workCache
    BY <1>4 DEF Reconcile
  <2>3. CASE CachedWork # Absent /\ CachedWork.deleting /\ Start("delete")
    BY <2>2, <2>3 DEF Start, Begins, Idle
  <2>4. CASE CachedWork # Absent /\ ~CachedWork.deleting /\ Start("apply")
    BY <2>2, <2>4 DEF Start, Begins, Idle
  <2> QED
    BY <2>1, <2>3, <2>4
<1>5. CASE TryCreateOrUpdateWorkload \/ Create \/ Update \/ RecordVersion
  <2>1. UNCHANGED <<workLog, workCache>> /\ ctl.pc \in {"apply", "create", "update", "record"}
    BY <1>5 DEF TryCreateOrUpdateWorkload, Create, Update, RecordVersion, workVars
  <2>2. \/ \E b \in BOOLEAN : ctl' = Report(b)
        \/ \E pc \in {"apply", "create", "update", "record"}, v \in Nat : ctl' = Goto(pc, v)
    <3>1. ctl # Idle
      BY <2>1 DEF Idle
    <3>2. ctl.ver \in Nat /\ Seen \in Nat /\ Len(objLog) + 1 \in Nat
      BY <3>1 DEF TypeOK, ReconciliationOK
    <3> QED
      BY <1>5, <3>2 DEF TryCreateOrUpdateWorkload, Create, Update, RecordVersion, Written
  <2>3. ctl.pc \in Steps \ Cleaning
    BY <2>1 DEF Steps, Cleaning
  <2>4. \A pc \in {"apply", "create", "update", "record"} : pc \in Steps \ Cleaning
    BY DEF Steps, Cleaning
  <2>5. GoesOn
    BY <1>2, <1>3, <2>2, <2>3, <2>4
  <2> QED
    BY <2>1, <2>5
<1>6. CASE TryDeleteWorkload \/ Delete \/ CleanupPolicyClaimMetadata \/ Release
  <2>1. UNCHANGED <<workLog, workCache>> /\ ctl.pc \in Cleaning
    BY <1>6 DEF TryDeleteWorkload, Delete, CleanupPolicyClaimMetadata, Release, workVars, Cleaning
  <2>2. ctl' = Idle \/ \E pc \in Cleaning, v \in Nat : ctl' = Goto(pc, v)
    <3>1. ctl # Idle
      BY <2>1 DEF Idle, Cleaning
    <3>2. ctl.ver \in Nat /\ Seen \in Nat /\ 0 \in Nat
      BY <3>1 DEF TypeOK, ReconciliationOK
    <3>3. CASE TryDeleteWorkload
      <4>1. ctl' = Goto("deleteCall", 0) \/ ctl' = Goto("finalizer", 0)
        BY <3>3 DEF TryDeleteWorkload
      <4> QED
        BY <3>2, <4>1 DEF Cleaning
    <3>4. CASE Delete
      BY <3>2, <3>4 DEF Delete, Cleaning
    <3>5. CASE CleanupPolicyClaimMetadata
      <4>1. ctl' = Idle \/ ctl' = Goto("finalizer", Seen) \/ ctl' = Goto("release", Seen)
        BY <3>5 DEF CleanupPolicyClaimMetadata, Fails
      <4> QED
        BY <3>2, <4>1 DEF Cleaning
    <3>6. CASE Release
      BY <3>2, <3>6 DEF Release, Fails, Cleaning
    <3> QED
      BY <1>6, <3>3, <3>4, <3>5, <3>6
  <2>3. Cleaning \subseteq Steps
    BY DEF Steps, Cleaning
  <2>4. ctl' = Idle \/ GoesOn
    BY <1>2, <2>1, <2>2, <2>3
  <2> QED
    BY <2>1, <2>4
<1>7. CASE UpdateAppliedCondition \/ RemoveFinalizer \/ Restart
  BY <1>7 DEF UpdateAppliedCondition, RemoveFinalizer, Restart, Fails
<1>8. CASE CallFails
  <2>1. \/ ctl' = Idle
        \/ ctl.pc \in {"create", "update"} /\ ctl' = Report(FALSE)
    BY <1>8 DEF CallFails, Fails
  <2>2. UNCHANGED <<workLog, workCache>>
    BY <1>8 DEF CallFails, workVars
  <2>3. CASE ctl.pc \in {"create", "update"} /\ ctl' = Report(FALSE)
    BY <1>3, <2>2, <2>3 DEF Steps, Cleaning
  <2> QED
    BY <2>1, <2>3
<1>9. CASE Informers \/ StatusController
  BY <1>9 DEF Informers, WatchWork, ListObject, WatchObject, HandleEvent,
     StatusController, BuildResourceInformers, SyncWorkStatus, ReflectStatus
<1>10. CASE RemoveWork \/ DeleteObject \/ ClusterUnready \/ ClusterReady \/ UNCHANGED vars
  BY <1>10 DEF RemoveWork, DeleteObject, MemberWrites, ClusterUnready, ClusterReady, vars
<1>11. ASSUME NEW m \in Manifests, UpdateWork(m) \/ EditObject(m) \/ CreateForeignObject(m)
       PROVE  Goal
  BY <1>11 DEF UpdateWork, EditObject, CreateForeignObject, MemberWrites
<1>12. ASSUME NEW h \in Healths, ChangeHealth(h) PROVE Goal
  BY <1>12 DEF ChangeHealth, MemberWrites
<1> HIDE DEF Goal
<1>13. CASE ExecutionController
  BY <1>4, <1>5, <1>6, <1>7, <1>13 DEF ExecutionController
<1>14. CASE Environment
  BY <1>7, <1>8, <1>10, <1>11, <1>12, <1>14 DEF Environment
<1> QED
  BY <1>9, <1>10, <1>13, <1>14 DEF Next

-----------------------------------------------------------------------------
(***************************************************************************)
(* A Work whose resources are preserved is gone only when its object is no *)
(* longer Karmada's.                                                       *)
(***************************************************************************)
\* The deletion of a Work is final.
DeletionStays ==
    \A i, j \in 1..Len(workLog) : i <= j /\ Ending(workLog[i]) => Ending(workLog[j])

\* The controller cleans up exactly for a Work it read as being deleted.
PhaseFits == ctl # Idle => (Ending(workLog[ctl.at]) <=> ctl.pc \in Cleaning)

\* When the Work is gone, nobody goes on applying it.
NobodyApplies ==
    Work = Absent => Ending(CachedWork) /\ (ctl # Idle => ctl.pc \in Cleaning)

\* From the release on, the object is not Karmada's.
NotOurs == Work = Absent \/ ctl.pc = "finalizer" => ~Annotated(Obj)

GoneInv == DeletionStays /\ PhaseFits /\ NobodyApplies /\ NotOurs

LEMMA DeletionStaysStep ==
    ASSUME ExecutionAssumption, IInv, DeletionStays, [Next]_vars
    PROVE  DeletionStays'
<1> TypeOK
  BY DEF IInv
<1>1. CASE UNCHANGED workLog
  BY <1>1 DEF DeletionStays, Ending
<1>2. ASSUME NEW w \in WorkState \cup {Absent}, workLog' = Append(workLog, w), NextWork(w)
      PROVE  DeletionStays'
  <2>1. /\ Len(workLog') = Len(workLog) + 1 /\ Len(workLog) \in Nat /\ Len(workLog) # 0
        /\ \A i \in 1..Len(workLog) : workLog'[i] = workLog[i]
        /\ workLog'[Len(workLog) + 1] = w
    BY <1>2, AppendKeeps DEF TypeOK, WorkOK
  <2>2. Ending(Work) => Ending(w)
    BY <1>2 DEF NextWork, Ending
  <2>3. SUFFICES ASSUME NEW i \in 1..Len(workLog'), NEW j \in 1..Len(workLog'), i <= j,
                        Ending(workLog'[i])
                 PROVE  Ending(workLog'[j])
    BY DEF DeletionStays, Ending
  <2>4. CASE j \in 1..Len(workLog)
    BY <2>1, <2>3, <2>4 DEF DeletionStays
  <2>5. CASE j = Len(workLog) + 1
    <3>1. CASE i = Len(workLog) + 1
      BY <2>3, <2>5, <3>1
    <3>2. CASE i \in 1..Len(workLog)
      <4>1. Ending(Work)
        BY <2>1, <2>3, <3>2 DEF DeletionStays, Work
      <4> QED
        BY <2>1, <2>2, <2>5, <4>1
    <3> QED
      BY <2>1, <2>3, <3>1, <3>2
  <2> QED
    BY <2>1, <2>3, <2>4, <2>5
<1> QED
  BY <1>1, <1>2, WorkStep

LEMMA PhaseFitsStep ==
    ASSUME ExecutionAssumption, IInv, PhaseFits, [Next]_vars
    PROVE  PhaseFits'
<1> TypeOK
  BY DEF IInv
<1>1. \A i \in 1..workCache : workLog'[i] = workLog[i]
  BY WorkKept
<1>2. CASE ctl' = ctl
  BY <1>1, <1>2 DEF PhaseFits, Ending, TypeOK, ReconciliationOK
<1>3. CASE ctl' = Idle
  BY <1>3 DEF PhaseFits
<1>4. CASE Begins
  <2>1. workCache \in 1..workCache
    BY DEF TypeOK, WorkOK
  <2> QED
    BY <1>1, <1>4, <2>1 DEF Begins, PhaseFits, Ending, CachedWork, Cleaning
<1>5. CASE GoesOn
  BY <1>1, <1>5 DEF GoesOn, PhaseFits, Ending, TypeOK, ReconciliationOK
<1> QED
  BY <1>2, <1>3, <1>4, <1>5, ControllerStep

LEMMA NobodyAppliesStep ==
    ASSUME ExecutionAssumption, IInv, GoneInv, [Next]_vars
    PROVE  NobodyApplies'
<1> TypeOK /\ DeletionStays /\ PhaseFits /\ NobodyApplies
  BY DEF IInv, GoneInv
<1> USE Versions
<1> SUFFICES ASSUME Work' = Absent
             PROVE  Ending(CachedWork)' /\ (ctl' # Idle => ctl'.pc \in Cleaning)
  BY DEF NobodyApplies, Idle
<1>1. /\ workCache \in 1..Len(workLog) /\ Len(workLog) \in Nat /\ workCache <= workCache'
      /\ workCache' \in 1..Len(workLog')
  BY WorkStep, NextInv DEF IInv, TypeOK, WorkOK
<1>2. CASE UNCHANGED workLog
  <2>1. Ending(CachedWork) /\ (ctl # Idle => ctl.pc \in Cleaning)
    BY <1>2 DEF NobodyApplies, Work
  <2>2. Ending(CachedWork)'
    BY <1>1, <1>2, <2>1 DEF DeletionStays, CachedWork, Ending
  <2>3. ctl' # Idle => ctl'.pc \in Cleaning
    BY <2>1, ControllerStep DEF Begins, GoesOn, Ending, Cleaning
  <2> QED
    BY <2>2, <2>3
<1>3. ASSUME NEW w \in WorkState \cup {Absent}, workLog' = Append(workLog, w), NextWork(w),
             UNCHANGED workCache
      PROVE  Ending(CachedWork)' /\ (ctl' # Idle => ctl'.pc \in Cleaning)
  <2>1. w = Absent /\ \A i \in 1..workCache : workLog'[i] = workLog[i]
    BY <1>3, WorkWrite
  <2>2. ctl # Idle /\ ctl.pc = "finalizer" /\ ctl' = Idle /\ ctl.at = Len(workLog)
    BY <1>3, <2>1 DEF NextWork
  <2>3. ctl.at \in 1..workCache /\ Ending(workLog[ctl.at])
    BY <2>2 DEF TypeOK, ReconciliationOK, PhaseFits, Cleaning
  <2>4. Ending(workLog[workCache])
    BY <1>1, <2>3 DEF DeletionStays
  <2> QED
    BY <1>1, <1>3, <2>1, <2>2, <2>4 DEF CachedWork, Ending
<1> QED
  BY <1>2, <1>3, WorkStep

\* How a reconciliation gets to the finalizer: with the object deleted or released.
LEMMA FinalizerStep ==
    ASSUME ExecutionAssumption, IInv, Preserve, ~Overwrite, [Next]_vars,
           ctl'.pc = "finalizer", ctl.pc # "finalizer"
    PROVE  ~Annotated(Obj)'
<1> TypeOK
  BY DEF IInv
<1> USE ExecutionAssumption, Versions
<1>1. ASSUME NEW o \in Object \cup {Absent}, objLog' = Append(objLog, o) PROVE Obj' = o
  BY <1>1 DEF TypeOK, MemberOK, Obj
<1>2. CASE Delete
  <2>1. CASE Obj = Absent
    BY <1>2, <2>1 DEF Delete, Obj, Annotated
  <2>2. CASE Obj # Absent
    BY <1>1, <1>2, <2>2 DEF Delete, Annotated
  <2> QED
    BY <2>1, <2>2
<1>3. CASE Release
  <2>1. ctl # Idle /\ objLog' = Append(objLog, [Desired EXCEPT !.managed = FALSE])
    BY <1>3 DEF Release, Fails, Idle
  <2>2. [Desired EXCEPT !.managed = FALSE] \in Object /\ ~[Desired EXCEPT !.managed = FALSE].managed
    BY <2>1 DEF Object
  <2>3. Obj' = [Desired EXCEPT !.managed = FALSE]
    BY <1>1, <2>1, <2>2
  <2> QED
    BY <2>2, <2>3 DEF Annotated
<1>4. CASE CleanupPolicyClaimMetadata
  <2>1. ctl' = Idle \/ objLog[Seen].managed
    BY <1>4 DEF CleanupPolicyClaimMetadata, Fails, AllowUpdate
  <2>2. ctl' = Idle \/ ctl' = Goto("release", Seen)
    BY <1>4, <2>1 DEF CleanupPolicyClaimMetadata, Fails
  <2> QED
    BY <2>2 DEF Goto, Idle
<1>5. CASE ExecutionController
  <2>1. ~(Reconcile \/ TryCreateOrUpdateWorkload \/ Create \/ Update \/ RecordVersion
          \/ UpdateAppliedCondition \/ TryDeleteWorkload \/ RemoveFinalizer)
    BY DEF Reconcile, Start, TryCreateOrUpdateWorkload, Create, Update, Written, RecordVersion,
       UpdateAppliedCondition, TryDeleteWorkload, RemoveFinalizer, Goto, Report, Fails, Idle
  <2> QED
    BY <1>2, <1>3, <1>4, <1>5, <2>1 DEF ExecutionController
<1>6. CASE CallFails
  BY <1>6 DEF CallFails, Report, Fails, Idle
<1>7. CASE Informers \/ StatusController
  BY <1>7 DEF Informers, WatchWork, ListObject, WatchObject, HandleEvent,
     StatusController, BuildResourceInformers, SyncWorkStatus, ReflectStatus
<1>8. CASE RemoveWork \/ DeleteObject \/ ClusterUnready \/ ClusterReady \/ Restart \/ UNCHANGED vars
  BY <1>8 DEF RemoveWork, DeleteObject, MemberWrites, ClusterUnready, ClusterReady, Restart, Idle, vars
<1>9. ASSUME NEW m \in Manifests, UpdateWork(m) \/ EditObject(m) \/ CreateForeignObject(m)
      PROVE  FALSE
  BY <1>9 DEF UpdateWork, EditObject, CreateForeignObject, MemberWrites
<1>10. ASSUME NEW h \in Healths, ChangeHealth(h) PROVE FALSE
  BY <1>10 DEF ChangeHealth, MemberWrites
<1>11. CASE Environment
  BY <1>6, <1>8, <1>9, <1>10, <1>11 DEF Environment
<1> QED
  BY <1>5, <1>7, <1>8, <1>11 DEF Next

LEMMA NotOursStep ==
    ASSUME ExecutionAssumption, IInv, GoneInv, Preserve, ~Overwrite, [Next]_vars
    PROVE  NotOurs'
<1> TypeOK /\ NobodyApplies /\ NotOurs
  BY DEF IInv, GoneInv
<1> USE Versions
<1> SUFFICES ASSUME Work' = Absent \/ ctl'.pc = "finalizer"
             PROVE  ~Annotated(Obj)'
  BY DEF NotOurs
<1>1. CASE ~(Work = Absent \/ ctl.pc = "finalizer")
  <2>1. Work' # Absent
    <3>1. CASE UNCHANGED workLog
      BY <1>1, <3>1 DEF Work
    <3>2. ASSUME NEW w \in WorkState \cup {Absent}, workLog' = Append(workLog, w), NextWork(w),
                 UNCHANGED workCache
          PROVE  Work' # Absent
      BY <1>1, <3>2, WorkWrite DEF NextWork
    <3> QED
      BY <3>1, <3>2, WorkStep
  <2> QED
    BY <1>1, <2>1, FinalizerStep
<1>2. CASE Work = Absent \/ ctl.pc = "finalizer"
  <2>1. ~Annotated(Obj) /\ ctl.pc \notin {"create", "update"}
    BY <1>2 DEF NotOurs, NobodyApplies, Cleaning, Idle
  <2>2. CASE UNCHANGED objLog
    BY <2>1, <2>2 DEF Annotated, Obj
  <2>3. ASSUME NEW o \in Object \cup {Absent}, objLog' = Append(objLog, o), NextObject(o)
        PROVE  ~Annotated(Obj)'
    <3>1. Obj' = o
      BY <2>3 DEF TypeOK, MemberOK, Obj
    <3>2. o = Absent \/ ~o.managed
      <4>1. CASE o = [Desired EXCEPT !.managed = FALSE] /\ ctl # Idle
        BY <4>1 DEF Object
      <4>2. ASSUME NEW h \in Healths, o = [Obj EXCEPT !.health = h], Obj # Absent
            PROVE  ~o.managed
        BY <2>1, <4>2 DEF Annotated, Object
      <4> QED
        BY <2>1, <2>3, <4>1, <4>2 DEF NextObject
    <3> QED
      BY <3>1, <3>2 DEF Annotated
  <2> QED
    BY <2>2, <2>3, ObjectStep
<1> QED
  BY <1>1, <1>2

LEMMA GoneInit == ASSUME ExecutionAssumption, Init PROVE GoneInv
<1> USE ExecutionAssumption
<1>1. PICK m \in Manifests :
         workLog = <<[manifest |-> m, deleting |-> FALSE, dispatching |-> FALSE,
                      applied |-> "Unknown", health |-> "Unknown"]>>
  BY DEF Init
<1>2. workLog[1] \in WorkState /\ Len(workLog) = 1 /\ ~workLog[1].deleting
  BY <1>1 DEF WorkState, Healths
<1>3. ctl = Idle /\ ctl.pc # "finalizer"
  BY DEF Init, Idle
<1>4. DeletionStays /\ Work # Absent
  BY <1>2 DEF DeletionStays, Ending, Work
<1> QED
  BY <1>3, <1>4 DEF GoneInv, PhaseFits, NobodyApplies, NotOurs

\* With preserveResourcesOnDeletion and without Overwrite, a Work goes only when its
\* object does not carry Karmada's label any more, whatever anybody updates, edits,
\* creates or deletes meanwhile, and after any number of failed calls, conflicts and
\* restarts: the finalizer is removed after an update under the optimistic lock
\* (cleanupPolicyClaimMetadata), and from then on nobody applies the Work again.
THEOREM GoneIsReleased ==
    ASSUME Preserve, ~Overwrite
    PROVE  Spec => []GoneLeavesNothing
<1>1. Init => IInv /\ GoneInv
  BY InitInv, GoneInit, ExecutionAssumption
<1>2. IInv /\ GoneInv /\ [Next]_vars => (IInv /\ GoneInv)'
  <2> SUFFICES ASSUME IInv, GoneInv, [Next]_vars PROVE (IInv /\ GoneInv)'
    OBVIOUS
  <2>1. IInv'
    BY NextInv, ExecutionAssumption
  <2>2. DeletionStays' /\ PhaseFits'
    BY DeletionStaysStep, PhaseFitsStep, ExecutionAssumption DEF GoneInv
  <2>3. NobodyApplies' /\ NotOurs'
    BY NobodyAppliesStep, NotOursStep, ExecutionAssumption
  <2> QED
    BY <2>1, <2>2, <2>3 DEF GoneInv
<1>3. GoneInv => GoneLeavesNothing
  BY DEF GoneInv, NotOurs, GoneLeavesNothing
<1> QED
  BY <1>1, <1>2, <1>3, PTL DEF Spec

-----------------------------------------------------------------------------
(***************************************************************************)
(* A controller at rest has synchronized its Work.  The promise it carries *)
(* around is that some version of the object from the one its handlers     *)
(* have seen on is what the Work asks for: at rest there is only one.      *)
(***************************************************************************)
\* The log of the object only grows, too.
LEMMA ObjectKept ==
    ASSUME ExecutionAssumption, IInv, [Next]_vars
    PROVE  /\ Len(objLog) \in Nat /\ Len(objLog') \in Nat /\ Len(objLog) <= Len(objLog')
           /\ \A i \in 1..Len(objLog) : objLog'[i] = objLog[i]
<1> TypeOK
  BY DEF IInv
<1> Len(objLog) \in Nat
  BY Versions
<1>1. CASE UNCHANGED objLog
  BY <1>1
<1>2. ASSUME NEW o \in Object \cup {Absent}, objLog' = Append(objLog, o),
             UNCHANGED <<objCache, events, informer>>
      PROVE  /\ Len(objLog') \in Nat /\ Len(objLog) <= Len(objLog')
             /\ \A i \in 1..Len(objLog) : objLog'[i] = objLog[i]
  BY <1>2, ObjectWrite
<1> QED
  BY <1>1, <1>2, ObjectStep

Living == CachedWork # Absent /\ ~CachedWork.deleting

\* The last version of the object the handlers have seen, 0 if none.
Handled == IF events = <<>> THEN objCache ELSE Head(events)[1]

\* The events waiting lead from there to the cache; a list shows no deletion.
EventsChained ==
    /\ objCache = 0 => events = <<>>
    /\ \A i \in 1..Len(events) :
          /\ events[i][2] = IF i = Len(events) THEN objCache ELSE events[i + 1][1]
          /\ IF events[i][1] = 0 THEN objLog[events[i][2]] # Absent
             ELSE events[i][2] = events[i][1] + 1

SameSpec(a, b) ==
    a # Absent /\ b # Absent /\ a.manifest = b.manifest /\ a.deleting = b.deleting

\* A reconciliation works on what the cache has, or the key is queued again.
ReadCurrent == ctl # Idle /\ ~queued => SameSpec(workLog[ctl.at], CachedWork)

\* The version about to be recorded is what the reconciliation asked for.
RecordFits ==
    ctl.pc = "record" =>
        /\ ctl.ver \in 1..Len(objLog) /\ objLog[ctl.ver] # Absent
        /\ objLog[ctl.ver].managed /\ objLog[ctl.ver].manifest = workLog[ctl.at].manifest

\* The controller is, or is about to be, done with the Work it read.
Content == ctl = Idle \/ (ctl.pc = "report" /\ ctl.ok)

\* What it has on record then is what the Work asks for.
Recorded ==
    Content /\ ~queued /\ Living /\ "record" \notin overlooked =>
        record \in 1..Len(objLog) /\ Synced(objLog[record])

\* The promise.
Promised ==
    /\ Content \/ ctl.pc = "record"
    /\ ~queued /\ Living /\ "object" \notin overlooked
    => \E s \in 1..Len(objLog) : Handled <= s /\ Synced(objLog[s])

SyncInv ==
    /\ DeletionStays /\ PhaseFits
    /\ EventsChained /\ ReadCurrent /\ RecordFits /\ Recorded /\ Promised

\* What may happen to the copy of the Work when the key is not queued after it.
LEMMA CachedStep ==
    ASSUME ExecutionAssumption, IInv, DeletionStays, [Next]_vars, ~queued'
    PROVE  \/ ctl' = Idle /\ Ending(CachedWork)'
           \/ Begins /\ SameSpec(CachedWork, CachedWork')
           \/ ~queued /\ SameSpec(CachedWork, CachedWork')
           \/ ~queued /\ CachedWork = Absent /\ Ending(CachedWork)'
<1> TypeOK
  BY DEF IInv
<1> USE Versions
<1>0. /\ \A i \in 1..workCache : workLog'[i] = workLog[i]
      /\ workCache \in 1..workCache /\ workCache \in 1..Len(workLog)
      /\ queued \in BOOLEAN
  BY WorkKept DEF TypeOK, WorkOK, QueuesOK
<1>1. CASE UNCHANGED workCache /\ ~queued
  <2>1. CachedWork' = CachedWork
    BY <1>0, <1>1 DEF CachedWork
  <2> QED
    BY <1>1, <2>1 DEF SameSpec, Ending
<1>2. CASE Reconcile
  <2>1. UNCHANGED workCache /\ ctl = Idle
    BY <1>2 DEF Reconcile
  <2>2. CachedWork' = CachedWork
    BY <1>0, <2>1 DEF CachedWork
  <2>3. CASE CachedWork = Absent
    BY <1>2, <2>1, <2>2, <2>3 DEF Reconcile, Ending
  <2>4. CASE CachedWork # Absent
    <3>1. Start(IF CachedWork.deleting THEN "delete" ELSE "apply")
      BY <1>0, <1>2, <2>4 DEF Reconcile
    <3>2. Begins
      BY <2>4, <3>1 DEF Start, Begins, Idle
    <3> QED
      BY <2>2, <2>4, <3>2 DEF SameSpec
  <2> QED
    BY <2>3, <2>4
<1>3. CASE WatchWork
  <2> DEFINE new == workLog[workCache + 1]
  <2>1. /\ UNCHANGED <<workLog, ctl>> /\ workCache' = workCache + 1 /\ workCache < Len(workLog)
        /\ ~queued /\ new # Absent
        /\ CachedWork.manifest = new.manifest /\ CachedWork.deleting = new.deleting
    BY <1>3 DEF WatchWork
  <2>2. CachedWork' = new
    BY <2>1 DEF CachedWork
  <2>3. CASE CachedWork = Absent
    <3>1. workCache + 1 \in 1..Len(workLog) /\ workCache <= workCache + 1
      BY <1>0, <2>1
    <3>2. Ending(new)
      BY <1>0, <2>3, <3>1 DEF DeletionStays, Ending, CachedWork
    <3> QED
      BY <2>1, <2>2, <2>3, <3>2 DEF Ending
  <2> QED
    BY <2>1, <2>2, <2>3 DEF SameSpec
<1>4. CASE Restart
  BY <1>4 DEF Restart, Work, CachedWork, Ending
<1>5. CASE ExecutionController /\ ~Reconcile
  <2>1. UNCHANGED workCache /\ ~queued
    <3>1. CASE TryCreateOrUpdateWorkload \/ Create \/ Update \/ RecordVersion \/ TryDeleteWorkload \/ Delete
      BY <1>0, <3>1 DEF TryCreateOrUpdateWorkload, Create, Update, RecordVersion, TryDeleteWorkload,
         Delete, workVars
    <3>2. CASE UpdateAppliedCondition \/ RemoveFinalizer
      BY <1>0, <3>2 DEF UpdateAppliedCondition, RemoveFinalizer, Fails
    <3>3. CASE CleanupPolicyClaimMetadata \/ Release
      BY <1>0, <3>3 DEF CleanupPolicyClaimMetadata, Release, Fails, workVars
    <3> QED
      BY <1>5, <3>1, <3>2, <3>3 DEF ExecutionController
  <2> QED
    BY <1>1, <2>1
<1>6. CASE ListObject \/ WatchObject \/ HandleEvent \/ StatusController
  <2>1. UNCHANGED workCache /\ ~queued
    BY <1>0, <1>6 DEF ListObject, WatchObject, HandleEvent, StatusController,
       BuildResourceInformers, SyncWorkStatus, ReflectStatus, workVars
  <2> QED
    BY <1>1, <2>1
<1>7. CASE Environment /\ ~Restart
  <2>1. UNCHANGED workCache /\ ~queued
    <3>1. CASE CallFails
      <4>1. UNCHANGED workCache
        BY <3>1 DEF CallFails, workVars
      <4>2. UNCHANGED queued \/ Fails
        BY <3>1 DEF CallFails
      <4> QED
        BY <1>0, <4>1, <4>2 DEF Fails
    <3>2. ASSUME NEW m \in Manifests, UpdateWork(m) \/ EditObject(m) \/ CreateForeignObject(m)
          PROVE  UNCHANGED workCache /\ ~queued
      BY <1>0, <3>2 DEF UpdateWork, EditObject, CreateForeignObject, MemberWrites, workVars
    <3>3. ASSUME NEW h \in Healths, ChangeHealth(h) PROVE UNCHANGED workCache /\ ~queued
      BY <1>0, <3>3 DEF ChangeHealth, MemberWrites, workVars
    <3>4. CASE RemoveWork \/ DeleteObject \/ ClusterUnready \/ ClusterReady
      BY <1>0, <3>4 DEF RemoveWork, DeleteObject, ClusterUnready, ClusterReady, MemberWrites, workVars
    <3> QED
      BY <1>7, <3>1, <3>2, <3>3, <3>4 DEF Environment
  <2> QED
    BY <1>1, <2>1
<1>8. CASE UNCHANGED vars
  BY <1>0, <1>1, <1>8 DEF vars, workVars
<1> QED
  BY <1>2, <1>3, <1>4, <1>5, <1>6, <1>7, <1>8 DEF Next, Informers

LEMMA ReadCurrentStep ==
    ASSUME ExecutionAssumption, IInv, DeletionStays, ReadCurrent, [Next]_vars
    PROVE  ReadCurrent'
<1> TypeOK
  BY DEF IInv
<1> SUFFICES ASSUME ctl' # Idle, ~queued' PROVE SameSpec(workLog'[ctl'.at], CachedWork')
  BY DEF ReadCurrent, Idle, SameSpec
<1>0. /\ \A i \in 1..workCache : workLog'[i] = workLog[i]
      /\ workCache \in 1..workCache
  BY WorkKept DEF TypeOK, WorkOK
<1>1. CASE Begins /\ SameSpec(CachedWork, CachedWork')
  BY <1>0, <1>1 DEF Begins, SameSpec, CachedWork
<1>2. CASE ~queued /\ ctl # Idle /\ ctl'.at = ctl.at
  <2>1. SameSpec(workLog[ctl.at], CachedWork) /\ CachedWork # Absent /\ ctl.at \in 1..workCache
    BY <1>2 DEF ReadCurrent, SameSpec, TypeOK, ReconciliationOK
  <2>2. SameSpec(CachedWork, CachedWork')
    BY <2>1, CachedStep DEF Begins
  <2> QED
    BY <1>0, <1>2, <2>1, <2>2 DEF SameSpec
<1>3. CASE ~queued /\ ~Begins
  BY <1>2, <1>3, ControllerStep DEF GoesOn
<1> QED
  BY <1>1, <1>3, CachedStep DEF Begins

\* A controller that is content, with no key queued, was not waiting before, and
\* its copy of the Work asks for the same.
LEMMA AtRest ==
    ASSUME ExecutionAssumption, IInv, DeletionStays, [Next]_vars,
           ~queued', Living', Content' \/ ctl'.pc = "record"
    PROVE  ~queued /\ Living /\ SameSpec(CachedWork, CachedWork')
<1>1. ~Ending(CachedWork)'
  BY DEF Living, Ending
<1>2. ~Begins
  BY DEF Begins, Content
<1> QED
  BY <1>1, <1>2, CachedStep DEF SameSpec, Living

\* Who moves the cache of the object and the events, and looks again.
LEMMA EventsStep ==
    ASSUME ExecutionAssumption, IInv, [Next]_vars
    PROVE  \/ /\ UNCHANGED <<objCache, events>>
              /\ "object" \notin overlooked' => "object" \notin overlooked \/ queued
           \/ ListObject \/ WatchObject \/ HandleEvent
           \/ objCache' = 0 /\ events' = <<>> /\ (queued' \/ CachedWork' = Absent)
<1> DEFINE Aside == /\ UNCHANGED <<objCache, events>>
                    /\ "object" \notin overlooked' => "object" \notin overlooked \/ queued
<1>1. CASE ExecutionController
  <2>1. CASE Reconcile \/ RecordVersion
    BY <2>1 DEF Reconcile, RecordVersion, LooksAgain, memberVars
  <2>2. CASE Create \/ Update \/ UpdateAppliedCondition \/ RemoveFinalizer
    BY <2>2 DEF Create, Update, UpdateAppliedCondition, RemoveFinalizer, memberVars
  <2>3. CASE TryCreateOrUpdateWorkload \/ TryDeleteWorkload \/ Delete \/ CleanupPolicyClaimMetadata \/ Release
    BY <2>3 DEF TryCreateOrUpdateWorkload, TryDeleteWorkload, Delete, CleanupPolicyClaimMetadata,
       Release, memberVars
  <2> QED
    BY <1>1, <2>1, <2>2, <2>3 DEF ExecutionController
<1>2. CASE WatchWork \/ StatusController
  BY <1>2 DEF WatchWork, StatusController, BuildResourceInformers, SyncWorkStatus, ReflectStatus,
     LooksAgain, Overlooks, memberVars
<1>3. CASE Environment
  <2>1. CASE CallFails \/ RemoveWork \/ DeleteObject \/ ClusterUnready \/ ClusterReady
    BY <2>1 DEF CallFails, RemoveWork, DeleteObject, ClusterUnready, ClusterReady, MemberWrites,
       memberVars
  <2>2. ASSUME NEW m \in Manifests, UpdateWork(m) \/ EditObject(m) \/ CreateForeignObject(m)
        PROVE  Aside
    BY <2>2 DEF UpdateWork, EditObject, CreateForeignObject, MemberWrites, memberVars
  <2>3. ASSUME NEW h \in Healths, ChangeHealth(h) PROVE Aside
    BY <2>3 DEF ChangeHealth, MemberWrites
  <2>4. CASE Restart
    BY <2>4 DEF Restart, Work, CachedWork
  <2> QED
    BY <1>3, <2>1, <2>2, <2>3, <2>4 DEF Environment
<1>4. CASE UNCHANGED vars
  BY <1>4 DEF vars, memberVars
<1> QED
  BY <1>1, <1>2, <1>3, <1>4 DEF Next, Informers

\* An event at the end of the queue.
LEMMA EventAppended ==
    ASSUME NEW s \in Seq(Nat \X Nat), NEW a \in Nat, NEW v \in Nat
    PROVE  LET t == Append(s, <<a, v>>) IN
           /\ Len(s) \in Nat /\ Len(t) = Len(s) + 1 /\ t # <<>>
           /\ \A i \in 1..Len(s) : t[i] = s[i]
           /\ t[Len(s) + 1] = <<a, v>>
           /\ Head(t) = IF s = <<>> THEN <<a, v>> ELSE Head(s)
<1> DEFINE t == Append(s, <<a, v>>)
<1>1. <<a, v>> \in Nat \X Nat
  OBVIOUS
<1> HIDE DEF t
<1>2. /\ t \in Seq(Nat \X Nat) /\ Len(s) \in Nat /\ Len(t) = Len(s) + 1 /\ t # <<>>
      /\ \A i \in 1..Len(s) : t[i] = s[i]
      /\ t[Len(s) + 1] = <<a, v>>
  BY <1>1, AppendKeeps DEF t
<1>3. Head(t) = t[1]
  BY <1>2
<1>4. CASE s = <<>>
  BY <1>2, <1>3, <1>4 DEF t
<1>5. CASE s # <<>>
  <2>1. Head(s) = s[1] /\ 1 \in 1..Len(s)
    BY <1>2, <1>5
  <2> QED
    BY <1>2, <1>3, <1>5, <2>1 DEF t
<1> QED
  BY <1>2, <1>4, <1>5 DEF t

\* The rest of the queue once its first event is handled.
LEMMA EventTaken ==
    ASSUME NEW s \in Seq(Nat \X Nat), s # <<>>
    PROVE  /\ Len(s) \in Nat \ {0} /\ Len(Tail(s)) = Len(s) - 1
           /\ Head(s) = s[1] /\ Head(s) \in Nat \X Nat
           /\ \A i \in 1..(Len(s) - 1) : Tail(s)[i] = s[i + 1]
           /\ Tail(s) # <<>> => Len(s) > 1 /\ Head(Tail(s)) = s[2]
           /\ Tail(s) = <<>> => Len(s) = 1
<1>1. Len(s) \in Nat /\ Len(s) # 0 /\ Tail(s) \in Seq(Nat \X Nat) /\ Len(Tail(s)) = Len(s) - 1
  OBVIOUS
<1>2. Head(s) = s[1] /\ s[1] \in Nat \X Nat
  BY <1>1
<1>3. \A i \in 1..(Len(s) - 1) : Tail(s)[i] = s[i + 1]
  BY <1>1
<1>4. ASSUME NEW t \in Seq(Nat \X Nat)
      PROVE  (t = <<>> => Len(t) = 0) /\ (t # <<>> => Len(t) # 0 /\ Head(t) = t[1])
  BY <1>4
<1>5. /\ Tail(s) = <<>> => Len(Tail(s)) = 0
      /\ Tail(s) # <<>> => Len(Tail(s)) # 0 /\ Head(Tail(s)) = Tail(s)[1]
  BY ONLY <1>1, <1>4
<1>6. Tail(s) # <<>> => Len(s) > 1 /\ Head(Tail(s)) = s[2]
  BY <1>1, <1>3, <1>5
<1>7. Tail(s) = <<>> => Len(s) = 1
  BY <1>1, <1>5
<1> QED
  BY <1>1, <1>2, <1>3, <1>6, <1>7

LEMMA EventsChainedStep ==
    ASSUME ExecutionAssumption, IInv, EventsChained, [Next]_vars
    PROVE  EventsChained'
<1> TypeOK
  BY DEF IInv
<1> USE Versions
<1>0. /\ \A i \in 1..Len(objLog) : objLog'[i] = objLog[i]
      /\ events \in Seq(Nat \X Nat) /\ Len(events) \in Nat
      /\ objCache \in 0..Len(objLog)
      /\ \A i \in 1..Len(events) : events[i][2] \in 1..objCache
  BY ObjectKept DEF TypeOK, EventsOK, MemberOK
<1>1. \A i \in 1..Len(events) : events[i][2] \in 1..Len(objLog)
  BY <1>0
<1>2. CASE UNCHANGED <<objCache, events>>
  BY <1>0, <1>1, <1>2 DEF EventsChained
<1>3. CASE ListObject
  <2>1. events = <<>> /\ objCache' = Len(objLog) /\ UNCHANGED objLog
    BY <1>3 DEF ListObject, EventsChained
  <2>2. CASE Obj = Absent
    BY <1>3, <2>1, <2>2 DEF ListObject, EventsChained
  <2>3. CASE Obj # Absent
    <3>1. events' = Append(events, <<0, Len(objLog)>>) /\ Len(events) = 0
      BY <1>3, <2>1, <2>3 DEF ListObject
    <3>2. Len(events') = 1 /\ events'[1] = <<0, Len(objLog)>>
      BY <1>0, <3>1, EventAppended
    <3> QED
      BY <2>1, <2>3, <3>2 DEF EventsChained, Obj
  <2> QED
    BY <2>2, <2>3
<1>4. CASE WatchObject
  <2>1. /\ events' = Append(events, <<objCache, objCache + 1>>) /\ UNCHANGED objLog
        /\ objCache # 0 /\ objCache' = objCache + 1 /\ objCache + 1 \in Nat /\ objCache \in Nat
    <3>1. objCache \in Nat /\ objCache + 1 \in Nat
      BY <1>0
    <3> QED
      BY <1>4, <3>1 DEF WatchObject
  <2>2. /\ Len(events') = Len(events) + 1
        /\ \A i \in 1..Len(events) : events'[i] = events[i]
        /\ events'[Len(events) + 1] = <<objCache, objCache + 1>>
    BY <1>0, <2>1, EventAppended
  <2>3. ASSUME NEW i \in 1..Len(events')
        PROVE  /\ events'[i][2] = IF i = Len(events') THEN objCache' ELSE events'[i + 1][1]
               /\ IF events'[i][1] = 0 THEN objLog'[events'[i][2]] # Absent
                  ELSE events'[i][2] = events'[i][1] + 1
    <3>1. CASE i = Len(events) + 1
      BY <2>1, <2>2, <3>1
    <3>2. CASE i \in 1..Len(events)
      <4>1. /\ events[i][2] = IF i = Len(events) THEN objCache ELSE events[i + 1][1]
            /\ IF events[i][1] = 0 THEN objLog[events[i][2]] # Absent
               ELSE events[i][2] = events[i][1] + 1
        BY <3>2 DEF EventsChained
      <4>2. CASE i = Len(events)
        BY <1>0, <2>1, <2>2, <4>1, <4>2
      <4>3. CASE i # Len(events)
        <5>0. i + 1 \in 1..Len(events) /\ i # Len(events) + 1
          <6>1. Len(events) \in Nat
            BY <1>0
          <6> HIDE Versions
          <6> QED
            BY <3>2, <4>3, <6>1
        <5>1. /\ i + 1 \in 1..Len(events) /\ i # Len(events')
              /\ events'[i] = events[i] /\ events'[i + 1] = events[i + 1]
          BY <2>2, <3>2, <5>0
        <5> QED
          BY <2>1, <4>1, <4>3, <5>1
      <4> QED
        BY <4>2, <4>3
    <3> QED
      BY <1>0, <2>2, <3>1, <3>2
  <2> QED
    BY <2>1, <2>3 DEF EventsChained
<1>5. CASE HandleEvent
  <2>1. events # <<>> /\ events' = Tail(events) /\ UNCHANGED <<objLog, objCache>>
    BY <1>5 DEF HandleEvent
  <2>2. /\ Len(events') = Len(events) - 1 /\ Len(events) > 0
        /\ \A i \in 1..(Len(events) - 1) : events'[i] = events[i + 1]
    BY <1>0, <2>1, EventTaken
  <2>3. objCache # 0
    BY <2>1 DEF EventsChained
  <2>4. ASSUME NEW i \in 1..Len(events')
        PROVE  /\ events'[i][2] = IF i = Len(events') THEN objCache' ELSE events'[i + 1][1]
               /\ IF events'[i][1] = 0 THEN objLog'[events'[i][2]] # Absent
                  ELSE events'[i][2] = events'[i][1] + 1
    <3>0. i \in 1..(Len(events) - 1) /\ i \in Nat
      BY <1>0, <2>2
    <3>4. i + 1 \in 1..Len(events) /\ (i = Len(events) - 1 <=> i + 1 = Len(events))
      <4>1. Len(events) \in Nat /\ i <= Len(events) - 1 /\ i >= 1
        BY <1>0, <3>0
      <4> QED
        BY <3>0, <4>1
    <3>1. /\ i + 1 \in 1..Len(events) /\ events'[i] = events[i + 1]
          /\ i = Len(events') <=> i + 1 = Len(events)
      BY <2>2, <3>0, <3>4
    <3>2. /\ events[i + 1][2] = IF i + 1 = Len(events) THEN objCache ELSE events[(i + 1) + 1][1]
          /\ IF events[i + 1][1] = 0 THEN objLog[events[i + 1][2]] # Absent
             ELSE events[i + 1][2] = events[i + 1][1] + 1
      BY <3>1 DEF EventsChained
    <3>3. i + 1 # Len(events) => events'[i + 1] = events[(i + 1) + 1]
      <4>1. i + 1 # Len(events) => i + 1 \in 1..(Len(events) - 1)
        BY <1>0, <3>0, <3>4
      <4> QED
        BY <2>2, <4>1
    <3> QED
      BY <2>1, <3>1, <3>2, <3>3
  <2> QED
    BY <2>1, <2>3, <2>4 DEF EventsChained
<1>6. CASE objCache' = 0 /\ events' = <<>>
  BY <1>6 DEF EventsChained
<1> QED
  BY <1>2, <1>3, <1>4, <1>5, <1>6, EventsStep

LEMMA RecordFitsStep ==
    ASSUME ExecutionAssumption, IInv, RecordFits, [Next]_vars
    PROVE  RecordFits'
<1> TypeOK
  BY DEF IInv
<1> USE ExecutionAssumption, Versions
<1>0. /\ \A i \in 1..workCache : workLog'[i] = workLog[i]
      /\ \A i \in 1..Len(objLog) : objLog'[i] = objLog[i]
      /\ Len(objLog) \in Nat /\ Len(objLog') \in Nat /\ Len(objLog) <= Len(objLog')
  BY WorkKept, ObjectKept
<1>1. Idle.pc = "idle"
  BY DEF Idle
<1> SUFFICES ASSUME ctl'.pc = "record" PROVE RecordFits'
  BY DEF RecordFits
<1>2. CASE ctl' = ctl
  <2>1. ctl # Idle
    BY <1>1, <1>2
  <2>2. ctl.at \in 1..workCache
    BY <2>1 DEF TypeOK, ReconciliationOK
  <2> QED
    BY <1>0, <1>2, <2>2 DEF RecordFits
<1>3. ASSUME ctl # Idle, NEW v \in 1..Len(objLog'), ctl' = Goto("record", v),
             objLog'[v] # Absent, objLog'[v].managed, objLog'[v].manifest = workLog[ctl.at].manifest
      PROVE  RecordFits'
  <2>1. ctl'.ver = v /\ ctl'.at = ctl.at /\ ctl.at \in 1..workCache
    BY <1>3 DEF Goto, TypeOK, ReconciliationOK
  <2> QED
    BY <1>0, <1>3, <2>1 DEF RecordFits
<1>4. CASE TryCreateOrUpdateWorkload
  <2>1. ctl # Idle /\ UNCHANGED objLog
    BY <1>1, <1>4 DEF TryCreateOrUpdateWorkload, memberVars
  <2>2. /\ ctl' = Goto("record", Seen)
        /\ objLog[Seen] # Absent /\ objLog[Seen].managed
        /\ objLog[Seen].manifest = workLog[ctl.at].manifest
    BY <1>4 DEF TryCreateOrUpdateWorkload, Goto, Report
  <2> QED
    BY <1>3, <2>1, <2>2
<1>5. CASE Create \/ Update
  <2>1. ctl # Idle
    BY <1>1, <1>5 DEF Create, Update
  <2>2. ctl' = Goto("record", Len(objLog) + 1) /\ objLog' = Append(objLog, Desired)
    BY <1>5 DEF Create, Update, Written, Goto, Report
  <2>3. /\ Desired \in Object /\ Len(objLog) + 1 \in 1..Len(objLog')
        /\ objLog'[Len(objLog) + 1] = Desired
    BY <2>1, <2>2, AppendKeeps DEF TypeOK, MemberOK
  <2>4. Desired # Absent /\ Desired.managed /\ Desired.manifest = workLog[ctl.at].manifest
    BY <2>3 DEF Desired
  <2> QED
    BY <1>3, <2>1, <2>2, <2>3, <2>4
<1>6. CASE ExecutionController
  BY <1>1, <1>4, <1>5, <1>6 DEF ExecutionController, Reconcile, Start, RecordVersion,
     UpdateAppliedCondition, TryDeleteWorkload, Delete, CleanupPolicyClaimMetadata, Release,
     RemoveFinalizer, Fails, Goto, Report, Idle
<1>7. CASE ~ExecutionController
  <2>1. CASE CallFails
    BY <1>1, <2>1 DEF CallFails, Fails, Report
  <2>2. CASE Restart
    BY <1>1, <2>2 DEF Restart
  <2>3. CASE Informers \/ StatusController
    BY <1>2, <2>3 DEF Informers, WatchWork, ListObject, WatchObject, HandleEvent,
       StatusController, BuildResourceInformers, SyncWorkStatus, ReflectStatus
  <2>4. CASE RemoveWork \/ DeleteObject \/ ClusterUnready \/ ClusterReady \/ UNCHANGED vars
    BY <1>2, <2>4 DEF RemoveWork, DeleteObject, MemberWrites, ClusterUnready, ClusterReady, vars
  <2>5. ASSUME NEW m \in Manifests, UpdateWork(m) \/ EditObject(m) \/ CreateForeignObject(m)
        PROVE  UNCHANGED ctl
    BY <2>5 DEF UpdateWork, EditObject, CreateForeignObject, MemberWrites
  <2>6. ASSUME NEW h \in Healths, ChangeHealth(h) PROVE UNCHANGED ctl
    BY <2>6 DEF ChangeHealth, MemberWrites
  <2> QED
    BY <1>2, <1>7, <2>1, <2>2, <2>3, <2>4, <2>5, <2>6 DEF Next, Environment
<1> QED
  BY <1>6, <1>7

\* How a controller comes to be content with no key queued: it was before, or it
\* records the version, or it accepts what it finds instead of creating.
LEMMA ContentStep ==
    ASSUME ExecutionAssumption, IInv, SyncInv, [Next]_vars, ~queued', Living', Content'
    PROVE  \/ /\ Content /\ UNCHANGED record
              /\ "record" \notin overlooked' => "record" \notin overlooked
           \/ RecordVersion
           \/ Create /\ UNCHANGED <<objLog, objCache, events>> /\ "record" \in overlooked'
<1> TypeOK /\ DeletionStays /\ PhaseFits /\ ReadCurrent
  BY DEF IInv, SyncInv
<1> USE ExecutionAssumption, Versions
<1>0. ~queued /\ Living /\ SameSpec(CachedWork, CachedWork')
  BY AtRest
<1>1. Idle.pc = "idle"
  BY DEF Idle
<1>2. ctl'.pc = "idle" \/ (ctl'.pc = "report" /\ ctl'.ok)
  BY <1>1 DEF Content
<1>3. ~(ctl # Idle /\ ctl.pc \in Cleaning)
  <2> SUFFICES ASSUME ctl # Idle, ctl.pc \in Cleaning PROVE FALSE
    OBVIOUS
  <2>1. Ending(workLog[ctl.at]) /\ SameSpec(workLog[ctl.at], CachedWork)
    BY <1>0 DEF PhaseFits, ReadCurrent
  <2> QED
    BY <1>0, <2>1 DEF SameSpec, Living, Ending
<1>4. CASE UNCHANGED <<ctl, record>> /\ ("record" \notin overlooked' => "record" \notin overlooked)
  BY <1>4 DEF Content
<1>5. CASE Reconcile
  BY <1>0, <1>5 DEF Reconcile
<1>6. CASE TryCreateOrUpdateWorkload \/ Update
  BY <1>2, <1>6 DEF TryCreateOrUpdateWorkload, Update, Written, Goto, Report
<1>7. CASE Create
  BY <1>2, <1>7 DEF Create, Written, Goto, Report
<1>8. CASE UpdateAppliedCondition
  BY <1>0, <1>8 DEF UpdateAppliedCondition, Fails, Content
<1>9. CASE TryDeleteWorkload \/ Delete \/ CleanupPolicyClaimMetadata \/ Release \/ RemoveFinalizer
  BY <1>1, <1>3, <1>9 DEF TryDeleteWorkload, Delete, CleanupPolicyClaimMetadata, Release,
     RemoveFinalizer, Cleaning
<1>10. CASE CallFails
  BY <1>2, <1>10 DEF CallFails, Fails, Report
<1>11. CASE Restart
  BY <1>11 DEF Restart, Living, Work, CachedWork
<1>12. CASE WatchWork \/ ListObject \/ WatchObject
  BY <1>4, <1>12 DEF WatchWork, ListObject, WatchObject, Overlooks
<1>13. CASE HandleEvent
  BY <1>4, <1>13 DEF HandleEvent, Overlooks, LooksAgain
<1>14. CASE StatusController
  BY <1>4, <1>14 DEF StatusController, BuildResourceInformers, SyncWorkStatus, ReflectStatus,
     Overlooks, LooksAgain
<1>15. CASE RemoveWork \/ DeleteObject \/ ClusterUnready \/ ClusterReady \/ UNCHANGED vars
  BY <1>4, <1>15 DEF RemoveWork, DeleteObject, MemberWrites, ClusterUnready, ClusterReady, vars
<1>16. ASSUME NEW m \in Manifests, UpdateWork(m) \/ EditObject(m) \/ CreateForeignObject(m)
       PROVE  UNCHANGED <<ctl, record, overlooked>>
  BY <1>16 DEF UpdateWork, EditObject, CreateForeignObject, MemberWrites
<1>17. ASSUME NEW h \in Healths, ChangeHealth(h) PROVE UNCHANGED <<ctl, record, overlooked>>
  BY <1>17 DEF ChangeHealth, MemberWrites
<1>18. CASE Environment
  BY <1>4, <1>10, <1>11, <1>15, <1>16, <1>17, <1>18 DEF Environment
<1>19. CASE ExecutionController
  BY <1>5, <1>6, <1>7, <1>8, <1>9, <1>19 DEF ExecutionController
<1> QED
  BY <1>12, <1>13, <1>14, <1>15, <1>18, <1>19 DEF Next, Informers

LEMMA RecordedStep ==
    ASSUME ExecutionAssumption, IInv, SyncInv, [Next]_vars
    PROVE  Recorded'
<1> TypeOK /\ DeletionStays /\ ReadCurrent /\ RecordFits /\ Recorded
  BY DEF IInv, SyncInv
<1> SUFFICES ASSUME Content', ~queued', Living', "record" \notin overlooked'
             PROVE  record' \in 1..Len(objLog') /\ Synced(objLog[record])'
  BY DEF Recorded
<1>0. /\ ~queued /\ Living /\ SameSpec(CachedWork, CachedWork')
      /\ \A i \in 1..Len(objLog) : objLog'[i] = objLog[i]
      /\ Len(objLog) \in Nat /\ Len(objLog') \in Nat /\ Len(objLog) <= Len(objLog')
  BY AtRest, ObjectKept
<1>1. CASE Content /\ UNCHANGED record /\ "record" \notin overlooked
  <2>1. record \in 1..Len(objLog) /\ Synced(objLog[record])
    BY <1>0, <1>1 DEF Recorded
  <2> QED
    BY <1>0, <1>1, <2>1 DEF Synced, SameSpec
<1>2. CASE RecordVersion
  <2>1. ctl # Idle /\ ctl.pc = "record" /\ record' = ctl.ver
    BY <1>2 DEF RecordVersion, Idle
  <2>2. SameSpec(workLog[ctl.at], CachedWork)
    BY <1>0, <2>1 DEF ReadCurrent
  <2> QED
    BY <1>0, <2>1, <2>2 DEF RecordFits, Synced, SameSpec
<1> QED
  BY <1>1, <1>2, ContentStep

\* How a controller comes to have a version to record.
LEMMA RecordStep ==
    ASSUME ExecutionAssumption, IInv, [Next]_vars, ctl'.pc = "record", ctl' # ctl
    PROVE  /\ ctl # Idle /\ UNCHANGED <<workCache, queued, objCache, events>>
           /\ ctl'.ver \in {Seen, Len(objLog) + 1}
<1> TypeOK
  BY DEF IInv
<1>1. Idle.pc = "idle"
  BY DEF Idle
<1>2. CASE TryCreateOrUpdateWorkload \/ Create \/ Update
  BY <1>1, <1>2 DEF TryCreateOrUpdateWorkload, Create, Update, Written, Goto, Report, workVars, memberVars
<1>3. CASE ExecutionController
  BY <1>1, <1>2, <1>3 DEF ExecutionController, Reconcile, Start, RecordVersion,
     UpdateAppliedCondition, TryDeleteWorkload, Delete, CleanupPolicyClaimMetadata, Release,
     RemoveFinalizer, Fails, Goto, Report, Idle
<1>4. CASE CallFails \/ Restart
  BY <1>1, <1>4 DEF CallFails, Restart, Fails, Report
<1>5. CASE Informers \/ StatusController
  BY <1>5 DEF Informers, WatchWork, ListObject, WatchObject, HandleEvent,
     StatusController, BuildResourceInformers, SyncWorkStatus, ReflectStatus
<1>6. CASE RemoveWork \/ DeleteObject \/ ClusterUnready \/ ClusterReady \/ UNCHANGED vars
  BY <1>6 DEF RemoveWork, DeleteObject, MemberWrites, ClusterUnready, ClusterReady, vars
<1>7. ASSUME NEW m \in Manifests, UpdateWork(m) \/ EditObject(m) \/ CreateForeignObject(m)
      PROVE  FALSE
  BY <1>7 DEF UpdateWork, EditObject, CreateForeignObject, MemberWrites
<1>8. ASSUME NEW h \in Healths, ChangeHealth(h) PROVE FALSE
  BY <1>8 DEF ChangeHealth, MemberWrites
<1> QED
  BY <1>3, <1>4, <1>5, <1>6, <1>7, <1>8 DEF Next, Environment

\* The handlers take an event: the promise is kept, the key is queued, or the
\* object was overlooked.
LEMMA HandledKeeps ==
    ASSUME ExecutionAssumption, IInv, SyncInv, HandleEvent, ~queued', Living,
           Content \/ ctl.pc = "record", "object" \notin overlooked'
    PROVE  \E s \in 1..Len(objLog) : Handled' <= s /\ Synced(objLog[s])
<1> TypeOK /\ EventsChained /\ Recorded /\ Promised
  BY DEF IInv, SyncInv
<1> DEFINE a   == Head(events)[1]
           v   == Head(events)[2]
           old == IF a = 0 THEN Absent ELSE objLog[a]
           new == objLog[v]
<1>1. /\ events # <<>> /\ events' = Tail(events) /\ UNCHANGED objCache
      /\ ~queued
      /\ ~(IF old = Absent THEN OnAdd(new, v) ELSE IF new = Absent THEN OnDelete(old)
           ELSE OnUpdate(old, new, v))
      /\ IF Synced(new) THEN LooksAgain("object")
         ELSE Overlooks("object", LooksNoMore /\ new # Absent /\ CannotTell(new))
  BY DEF HandleEvent, TypeOK, QueuesOK, Overlooks
<1>2. /\ a \in Nat /\ v \in 1..Len(objLog) /\ a <= objCache /\ objCache <= Len(objLog)
      /\ Len(objLog) \in Nat /\ objCache \in Nat
  <2>1. 1 \in 1..Len(events) /\ Head(events) = events[1]
    BY <1>1, EventTaken DEF TypeOK, EventsOK
  <2> QED
    BY <2>1, Versions DEF TypeOK, EventsOK, MemberOK
<1>3. /\ Handled' = v
      /\ IF a = 0 THEN new # Absent ELSE v = a + 1
  <2>1. /\ Len(events) \in Nat \ {0} /\ Head(events) = events[1]
        /\ Tail(events) # <<>> => Len(events) > 1 /\ Head(Tail(events)) = events[2]
        /\ Tail(events) = <<>> => Len(events) = 1
    BY <1>1, EventTaken DEF TypeOK, EventsOK
  <2>2. 1 \in 1..Len(events)
    BY <2>1
  <2>3. /\ v = IF 1 = Len(events) THEN objCache ELSE events[2][1]
        /\ IF a = 0 THEN new # Absent ELSE v = a + 1
    BY <2>1, <2>2 DEF EventsChained
  <2> QED
    BY <1>1, <2>1, <2>3 DEF Handled
<1>4. CASE Synced(new)
  BY <1>2, <1>3, <1>4
<1>5. CASE ~Synced(new)
  <2> HIDE DEF a, v, old, new
  <2>1. LooksNoMore
    BY <1>1 DEF LooksNoMore, Content, Idle
  <2>2. "object" \notin overlooked /\ (new = Absent \/ ~CannotTell(new))
    BY <1>1, <1>5, <2>1 DEF Overlooks
  <2>3. PICK s \in 1..Len(objLog) : Handled <= s /\ Synced(objLog[s])
    BY <1>1, <2>2 DEF Promised
  <2>4. a <= s /\ s # v
    BY <1>1, <1>5, <2>3 DEF Handled, a, new
  <2>5. ~Synced(old) /\ a # 0
    <3>1. CASE new = Absent
      BY <1>1, <1>3, <3>1 DEF OnDelete, Synced, old
    <3>2. CASE new # Absent
      <4>1. /\ ctl.pc # "record" /\ "record" \notin overlooked
            /\ ~(a = 0 /\ ~new.managed)
        BY <2>2, <3>2 DEF CannotTell, a
      <4>2. record \in 1..Len(objLog) /\ Synced(objLog[record])
        BY <1>1, <4>1 DEF Recorded
      <4>3. IsNews(v)
        BY <1>5, <4>2 DEF IsNews, new
      <4>4. CASE old = Absent
        BY <1>1, <4>1, <4>3, <4>4 DEF OnAdd, Synced
      <4>5. CASE old # Absent
        <5>1. ~old.managed \/ (old.manifest = new.manifest /\ old.managed = new.managed)
          BY <1>1, <3>2, <4>3, <4>5 DEF OnUpdate
        <5> QED
          BY <1>5, <3>2, <4>5, <5>1 DEF Synced, old
      <4> QED
        BY <4>4, <4>5
    <3> QED
      BY <3>1, <3>2
  <2>6. s # a
    BY <2>3, <2>5 DEF old
  <2> QED
    BY <1>2, <1>3, <2>3, <2>4, <2>5, <2>6
<1> QED
  BY <1>4, <1>5

LEMMA PromisedStep ==
    ASSUME ExecutionAssumption, IInv, SyncInv, [Next]_vars
    PROVE  Promised'
<1> TypeOK /\ DeletionStays /\ PhaseFits /\ ReadCurrent /\ RecordFits /\ Promised /\ EventsChained
  BY DEF IInv, SyncInv
<1> SUFFICES ASSUME Content' \/ ctl'.pc = "record", ~queued', Living', "object" \notin overlooked'
             PROVE  \E s \in 1..Len(objLog') : Handled' <= s /\ Synced(objLog[s])'
  BY DEF Promised
<1>0. /\ ~queued /\ Living /\ SameSpec(CachedWork, CachedWork')
      /\ \A i \in 1..Len(objLog) : objLog'[i] = objLog[i]
      /\ Len(objLog) \in Nat /\ Len(objLog') \in Nat /\ Len(objLog) <= Len(objLog')
  BY AtRest, ObjectKept
<1>1. ASSUME NEW s \in 1..Len(objLog), Handled' <= s, Synced(objLog[s])
      PROVE  \E i \in 1..Len(objLog') : Handled' <= i /\ Synced(objLog[i])'
  <2>1. s \in 1..Len(objLog') /\ Synced(objLog[s])'
    BY <1>0, <1>1 DEF Synced, SameSpec
  <2> QED
    BY <1>1, <2>1
<1>2. Handled \in Nat /\ Seen \in 1..Len(objLog) /\ Handled <= Seen
  <2>1. objCache \in Nat /\ objCache <= Seen /\ Seen \in 1..Len(objLog)
    BY Versions DEF TypeOK, MemberOK, Seen
  <2>2. CASE events = <<>>
    BY <2>1, <2>2 DEF Handled
  <2>3. CASE events # <<>>
    <3>1. 1 \in 1..Len(events) /\ Head(events) = events[1]
      BY <2>3, EventTaken DEF TypeOK, EventsOK
    <3>2. events[1][1] \in 0..objCache
      BY <3>1 DEF TypeOK, EventsOK
    <3> QED
      BY <2>1, <2>3, <3>1, <3>2 DEF Handled
  <2> QED
    BY <2>1, <2>2, <2>3
<1>3. ASSUME Content \/ ctl.pc = "record"
      PROVE  \E i \in 1..Len(objLog') : Handled' <= i /\ Synced(objLog[i])'
  <2>1. ASSUME Handled' = Handled, "object" \notin overlooked
        PROVE  \E i \in 1..Len(objLog') : Handled' <= i /\ Synced(objLog[i])'
    BY <1>0, <1>1, <1>3, <2>1 DEF Promised
  <2>2. CASE UNCHANGED <<objCache, events>> /\ "object" \notin overlooked
    BY <2>1, <2>2 DEF Handled
  <2>3. CASE ListObject
    <3>1. events = <<>> /\ objCache = 0
      BY <2>3 DEF ListObject, EventsChained
    <3>2. LooksNoMore
      BY <1>0, <1>3 DEF LooksNoMore, Content, Idle
    <3>3. Obj # Absent /\ "object" \notin overlooked
      BY <2>3, <3>2 DEF ListObject, Overlooks
    <3>4. events' = Append(events, <<0, Len(objLog)>>) /\ events \in Seq(Nat \X Nat)
      BY <2>3, <3>3 DEF ListObject, TypeOK, EventsOK
    <3>5. events' # <<>> /\ Head(events') = <<0, Len(objLog)>>
      BY <1>0, <3>1, <3>4, EventAppended
    <3>6. Handled' = Handled
      BY <3>1, <3>5 DEF Handled
    <3> QED
      BY <2>1, <3>3, <3>6
  <2>4. CASE WatchObject
    <3>1. events' = Append(events, <<objCache, objCache + 1>>) /\ UNCHANGED overlooked
      BY <2>4 DEF WatchObject
    <3>2. events' # <<>> /\ Head(events') = IF events = <<>> THEN <<objCache, objCache + 1>> ELSE Head(events)
      BY <3>1, EventAppended DEF TypeOK, EventsOK, MemberOK
    <3>3. Handled' = Handled
      BY <3>2 DEF Handled
    <3> QED
      BY <2>1, <3>1, <3>3
  <2>5. CASE HandleEvent
    BY <1>0, <1>1, <1>3, <2>5, HandledKeeps
  <2> QED
    BY <1>0, <2>2, <2>3, <2>4, <2>5, EventsStep DEF Living
<1>4. CASE ctl'.pc = "record"
  <2>1. CASE ctl' = ctl
    BY <1>3, <1>4, <2>1
  <2>2. CASE ctl' # ctl
    <3>1. ctl # Idle /\ UNCHANGED <<objCache, events>> /\ ctl'.ver \in {Seen, Len(objLog) + 1}
      BY <1>4, <2>2, RecordStep
    <3>2. RecordFits' /\ ReadCurrent' /\ ctl' # Idle
      BY <1>4, RecordFitsStep, ReadCurrentStep DEF Idle
    <3>3. ctl'.ver \in 1..Len(objLog') /\ Synced(objLog[ctl.ver])'
      BY <1>4, <3>2 DEF RecordFits, ReadCurrent, SameSpec, Synced, Idle
    <3>4. Handled' = Handled
      BY <3>1 DEF Handled
    <3>5. Handled' <= ctl'.ver
      BY <1>0, <1>2, <3>1, <3>4
    <3> QED
      BY <3>3, <3>5
  <2> QED
    BY <2>1, <2>2
<1>5. CASE Content'
  <2>1. CASE Content \/ RecordVersion
    BY <1>3, <2>1 DEF RecordVersion
  <2>2. CASE Create /\ UNCHANGED <<objLog, objCache, events>> /\ "record" \in overlooked'
    <3>1. Content' => ctl'.pc = "idle" \/ (ctl'.pc = "report" /\ ctl'.ok)
      BY DEF Content, Idle
    <3>2. Synced(objLog[Seen])
      BY <1>0, <1>5, <2>2, <3>1 DEF Create, Written, Goto, Report
    <3>3. Handled' = Handled
      BY <2>2 DEF Handled
    <3> QED
      BY <1>1, <1>2, <3>2, <3>3
  <2> QED
    BY <1>5, <2>1, <2>2, ContentStep
<1> QED
  BY <1>4, <1>5

LEMMA SyncInit == ASSUME ExecutionAssumption, Init PROVE SyncInv
<1>1. DeletionStays /\ PhaseFits
  BY GoneInit DEF GoneInv
<1>2. events = <<>> /\ Len(events) = 0 /\ ctl = Idle /\ ctl.pc # "record" /\ queued = TRUE
  BY DEF Init, Idle
<1>3. EventsChained /\ ReadCurrent /\ RecordFits /\ Recorded /\ Promised
  BY <1>2 DEF EventsChained, ReadCurrent, RecordFits, Recorded, Promised
<1> QED
  BY <1>1, <1>3 DEF SyncInv

\* Once the execution controller has nothing left to do for a Work, the member has
\* its manifest: through any updates of the Work, edits, deletions and foreign objects
\* in the member, conflicts, failed calls, restarts and stale caches, except where the
\* code overlooks the object in one of the ways the history names (tryCreateOrUpdate-
\* Workload, ObjectWatcher.Create and the handlers' version check).
THEOREM RestMeansSynced == Spec => []QuietMeansSynced
<1>1. Init => IInv /\ SyncInv
  BY InitInv, SyncInit, ExecutionAssumption
<1>2. IInv /\ SyncInv /\ [Next]_vars => (IInv /\ SyncInv)'
  <2> SUFFICES ASSUME IInv, SyncInv, [Next]_vars PROVE (IInv /\ SyncInv)'
    OBVIOUS
  <2>1. DeletionStays' /\ PhaseFits'
    BY DeletionStaysStep, PhaseFitsStep, ExecutionAssumption DEF SyncInv
  <2>2. EventsChained' /\ ReadCurrent' /\ RecordFits'
    BY EventsChainedStep, ReadCurrentStep, RecordFitsStep, ExecutionAssumption DEF SyncInv
  <2>3. Recorded' /\ Promised'
    BY RecordedStep, PromisedStep, ExecutionAssumption
  <2> QED
    BY <2>1, <2>2, <2>3, NextInv, ExecutionAssumption DEF SyncInv
<1>3. IInv /\ SyncInv => QuietMeansSynced
  <2> SUFFICES ASSUME TypeOK, Promised, Quiet, Work # Absent, ~Work.deleting, "object" \notin overlooked
               PROVE  Synced(Obj)
    BY DEF IInv, SyncInv, QuietMeansSynced
  <2>1. Content /\ ~queued /\ Living /\ Handled = Len(objLog)
    BY DEF Quiet, Content, Living, Work, CachedWork, Handled
  <2>2. PICK s \in 1..Len(objLog) : Len(objLog) <= s /\ Synced(objLog[s])
    BY <2>1 DEF Promised
  <2>3. s = Len(objLog)
    BY <2>2, Versions
  <2> QED
    BY <2>2, <2>3 DEF Obj
<1> QED
  BY <1>1, <1>2, <1>3, PTL DEF Spec

-----------------------------------------------------------------------------
(***************************************************************************)
(* A status controller at rest has reported the health of the object.  Its *)
(* promise is about the versions from the one in the cache on: every move  *)
(* of the cache to an object of Karmada's queues the key.                  *)
(***************************************************************************)
\* The health that is written or about to be.
Shown == IF stat = "idle" THEN Work.health ELSE stat

Reported ==
    /\ statusOn /\ ~statusQ /\ "status" \notin overlooked
    /\ Work # Absent /\ ~Work.deleting
    /\ objCache # 0 /\ Annotated(objLog[objCache])
    => \E s \in 1..Len(objLog) :
          objCache <= s /\ (Annotated(objLog[s]) => objLog[s].health = Shown)

\* Who moves what the status controller goes by.
LEMMA StatusStep ==
    ASSUME ExecutionAssumption, IInv, [Next]_vars
    PROVE  \/ /\ UNCHANGED <<statusOn, statusQ, stat, objCache>>
              /\ "status" \notin overlooked' => "status" \notin overlooked
           \/ ListObject \/ WatchObject \/ BuildResourceInformers \/ SyncWorkStatus \/ ReflectStatus
           \/ ~statusOn'
<1> DEFINE Aside == /\ UNCHANGED <<statusOn, statusQ, stat, objCache>>
                    /\ "status" \notin overlooked' => "status" \notin overlooked
<1>1. CASE ExecutionController
  <2>1. CASE Reconcile \/ RecordVersion
    BY <2>1 DEF Reconcile, RecordVersion, LooksAgain, statusVars, memberVars
  <2>2. CASE Create \/ Update \/ UpdateAppliedCondition \/ RemoveFinalizer
    BY <2>2 DEF Create, Update, UpdateAppliedCondition, RemoveFinalizer, statusVars, memberVars
  <2>3. CASE TryCreateOrUpdateWorkload \/ TryDeleteWorkload \/ Delete \/ CleanupPolicyClaimMetadata \/ Release
    BY <2>3 DEF TryCreateOrUpdateWorkload, TryDeleteWorkload, Delete, CleanupPolicyClaimMetadata,
       Release, statusVars, memberVars
  <2> QED
    BY <1>1, <2>1, <2>2, <2>3 DEF ExecutionController
<1>2. CASE WatchWork \/ HandleEvent
  BY <1>2 DEF WatchWork, HandleEvent, LooksAgain, Overlooks, statusVars, memberVars
<1>3. CASE Environment
  <2>1. CASE CallFails \/ RemoveWork \/ DeleteObject \/ ClusterUnready \/ ClusterReady
    BY <2>1 DEF CallFails, RemoveWork, DeleteObject, ClusterUnready, ClusterReady, MemberWrites,
       statusVars, memberVars
  <2>2. ASSUME NEW m \in Manifests, UpdateWork(m) \/ EditObject(m) \/ CreateForeignObject(m)
        PROVE  Aside
    BY <2>2 DEF UpdateWork, EditObject, CreateForeignObject, MemberWrites, statusVars, memberVars
  <2>3. ASSUME NEW h \in Healths, ChangeHealth(h) PROVE Aside
    BY <2>3 DEF ChangeHealth, MemberWrites, statusVars
  <2>4. CASE Restart
    BY <2>4 DEF Restart
  <2> QED
    BY <1>3, <2>1, <2>2, <2>3, <2>4 DEF Environment
<1>4. CASE UNCHANGED vars
  BY <1>4 DEF vars, statusVars, memberVars
<1> QED
  BY <1>1, <1>2, <1>3, <1>4 DEF Next, Informers, StatusController

LEMMA ReportedStep ==
    ASSUME ExecutionAssumption, IInv, DeletionStays, Reported, [Next]_vars
    PROVE  Reported'
<1> TypeOK
  BY DEF IInv
<1> SUFFICES ASSUME statusOn', ~statusQ', "status" \notin overlooked', Work' # Absent, ~Work'.deleting,
                    objCache' # 0, Annotated(objLog[objCache])'
             PROVE  \E s \in 1..Len(objLog') :
                       objCache' <= s /\ (Annotated(objLog[s])' => objLog'[s].health = Shown')
  BY DEF Reported
<1>0. /\ \A i \in 1..Len(objLog) : objLog'[i] = objLog[i]
      /\ Len(objLog) \in Nat /\ Len(objLog') \in Nat /\ Len(objLog) <= Len(objLog')
      /\ objCache \in 0..Len(objLog)
  BY ObjectKept DEF TypeOK, MemberOK
<1>1. ASSUME objCache' = objCache, NEW s \in 1..Len(objLog), objCache <= s,
             Annotated(objLog[s]) => objLog[s].health = Shown'
      PROVE  \E i \in 1..Len(objLog') :
                objCache' <= i /\ (Annotated(objLog[i])' => objLog'[i].health = Shown')
  <2>1. s \in 1..Len(objLog') /\ objLog'[s] = objLog[s]
    BY <1>0
  <2> QED
    BY <1>1, <2>1 DEF Annotated
<1>2. ASSUME statusOn, ~statusQ, "status" \notin overlooked, Work # Absent, ~Work.deleting,
             objCache' = objCache, Shown' = Shown
      PROVE  \E i \in 1..Len(objLog') :
                objCache' <= i /\ (Annotated(objLog[i])' => objLog'[i].health = Shown')
  <2>1. objCache # 0 /\ Annotated(objLog[objCache])
    BY <1>0, <1>2 DEF Annotated
  <2>2. PICK s \in 1..Len(objLog) :
           objCache <= s /\ (Annotated(objLog[s]) => objLog[s].health = Shown)
    BY <1>2, <2>1 DEF Reported
  <2> QED
    BY <1>1, <1>2, <2>2
<1>3. CASE /\ UNCHANGED <<statusOn, statusQ, stat, objCache>>
           /\ "status" \notin overlooked' => "status" \notin overlooked
  <2>1. Work # Absent /\ ~Work.deleting /\ Shown' = Shown
    <3>1. CASE UNCHANGED workLog
      BY <1>3, <3>1 DEF Work, Shown
    <3>2. ASSUME NEW w \in WorkState \cup {Absent}, workLog' = Append(workLog, w), NextWork(w),
                 UNCHANGED workCache
          PROVE  Work # Absent /\ ~Work.deleting /\ Shown' = Shown
      <4>1. Work' = w
        BY <3>2, WorkWrite
      <4>2. w # Absent /\ w \in WorkState /\ Work \in WorkState
        BY <3>2, <4>1, Versions DEF NextWork
      <4>3. ~Work.deleting /\ (w.health = Work.health \/ stat # "idle")
        BY <3>2, <4>1, <4>2 DEF NextWork, WorkState
      <4> QED
        BY <1>3, <3>2, <4>1, <4>3 DEF Shown, NextWork
    <3> QED
      BY <3>1, <3>2, WorkStep
  <2> QED
    BY <1>2, <1>3, <2>1
<1>4. CASE ListObject
  <2>1. objCache' = Len(objLog) /\ UNCHANGED <<objLog, statusOn>>
    BY <1>4 DEF ListObject
  <2>2. Annotated(Obj)
    BY <2>1 DEF Annotated, Obj
  <2>3. statusQ' = (statusQ \/ (statusOn /\ Annotated(Obj))) /\ statusOn
    BY <1>4, <2>1 DEF ListObject
  <2>4. statusQ'
    BY <2>2, <2>3, Zenon
  <2> QED
    BY <2>4
<1>5. CASE WatchObject
  <2>1. objCache' = objCache + 1 /\ UNCHANGED <<objLog, statusOn>>
    BY <1>5 DEF WatchObject
  <2>2. Annotated(objLog[objCache + 1]) /\ objLog[objCache + 1] # Absent
    BY <2>1 DEF Annotated
  <2> QED
    BY <1>5, <2>1, <2>2 DEF WatchObject
<1>6. CASE BuildResourceInformers
  <2>1. UNCHANGED <<workLog, objLog, objCache, stat, overlooked>>
    BY <1>6 DEF BuildResourceInformers, workVars, memberVars
  <2>2. Annotated(objLog[objCache]) /\ objCache # 0
    BY <2>1 DEF Annotated
  <2>3. statusOn /\ ~statusQ
    BY <1>6, <2>2 DEF BuildResourceInformers, TypeOK, QueuesOK
  <2>4. Shown' = Shown /\ Work' = Work
    BY <2>1 DEF Shown, Work
  <2> QED
    BY <1>2, <2>1, <2>3, <2>4
<1>7. CASE SyncWorkStatus
  <2>1. UNCHANGED <<workLog, workCache, objLog, objCache>>
    BY <1>7 DEF SyncWorkStatus, workVars, memberVars
  <2>2. Seen \in 1..Len(objLog) /\ objCache <= Seen
    BY <1>0, Versions DEF TypeOK, MemberOK, Seen
  <2>3. CachedWork # Absent /\ ~CachedWork.deleting
    <3>1. workCache \in 1..Len(workLog) /\ Len(workLog) \in 1..Len(workLog) /\ workCache <= Len(workLog)
      BY DEF TypeOK, WorkOK
    <3>2. ~Ending(workLog[Len(workLog)])
      BY <2>1 DEF Ending, Work
    <3> QED
      BY <3>1, <3>2 DEF DeletionStays, Ending, CachedWork
  <2>4. Annotated(objLog[Seen]) => stat' = objLog[Seen].health /\ stat' # "idle"
    <3>1. ASSUME Annotated(objLog[Seen]) PROVE objLog[Seen].health # "idle"
      BY <3>1, Versions DEF Annotated, Object, Healths
    <3> QED
      BY <1>7, <2>3, <3>1 DEF SyncWorkStatus
  <2>5. Annotated(objLog[Seen]) => objLog[Seen].health = Shown'
    BY <2>4 DEF Shown
  <2> QED
    BY <1>1, <2>1, <2>2, <2>5
<1>8. CASE ReflectStatus
  <2>1. /\ stat # "idle" /\ stat' = "idle" /\ UNCHANGED <<objLog, objCache, statusOn>>
        /\ CachedWork # Absent /\ UpdateStatus(WithHealth) /\ UNCHANGED statusQ
        /\ Overlooks("status", WithHealth = CachedWork /\ Work # Absent /\ Work.health # stat)
    BY <1>8 DEF ReflectStatus, memberVars
  <2>2. "status" \notin overlooked
    BY <2>1 DEF Overlooks
  <2>3. Work # Absent /\ ~Work.deleting /\ Work'.health = stat
    <3>1. CASE WithHealth = CachedWork
      <4>1. Work' = Work
        BY <2>1, <3>1 DEF UpdateStatus, Work
      <4> QED
        BY <2>1, <3>1, <4>1 DEF Overlooks
    <3>2. CASE WithHealth # CachedWork
      <4>1. workCache = Len(workLog) /\ workLog' = Append(workLog, WithHealth)
        BY <2>1, <3>2 DEF UpdateStatus
      <4>2. CachedWork \in WorkState /\ CachedWork = Work
        BY <2>1, <4>1, Versions DEF CachedWork, Work
      <4>3. WithHealth \in WorkState /\ WithHealth.deleting = Work.deleting /\ WithHealth.health = stat
        BY <2>1, <4>2 DEF WithHealth, WorkState, TypeOK, QueuesOK
      <4>4. Work' = WithHealth
        BY <4>1, <4>3, AppendKeeps DEF TypeOK, WorkOK, Work
      <4> QED
        BY <2>1, <4>2, <4>3, <4>4
    <3> QED
      BY <3>1, <3>2
  <2>4. Shown' = Shown
    BY <2>1, <2>3 DEF Shown
  <2> QED
    BY <1>2, <2>1, <2>2, <2>3, <2>4
<1> QED
  BY <1>3, <1>4, <1>5, <1>6, <1>7, <1>8, StatusStep

\* Once the status controller has nothing left to do either, the Work reports the
\* health of the object: through any number of changes of the status, deletions,
\* conflicts, restarts and stale caches, except for an update helper.UpdateStatus
\* leaves out because a stale copy of the Work holds that status already.
THEOREM RestMeansReported == Spec => []QuietMeansReported
<1>1. Init => IInv /\ DeletionStays /\ Reported
  <2> SUFFICES ASSUME Init PROVE IInv /\ DeletionStays /\ Reported
    OBVIOUS
  <2>1. Reported
    BY DEF Init, Reported
  <2> QED
    BY <2>1, InitInv, GoneInit, ExecutionAssumption DEF GoneInv
<1>2. IInv /\ DeletionStays /\ Reported /\ [Next]_vars => (IInv /\ DeletionStays /\ Reported)'
  BY NextInv, DeletionStaysStep, ReportedStep, ExecutionAssumption
<1>3. IInv /\ Reported => QuietMeansReported
  <2> SUFFICES ASSUME TypeOK, Reported, Quiet, statusOn, ~statusQ, stat = "idle", Work # Absent,
                      ~Work.deleting, "status" \notin overlooked, Annotated(Obj)
               PROVE  Work.health = Obj.health
    BY DEF IInv, QuietMeansReported
  <2>1. objCache = Len(objLog) /\ objCache # 0 /\ Annotated(objLog[objCache])
    BY Versions DEF Quiet, Obj
  <2>2. PICK s \in 1..Len(objLog) :
           objCache <= s /\ (Annotated(objLog[s]) => objLog[s].health = Shown)
    BY <2>1 DEF Reported
  <2>3. s = Len(objLog)
    BY <2>1, <2>2, Versions
  <2> QED
    BY <2>1, <2>2, <2>3 DEF Shown, Obj
<1> QED
  BY <1>1, <1>2, <1>3, PTL DEF Spec
=============================================================================
