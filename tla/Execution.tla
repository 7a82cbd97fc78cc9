------------------------------ MODULE Execution ------------------------------
(***************************************************************************)
(* One Work, the object it describes in one member cluster, and the two    *)
(* controllers between them: the execution controller applies the manifest *)
(* (through the object watcher), the work status controller reports the    *)
(* status of the object.                                                   *)
(*                                                                         *)
(* Both API servers are logs: the versions an object has had, the last one *)
(* being stored and its position being its resourceVersion.  A cache is a  *)
(* position.  An informer updates its cache first and calls the handlers   *)
(* later, so the positions of the handlers' events are a queue of their    *)
(* own.  Controllers that share a process and a queue key never run twice  *)
(* at once; between two reads of a cache everybody else may move.          *)
(***************************************************************************)
EXTENDS Integers, Sequences

CONSTANTS
    Manifests,   \* contents of the object, from the Work or from somebody else
    Overwrite,   \* the Work's conflict resolution is Overwrite
    Preserve,    \* spec.preserveResourcesOnDeletion
    Warm,        \* other Works have the member's informer running already
    Reports,     \* the work status controller is enabled
    Moves,       \* ways the outside may move: how often each kind of move happens
    Absent       \* no object

Healths == {"Healthy", "Unhealthy"}

\* Changes and removal of the Work; edits, deletions, foreign objects and
\* status changes in the member; an unready cluster; restarts; failed calls.
Kinds == {"update", "remove", "edit", "delete", "foreign", "health",
          "unready", "restart", "fail"}

\* The object in the member, with or without the label of Karmada.
Object == [manifest : Manifests, managed : BOOLEAN, health : Healths]

WorkState == [manifest : Manifests, deleting : BOOLEAN, dispatching : BOOLEAN,
              applied : {"Unknown", "True", "False"},
              health : Healths \cup {"Unknown"}]

ASSUME ExecutionAssumption ==
    /\ Manifests # {}
    /\ Overwrite \in BOOLEAN /\ Preserve \in BOOLEAN
    /\ Warm \in BOOLEAN /\ Reports \in BOOLEAN
    /\ Moves \subseteq [Kinds -> Nat]
    /\ Absent \notin Object \cup WorkState

VARIABLES
    workLog,     \* versions of the Work
    workCache,   \* the version in the controllers' cache
    queued,      \* the Work is in the execution controller's queue
    ctl,         \* the reconciliation under way, or Idle
    objLog,      \* versions of the object in the member
    objCache,    \* the version in the informer's cache, 0 before the first list
    informer,    \* "off", "started", or "synced" once a controller has noticed the sync
    events,      \* <<old, new>> versions the execution handler has not seen yet
    record,      \* VersionRecord of the object watcher, 0 if there is none
    statusOn,    \* the status controller's handler is registered
    statusQ,     \* the object is in the status controller's queue
    stat,        \* the health a status worker is about to write, or "idle"
    ready,       \* the cluster is ready
    left,        \* outside moves left
    overlooked   \* history: what the code may have passed over and will not come back to

workVars   == <<workLog, workCache>>
memberVars == <<objLog, objCache, events>>
statusVars == <<statusOn, statusQ, stat>>
vars == <<workVars, queued, ctl, memberVars, informer, record, statusVars, ready, left, overlooked>>

Work       == workLog[Len(workLog)]
CachedWork == workLog[workCache]
Obj        == objLog[Len(objLog)]

\* The version GetObjectFromCache returns: the lister's once the informer is
\* known to be synced, a live one before.
Seen == IF informer = "synced" THEN objCache ELSE Len(objLog)

Idle == [pc |-> "idle"]

\* A reconciliation: the version of the Work it read, the resourceVersion in
\* the object it sends or has sent, and whether the manifest was applied.
Reconciliation ==
    [pc : {"apply", "create", "update", "record", "report",
           "delete", "deleteCall", "release", "finalizer"},
     at : Nat, ver : Nat, ok : BOOLEAN]

Goto(pc, v) == [pc |-> pc, at |-> ctl.at, ver |-> v, ok |-> FALSE]
Report(ok)  == [pc |-> "report", at |-> ctl.at, ver |-> ctl.ver, ok |-> ok]

\* What a create or an update of the reconciliation leaves in the member.
Desired ==
    [manifest |-> workLog[ctl.at].manifest, managed |-> TRUE,
     health |-> IF Obj = Absent THEN "Unhealthy" ELSE Obj.health]

Init ==
    /\ \E m \in Manifests :
          workLog = <<[manifest |-> m, deleting |-> FALSE, dispatching |-> FALSE,
                       applied |-> "Unknown", health |-> "Unknown"]>>
    /\ workCache = 1
    /\ queued = TRUE /\ ctl = Idle
    /\ objLog = <<Absent>>
    /\ objCache = (IF Warm THEN 1 ELSE 0)
    /\ informer = (IF Warm THEN "synced" ELSE "off")
    /\ events = <<>> /\ record = 0
    /\ statusOn = FALSE /\ statusQ = FALSE /\ stat = "idle"
    /\ ready = TRUE
    /\ left \in Moves
    /\ overlooked = {}

Move(k) == left[k] > 0 /\ left' = [left EXCEPT ![k] = @ - 1]

\* The object is what the Work, as the controller knows it, asks for.
Synced(o) ==
    /\ CachedWork # Absent /\ o # Absent
    /\ o.managed /\ o.manifest = CachedWork.manifest

(***************************************************************************)
(* The history of what was overlooked.  No guard reads it.                 *)
(*   "object": the controller was content with an object that is not what  *)
(*     the Work asks for, or was not woken by the event that showed it one *)
(*   "record": it was content without recording the version it saw         *)
(*   "status": a status was not written because a stale copy of the Work   *)
(*     had it already                                                      *)
(***************************************************************************)
Overlooks(what, when) == overlooked' = IF when THEN overlooked \cup {what} ELSE overlooked

LooksAgain(what) == overlooked' = overlooked \ {what}

\* No reconciliation is waiting or under way that still reads the object.
LooksNoMore == ~queued /\ ctl.pc \in {"idle", "record", "report"}

-----------------------------------------------------------------------------
(***************************************************************************)
(* Execution controller: Reconcile.                                        *)
(***************************************************************************)
\* Mutant: an error is dropped.
FailsForgets == ctl' = Idle /\ UNCHANGED queued

\* An error puts the key back into the rate-limited queue.
Fails == ctl' = Idle /\ queued' = TRUE

\* RegisterInformerHandlerAndCheckSynced.
RegisterInformer ==
    informer' = IF informer = "off" THEN "started"
                ELSE IF objCache # 0 THEN "synced" ELSE informer

Start(pc) ==
    /\ ctl' = [pc |-> pc, at |-> workCache, ver |-> 0, ok |-> FALSE]
    /\ queued' = FALSE

\* helper.UpdateStatus: an update that changes nothing in the cached copy is
\* not sent, and one that is sent holds the optimistic lock.
UpdateStatus(w) ==
    IF w = CachedWork THEN UNCHANGED workLog
    ELSE /\ workCache = Len(workLog)
         /\ workLog' = Append(workLog, w)

\* An update that fails is an error of Reconcile.
UpdateWorkDispatchingConditionIfNeeded ==
    UpdateStatus([CachedWork EXCEPT !.dispatching = TRUE])

\* A cluster that is not ready is an error for both ways, and the key stays,
\* but the Dispatching condition has been written by then.
Reconcile ==
    /\ ctl = Idle /\ queued
    /\ \/ /\ CachedWork = Absent
          /\ queued' = FALSE
          /\ UNCHANGED <<workLog, ctl, informer, overlooked>>
       \/ /\ CachedWork # Absent /\ CachedWork.deleting
          /\ Preserve \/ ready
          /\ Start("delete")
          /\ UNCHANGED <<workLog, informer, overlooked>>
       \/ /\ CachedWork # Absent /\ ~CachedWork.deleting
          /\ UpdateWorkDispatchingConditionIfNeeded
          /\ IF ready
             THEN /\ Start("apply")
                  /\ RegisterInformer
                  /\ LooksAgain("object")
             ELSE /\ ~CachedWork.dispatching
                  /\ UNCHANGED <<queued, ctl, informer, overlooked>>
    /\ UNCHANGED <<workCache, memberVars, record, statusVars, ready, left>>

\* allowUpdate: the object is managed, or the Work may overwrite it.
AllowUpdate(o) == o.managed \/ Overwrite

\* tryCreateOrUpdateWorkload up to the call, with ObjectWatcher.Update: an
\* equal object only has its version recorded.
TryCreateOrUpdateWorkload ==
    LET o == objLog[Seen] IN
    /\ ctl.pc = "apply"
    /\ ctl' = IF o = Absent THEN Goto("create", ctl.ver)
              ELSE IF ~AllowUpdate(o) THEN Report(FALSE)
              ELSE IF o.managed /\ o.manifest = workLog[ctl.at].manifest
                   THEN Goto("record", Seen)
              ELSE Goto("update", Seen)
    /\ UNCHANGED <<workVars, queued, memberVars, informer, record, statusVars, ready, left, overlooked>>

Written == Goto("record", Len(objLog) + 1)

\* ObjectWatcher.Create looks into the cache once more and is content with
\* whatever it finds there.  The API server refuses an object that exists, or
\* one that carries a resourceVersion from an update that was in conflict.
Create ==
    /\ ctl.pc = "create"
    /\ \/ /\ objLog[Seen] # Absent
          /\ ctl' = Report(TRUE)
          /\ overlooked' = overlooked \cup {"record"} \cup
                (IF queued \/ Synced(objLog[Seen]) THEN {} ELSE {"object"})
          /\ UNCHANGED objLog
       \/ /\ objLog[Seen] = Absent /\ Obj = Absent /\ ctl.ver = 0
          /\ objLog' = Append(objLog, Desired)
          /\ ctl' = Written
          /\ UNCHANGED overlooked
       \/ /\ objLog[Seen] = Absent /\ (Obj # Absent \/ ctl.ver # 0)
          /\ ctl' = Report(FALSE)
          /\ UNCHANGED <<objLog, overlooked>>
    /\ UNCHANGED <<workVars, queued, objCache, events, informer, record, statusVars, ready, left>>

\* Mutant: the update carries no resourceVersion.
UpdateUnlocked ==
    /\ ctl.pc = "update" /\ Obj # Absent
    /\ objLog' = Append(objLog, Desired)
    /\ ctl' = Written
    /\ UNCHANGED <<workVars, queued, objCache, events, informer, record, statusVars, ready, left, overlooked>>

\* The update of ObjectWatcher.Update, under the resourceVersion that was
\* read.  A conflict is retried a few times from the cache.
Update ==
    /\ ctl.pc = "update"
    /\ \/ /\ ctl.ver = Len(objLog)
          /\ objLog' = Append(objLog, Desired)
          /\ ctl' = Written
       \/ /\ ctl.ver # Len(objLog)
          /\ \/ Obj # Absent /\ ctl' = Goto("apply", ctl.ver)
             \/ ctl' = Report(FALSE)
          /\ UNCHANGED objLog
    /\ UNCHANGED <<workVars, queued, objCache, events, informer, record, statusVars, ready, left, overlooked>>

\* recordVersion comes after the call: handlers may run in between.
RecordVersion ==
    /\ ctl.pc = "record"
    /\ record' = ctl.ver
    /\ ctl' = Report(TRUE)
    /\ LooksAgain("record")
    /\ UNCHANGED <<workVars, queued, memberVars, informer, statusVars, ready, left>>

\* The Work is gone, or still in conflict after the retries.
UpdateStatusFails(w) ==
    CachedWork # Absent => w # CachedWork /\ workCache # Len(workLog)

WithApplied == [CachedWork EXCEPT !.applied = IF ctl.ok THEN "True" ELSE "False"]

\* updateAppliedCondition, and the result of Reconcile.
UpdateAppliedCondition ==
    /\ ctl.pc = "report"
    /\ \/ /\ CachedWork # Absent
          /\ UpdateStatus(WithApplied)
          /\ ctl' = Idle
          /\ queued' = (queued \/ ~ctl.ok)
       \/ /\ UpdateStatusFails(WithApplied)
          /\ Fails
          /\ UNCHANGED workLog
    /\ UNCHANGED <<workCache, memberVars, informer, record, statusVars, ready, left, overlooked>>

-----------------------------------------------------------------------------
(***************************************************************************)
(* Execution controller: a Work that is being deleted.                     *)
(***************************************************************************)
\* ObjectWatcher.Delete up to the call: what the cache does not show, or shows
\* as unmanaged, is left alone.
TryDeleteWorkload ==
    LET o == objLog[Seen] IN
    /\ ctl.pc = "delete" /\ ~Preserve
    /\ ctl' = Goto(IF o # Absent /\ o.managed THEN "deleteCall" ELSE "finalizer", 0)
    /\ UNCHANGED <<workVars, queued, memberVars, informer, record, statusVars, ready, left, overlooked>>

\* The object is deleted by its name, whatever it is by now.
Delete ==
    /\ ctl.pc = "deleteCall"
    /\ objLog' = IF Obj = Absent THEN objLog ELSE Append(objLog, Absent)
    /\ record' = 0
    /\ ctl' = Goto("finalizer", ctl.ver)
    /\ UNCHANGED <<workVars, queued, objCache, events, informer, statusVars, ready, left, overlooked>>

\* Mutant: an object the cache does not show needs no cleanup.
CleanupPolicyClaimMetadataOfNone ==
    LET o == objLog[Seen] IN
    /\ ctl.pc = "delete" /\ Preserve
    /\ IF o = Absent THEN ctl' = Goto("finalizer", Seen) /\ UNCHANGED queued
       ELSE IF ~AllowUpdate(o) THEN Fails
       ELSE /\ UNCHANGED queued
            /\ ctl' = IF ~o.managed /\ o.manifest = workLog[ctl.at].manifest
                      THEN Goto("finalizer", Seen)
                      ELSE Goto("release", Seen)
    /\ record' = IF ctl'.pc = "finalizer" THEN Seen ELSE record
    /\ UNCHANGED <<workVars, memberVars, informer, statusVars, ready, left, overlooked>>

\* cleanupPolicyClaimMetadata up to the call: an error if there is no object,
\* or one that may not be updated; nothing to do if it is equal without labels.
CleanupPolicyClaimMetadata ==
    LET o == objLog[Seen] IN
    /\ ctl.pc = "delete" /\ Preserve
    /\ IF o = Absent THEN Fails
       ELSE IF ~AllowUpdate(o) THEN Fails
       ELSE /\ UNCHANGED queued
            /\ ctl' = IF ~o.managed /\ o.manifest = workLog[ctl.at].manifest
                      THEN Goto("finalizer", Seen)
                      ELSE Goto("release", Seen)
    /\ record' = IF ctl'.pc = "finalizer" THEN Seen ELSE record
    /\ UNCHANGED <<workVars, memberVars, informer, statusVars, ready, left, overlooked>>

\* Its update takes the labels and annotations of Karmada off the object.
Release ==
    /\ ctl.pc = "release"
    /\ \/ /\ ctl.ver = Len(objLog)
          /\ objLog' = Append(objLog, [Desired EXCEPT !.managed = FALSE])
          /\ record' = Len(objLog) + 1
          /\ ctl' = Goto("finalizer", ctl.ver)
          /\ UNCHANGED queued
       \/ /\ ctl.ver # Len(objLog)
          /\ Fails
          /\ UNCHANGED <<objLog, record>>
    /\ UNCHANGED <<workVars, objCache, events, informer, statusVars, ready, left, overlooked>>

\* The update that removes the finalizer holds the lock of the copy read at
\* the start; without finalizer the API server removes the Work.
RemoveFinalizer ==
    /\ ctl.pc = "finalizer"
    /\ \/ /\ ctl.at = Len(workLog)
          /\ workLog' = Append(workLog, Absent)
          /\ ctl' = Idle
          /\ UNCHANGED queued
       \/ /\ ctl.at # Len(workLog)
          /\ Fails
          /\ UNCHANGED workLog
    /\ UNCHANGED <<workCache, memberVars, informer, record, statusVars, ready, left, overlooked>>

\* A call to the member reports an error, whether or not it took effect.
CallFails ==
    /\ Move("fail")
    /\ \/ /\ ctl.pc = "create" /\ objLog[Seen] = Absent
          /\ \/ UNCHANGED objLog
             \/ Obj = Absent /\ ctl.ver = 0 /\ objLog' = Append(objLog, Desired)
          /\ ctl' = Report(FALSE)
          /\ UNCHANGED queued
       \/ /\ ctl.pc = "update"
          /\ \/ UNCHANGED objLog
             \/ ctl.ver = Len(objLog) /\ objLog' = Append(objLog, Desired)
          /\ ctl' = Report(FALSE)
          /\ UNCHANGED queued
       \/ /\ ctl.pc = "deleteCall"
          /\ \/ UNCHANGED objLog
             \/ Obj # Absent /\ objLog' = Append(objLog, Absent)
          /\ Fails
       \/ /\ ctl.pc = "release"
          /\ \/ UNCHANGED objLog
             \/ /\ ctl.ver = Len(objLog)
                /\ objLog' = Append(objLog, [Desired EXCEPT !.managed = FALSE])
          /\ Fails
    /\ UNCHANGED <<workVars, objCache, events, informer, record, statusVars, ready, overlooked>>

-----------------------------------------------------------------------------
(***************************************************************************)
(* Events.                                                                 *)
(***************************************************************************)
\* The Work's informer.  The execution controller ignores updates that leave
\* the generation alone, which a change of spec and a deletion raise.
WatchWork ==
    LET old == CachedWork
        new == workLog[workCache + 1] IN
    /\ workCache < Len(workLog)
    /\ workCache' = workCache + 1
    /\ queued' = \/ queued
                 \/ new = Absent
                 \/ old.manifest # new.manifest
                 \/ old.deleting # new.deleting
    /\ UNCHANGED <<workLog, ctl, memberVars, informer, record, statusVars, ready, left, overlooked>>

\* Whether the status controller's key function accepts the object.
Annotated(o) == o # Absent /\ o.managed

\* The member's informer: the first list, ...
ListObject ==
    /\ informer # "off" /\ objCache = 0
    /\ objCache' = Len(objLog)
    /\ events' = IF Obj = Absent THEN events ELSE Append(events, <<0, Len(objLog)>>)
    /\ statusQ' = (statusQ \/ (statusOn /\ Annotated(Obj)))
    /\ Overlooks("object", Obj = Absent /\ LooksNoMore)
    /\ UNCHANGED <<workVars, queued, ctl, objLog, informer, record, statusOn, stat, ready, left>>

\* ... then one change after the other.  The status handlers queue the key.
WatchObject ==
    /\ objCache # 0 /\ objCache < Len(objLog)
    /\ objCache' = objCache + 1
    /\ events' = Append(events, <<objCache, objCache + 1>>)
    /\ statusQ' = \/ statusQ
                  \/ /\ statusOn
                     /\ Annotated(IF objLog[objCache + 1] = Absent THEN objLog[objCache]
                                  ELSE objLog[objCache + 1])
    /\ UNCHANGED <<workVars, queued, ctl, objLog, informer, record, statusOn, stat, ready, left, overlooked>>

\* The version of the event is one the controller knows nothing of yet.
IsNews(v) == record # 0 /\ v # record

OnAdd(o, v) == o.managed /\ IsNews(v)

\* A change of the status alone is pruned away.
OnUpdate(old, o, v) ==
    /\ old.managed /\ IsNews(v)
    /\ old.manifest # o.manifest \/ old.managed # o.managed

\* Mutant: a deletion waits for a version record, too.
OnDeleteKnown(old) == old.managed /\ record # 0

OnDelete(old) == old.managed

\* The handlers cannot tell the event from one the controller caused itself, or
\* do not look at it at all.
CannotTell(new) ==
    \/ ctl.pc = "record"
    \/ "record" \in overlooked
    \/ Head(events)[1] = 0 /\ ~new.managed

\* The execution controller's handlers.
HandleEvent ==
    LET v   == Head(events)[2]
        old == IF Head(events)[1] = 0 THEN Absent ELSE objLog[Head(events)[1]]
        new == objLog[v] IN
    /\ events # <<>>
    /\ events' = Tail(events)
    /\ queued' = (queued \/ IF old = Absent THEN OnAdd(new, v)
                            ELSE IF new = Absent THEN OnDelete(old)
                            ELSE OnUpdate(old, new, v))
    /\ IF Synced(new) THEN LooksAgain("object")
       ELSE Overlooks("object", ~queued' /\ LooksNoMore /\ new # Absent /\ CannotTell(new))
    /\ UNCHANGED <<workVars, ctl, objLog, objCache, informer, record, statusVars, ready, left>>

-----------------------------------------------------------------------------
(***************************************************************************)
(* Work status controller.                                                 *)
(***************************************************************************)
\* Reconcile, buildResourceInformers: the handler is registered once the Work
\* is applied, and told of an object that is in the cache already.
BuildResourceInformers ==
    /\ Reports
    /\ ~statusOn \/ (informer = "started" /\ objCache # 0)
    /\ CachedWork # Absent /\ ~CachedWork.deleting /\ CachedWork.applied = "True"
    /\ ready
    /\ RegisterInformer
    /\ statusOn' = TRUE
    /\ statusQ' = \/ statusQ
                  \/ ~statusOn /\ objCache # 0 /\ Annotated(objLog[objCache])
    /\ UNCHANGED <<workVars, queued, ctl, memberVars, record, stat, ready, left, overlooked>>

\* syncWorkStatus reads the object, then the Work.
SyncWorkStatus ==
    LET o == objLog[Seen] IN
    /\ statusQ /\ stat = "idle"
    /\ statusQ' = FALSE
    /\ stat' = IF Annotated(o) /\ CachedWork # Absent /\ ~CachedWork.deleting
               THEN o.health ELSE "idle"
    /\ LooksAgain("status")
    /\ UNCHANGED <<workVars, queued, ctl, memberVars, informer, record, statusOn, ready, left>>

WithHealth == [CachedWork EXCEPT !.health = stat]

\* Mutant: an update that stays in conflict is given up.
ReflectStatusForgets ==
    /\ stat # "idle"
    /\ stat' = "idle"
    /\ \/ CachedWork # Absent /\ UpdateStatus(WithHealth)
       \/ UpdateStatusFails(WithHealth) /\ UNCHANGED workLog
    /\ UNCHANGED <<workCache, queued, ctl, memberVars, informer, record, statusOn, statusQ, ready, left, overlooked>>

\* reflectStatus replaces the status of the manifest.
ReflectStatus ==
    /\ stat # "idle"
    /\ stat' = "idle"
    /\ \/ /\ CachedWork # Absent
          /\ UpdateStatus(WithHealth)
          /\ UNCHANGED statusQ
          /\ Overlooks("status", WithHealth = CachedWork /\ Work # Absent /\ Work.health # stat)
       \/ /\ UpdateStatusFails(WithHealth)
          /\ statusQ' = TRUE
          /\ UNCHANGED <<workLog, overlooked>>
    /\ UNCHANGED <<workCache, queued, ctl, memberVars, informer, record, statusOn, ready, left>>

-----------------------------------------------------------------------------
(***************************************************************************)
(* The outside.                                                            *)
(***************************************************************************)
\* The binding controller updates a Work (CreateOrUpdateWork), but none that
\* is being deleted.
UpdateWork(m) ==
    /\ Work # Absent /\ ~Work.deleting /\ Work.manifest # m
    /\ Move("update")
    /\ workLog' = Append(workLog, [Work EXCEPT !.manifest = m])
    /\ UNCHANGED <<workCache, queued, ctl, memberVars, informer, record, statusVars, ready, overlooked>>

RemoveWork ==
    /\ Work # Absent /\ ~Work.deleting
    /\ Move("remove")
    /\ workLog' = Append(workLog, [Work EXCEPT !.deleting = TRUE])
    /\ UNCHANGED <<workCache, queued, ctl, memberVars, informer, record, statusVars, ready, overlooked>>

\* Somebody else writes the object in the member.
MemberWrites(o) ==
    /\ objLog' = Append(objLog, o)
    /\ UNCHANGED <<workVars, queued, ctl, objCache, events, informer, record, statusVars, ready, overlooked>>

EditObject(m) ==
    /\ Obj # Absent /\ Obj.managed /\ Obj.manifest # m
    /\ Move("edit")
    /\ MemberWrites([Obj EXCEPT !.manifest = m])

DeleteObject ==
    /\ Obj # Absent
    /\ Move("delete")
    /\ MemberWrites(Absent)

CreateForeignObject(m) ==
    /\ Obj = Absent
    /\ Move("foreign")
    /\ MemberWrites([manifest |-> m, managed |-> FALSE, health |-> "Unhealthy"])

ChangeHealth(h) ==
    /\ Obj # Absent /\ Obj.health # h
    /\ Move("health")
    /\ MemberWrites([Obj EXCEPT !.health = h])

ClusterUnready ==
    /\ ready /\ Move("unready")
    /\ ready' = FALSE
    /\ UNCHANGED <<workVars, queued, ctl, memberVars, informer, record, statusVars, overlooked>>

ClusterReady ==
    /\ ~ready
    /\ ready' = TRUE
    /\ UNCHANGED <<workVars, queued, ctl, memberVars, informer, record, statusVars, left, overlooked>>

\* Everything but the two API servers is lost; the Work's informer lists again
\* before the controllers start, and every Work gets an add event.
Restart ==
    /\ Move("restart")
    /\ workCache' = Len(workLog)
    /\ queued' = (Work # Absent)
    /\ ctl' = Idle
    /\ objCache' = 0 /\ informer' = "off" /\ events' = <<>> /\ record' = 0
    /\ statusOn' = FALSE /\ statusQ' = FALSE /\ stat' = "idle"
    /\ overlooked' = {}
    /\ UNCHANGED <<workLog, objLog, ready>>

-----------------------------------------------------------------------------
ExecutionController ==
    \/ Reconcile
    \/ TryCreateOrUpdateWorkload
    \/ Create
    \/ Update
    \/ RecordVersion
    \/ UpdateAppliedCondition
    \/ TryDeleteWorkload
    \/ Delete
    \/ CleanupPolicyClaimMetadata
    \/ Release
    \/ RemoveFinalizer

Informers ==
    \/ WatchWork
    \/ ListObject
    \/ WatchObject
    \/ HandleEvent

StatusController ==
    \/ BuildResourceInformers
    \/ SyncWorkStatus
    \/ ReflectStatus

Environment ==
    \/ CallFails
    \/ \E m \in Manifests : UpdateWork(m) \/ EditObject(m) \/ CreateForeignObject(m)
    \/ RemoveWork
    \/ DeleteObject
    \/ \E h \in Healths : ChangeHealth(h)
    \/ ClusterUnready
    \/ ClusterReady
    \/ Restart

Next ==
    \/ ExecutionController
    \/ Informers
    \/ StatusController
    \/ Environment

Spec == Init /\ [][Next]_vars

\* The controller has workers, calls return, watches deliver and handlers are
\* called.  The outside owes nothing.
FairSpec ==
    /\ Spec
    /\ WF_vars(ExecutionController)
    /\ WF_vars(WatchWork)
    /\ WF_vars(ListObject)
    /\ WF_vars(WatchObject)
    /\ WF_vars(HandleEvent)
    /\ WF_vars(StatusController)

-----------------------------------------------------------------------------
WorkOK ==
    /\ workLog \in Seq(WorkState \cup {Absent})
    /\ workCache \in 1..Len(workLog)

MemberOK ==
    /\ objLog \in Seq(Object \cup {Absent}) /\ objLog # <<>>
    /\ objCache \in 0..Len(objLog)
    /\ informer \in {"off", "started", "synced"} /\ (informer = "synced" => objCache # 0)
    /\ record \in 0..Len(objLog)

EventsOK ==
    /\ events \in Seq(Nat \X Nat)
    /\ \A i \in 1..Len(events) : events[i][1] \in 0..objCache /\ events[i][2] \in 1..objCache

ReconciliationOK ==
    \/ ctl = Idle
    \/ /\ ctl \in Reconciliation
       /\ ctl.at \in 1..workCache /\ workLog[ctl.at] # Absent
       /\ ctl.ver \in 0..Len(objLog)

QueuesOK ==
    /\ queued \in BOOLEAN
    /\ statusOn \in BOOLEAN /\ statusQ \in BOOLEAN /\ stat \in Healths \cup {"idle"}
    /\ ready \in BOOLEAN
    /\ left \in [Kinds -> Nat]
    /\ overlooked \subseteq {"object", "record", "status"}

\* Types, and that every version anybody holds is in its log.
TypeOK == WorkOK /\ MemberOK /\ EventsOK /\ ReconciliationOK /\ QueuesOK

\* A version the controller is about to overwrite or release was one it may:
\* with the optimistic lock, what makes UnmanagedNotOverwritten hold.
LockedIsAllowed ==
    ctl # Idle /\ ctl.pc \in {"update", "release"} =>
        ctl.ver # 0 /\ objLog[ctl.ver] # Absent /\ AllowUpdate(objLog[ctl.ver])

\* Nothing is under way in the execution controller and its caches are current.
Quiet ==
    /\ ctl = Idle /\ ~queued /\ events = <<>>
    /\ workCache = Len(workLog) /\ objCache = Len(objLog)

\* syncToClusters "ensures that the state of the given object is synchronized
\* to member clusters": once the controller has nothing left to do, the member
\* has the manifest of the Work.  That is so through any updates of the Work,
\* edits, deletions and foreign objects, but for what is in "overlooked": the
\* watcher's Create was content with whatever had come into its cache, a list
\* did not show an object that was there before, or an event came while there
\* was no version on record, or one behind, or showed a foreign object first.
QuietMeansSynced ==
    Quiet /\ Work # Absent /\ ~Work.deleting /\ "object" \notin overlooked => Synced(Obj)

\* Once the status controller has nothing left to do either, the Work reports
\* the health of the object, however it changed meanwhile: but for an update
\* helper.UpdateStatus left out because a stale copy of the Work made it seem
\* unnecessary, which its WARNING is about.
QuietMeansReported ==
    /\ Quiet /\ statusOn /\ ~statusQ /\ stat = "idle"
    /\ Work # Absent /\ ~Work.deleting /\ "status" \notin overlooked
    /\ Annotated(Obj)
    => Work.health = Obj.health

\* The same without the exceptions, which the code does not achieve.
AlwaysSynced == Quiet /\ Work # Absent /\ ~Work.deleting => Synced(Obj)

AlwaysReported ==
    /\ Quiet /\ statusOn /\ ~statusQ /\ stat = "idle"
    /\ Work # Absent /\ ~Work.deleting
    /\ Annotated(Obj)
    => Work.health = Obj.health

\* Applied is true only if the controller did apply something to the member.
AppliedIsReal ==
    Work # Absent /\ Work.applied = "True" =>
        \E v \in 1..Len(objLog) : Annotated(objLog[v])

\* The finalizer of the Work protects the object: no Work is gone while its
\* object is still there as Karmada's, neither deleted nor released.
GoneLeavesNothing == Work = Absent => ~Annotated(Obj)

\* An object that is not Karmada's is never overwritten unless the Work says
\* so, however old the cached copy was that the decision was taken on.
UnmanagedNotOverwritten ==
    [][Obj # Absent /\ ~Obj.managed /\ ~Overwrite /\ Obj' # Absent =>
          Obj'.manifest = Obj.manifest /\ ~Obj'.managed]_vars

\* ... and never deleted by the controller.
UnmanagedNotDeleted ==
    [][Obj # Absent /\ ~Obj.managed /\ Obj' = Absent => ctl' = ctl]_vars

\* A Work that is deleted goes away, if the cluster is ready from some point on.
DeletionEnds ==
    <>[]ready => [](Work # Absent /\ Work.deleting => <>(Work = Absent))

\* Once the object is released, and nobody else ever creates one, the Work
\* goes away.
ReleaseCompletes ==
    (\E v \in 1..Len(objLog) : objLog[v] # Absent /\ ~Annotated(objLog[v])) ~> (Work = Absent)
=============================================================================
