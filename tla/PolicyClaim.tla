----------------------------- MODULE PolicyClaim -----------------------------
(***************************************************************************)
(* How the resource detector decides which PropagationPolicy a resource    *)
(* template belongs to (pkg/detector).                                     *)
(*                                                                         *)
(* A policy claims a template by writing its permanent ID into the labels  *)
(* of the template, and of the ResourceBinding it builds for it.  Three    *)
(* kinds of worker write those labels: the Processor, which reconciles the *)
(* template; the policy worker of an existing policy, which lets go of     *)
(* templates that it no longer matches and may preempt the ones of other   *)
(* policies; and the policy worker of a policy being deleted, which cleans *)
(* up after it.  All of them read informer caches that lag behind, one     *)
(* cache by more than another, and most of their writes are guarded by     *)
(* nothing but the resource version of what they read.                     *)
(*                                                                         *)
(* A template that no policy matches is put into a waiting list, which a   *)
(* policy consults when it arrives or changes.                             *)
(*                                                                         *)
(* The model has one namespaced template, which is not deleted, and the    *)
(* policies of its namespace.                                              *)
(***************************************************************************)
EXTENDS Integers, FiniteSets

CONSTANTS
    Policies,     \* names of policies; numbers, to have an alphabetic order
    Contents,     \* what users may write into each policy
    Preemptors,   \* the policies with .spec.preemption: Always
    Initial,      \* the policies that exist when the detector starts
    None,         \* no policy, no claim, no binding
    MaxEvents     \* bound on what users do to policies, failed writes and restarts

ASSUME PoliciesAssumption ==
    /\ Policies \subseteq Nat \ {0} /\ IsFiniteSet(Policies)
    /\ Preemptors \cup Initial \subseteq Policies

\* match: how precisely the selectors match the template (ImplicitPriority; 0 for not at
\* all); kind: some selector names the template's kind, as one that matches it does.
Content == [match : Nat, kind : BOOLEAN, priority : Int]

ASSUME ContentsAssumption ==
    /\ Contents \in [Policies -> SUBSET Content]
    /\ \A p \in Policies : \A c \in Contents[p] : c.match > 0 => c.kind
ASSUME BoundsAssumption == MaxEvents \in Nat

VARIABLES
    policies,       \* the policies, as the API server has them
    template,       \* the template's claim
    binding,        \* the ResourceBinding
    policyCache,    \* the detector's copies
    templateCache,
    bindingCache,
    templateVersion,  \* the template's resource version
    cacheVersion,   \* ... and the one of its cached copy
    bindingFresh,   \* who holds the present version of the binding
    queued,         \* the template's key is in the Processor
    waiting,        \* ... and in waitingObjects
    worker,         \* the Processor's worker
    policyQueue,    \* the policies in the queue of policyReconcileWorker
    sync,           \* its worker on each policy
    stale,          \* what was decided from a copy that was out of date
    events

templateVars == <<template, templateVersion>>
apiVars == <<policies, templateVars, binding>>
cacheVars == <<policyCache, templateCache, bindingCache, cacheVersion, bindingFresh>>
resourceVars == <<queued, waiting, worker>>
policyVars == <<policyQueue, sync>>
vars == <<apiVars, cacheVars, resourceVars, policyVars, stale, events>>

PriorityMisMatch == 0

\* id is the permanent ID, which the webhook gives a policy at its creation, and
\* version tells the edits of a policy apart.  Both are taken from the number of
\* events so far.
Policy ==
    [id : 0..MaxEvents, version : 0..MaxEvents, match : Nat, kind : BOOLEAN,
     priority : Int, deleting : BOOLEAN]

Claim == [policy : Policies, id : 0..MaxEvents]

\* The template's resource versions are compared for equality only, and at most four
\* copies hold one: five numbers tell them apart (NewVersion).
Versions == 0..4

\* The claim, the edit of the policy and the version of the template (.spec.resource.
\* resourceVersion) that the binding was built from.
Binding == [claim : Claim \cup {None}, version : 0..MaxEvents, rv : Versions]

\* The binding's own resource version is only ever compared with the present one, so
\* what is kept is who holds that one: the informer's cache, and the policy workers,
\* each under its policy's number.
Cache == 0

ASSUME NoneAssumption == None \notin Policy \cup Claim \cup Binding

Idle == [pc |-> "idle"]

\* object and rv: the Processor's copy of the template, its claim and its version.
Applying ==
    [pc : {"claim", "bind"}, object : Claim \cup {None}, rv : Versions, policy : Policies,
     copy : Policy]

Cleaning == [pc : {"cleanBinding", "cleanTemplate"}, target : Claim]

Syncing ==
    [pc : {"unmatched", "unbind", "enqueue", "preempt", "cleanBinding", "cleanTemplate",
           "finalize"},
     copy : Policy]

TypeOK ==
    /\ policies \in [Policies -> Policy \cup {None}]
    /\ policyCache \in [Policies -> Policy \cup {None}]
    /\ template \in Claim \cup {None} /\ templateCache \in Claim \cup {None}
    /\ binding \in Binding \cup {None} /\ bindingCache \in Binding \cup {None}
    /\ templateVersion \in Versions /\ cacheVersion \in Versions
    /\ bindingFresh \subseteq {Cache} \cup Policies
    /\ queued \in BOOLEAN /\ waiting \in BOOLEAN
    /\ worker \in {Idle, [pc |-> "wait"]} \cup Applying \cup Cleaning
    /\ policyQueue \in SUBSET Policies
    /\ sync \in [Policies -> {Idle} \cup Syncing]
    /\ stale \in SUBSET {"policy", "list", "binding", "id", "kind"}
    /\ events \in 0..MaxEvents

\* The detector starts: a template that nobody has claimed yet, and some policies.
NewPolicies(p, n) ==
    {[id |-> n, version |-> n, match |-> c.match, kind |-> c.kind, priority |-> c.priority,
      deleting |-> FALSE] : c \in Contents[p]}

Init ==
    /\ policies \in [Policies -> UNION {NewPolicies(p, 0) : p \in Initial} \cup {None}]
    /\ \A p \in Policies : policies[p] \in IF p \in Initial THEN NewPolicies(p, 0) ELSE {None}
    /\ policyCache = policies
    /\ template = None /\ templateCache = None /\ templateVersion = 0 /\ cacheVersion = 0
    /\ binding = None /\ bindingCache = None /\ bindingFresh = {Cache}
    /\ queued = TRUE /\ waiting = FALSE /\ worker = Idle
    /\ policyQueue = Initial /\ sync = [p \in Policies |-> Idle]
    /\ stale = {}
    /\ events = 0

ClaimOf(p, copy) == [policy |-> p, id |-> copy.id]

Event == events < MaxEvents /\ events' = events + 1

\* A worker goes on with a copy of a policy that has been edited meanwhile.
Outdated(p, copy) == IF policies[p] # copy THEN stale \cup {"policy"} ELSE stale

\* A version that no copy of the template, and no binding built from one, holds.
HeldVersions ==
    {cacheVersion} \cup {b.rv : b \in {binding, bindingCache} \ {None}}
                   \cup (IF worker.pc \in {"claim", "bind"} THEN {worker.rv} ELSE {})

NewVersion == CHOOSE v \in Versions : v \notin HeldVersions

WriteTemplate(claim) == template' = claim /\ templateVersion' = NewVersion

WriteBinding(b) == binding' = b /\ bindingFresh' = {}

KeepTemplate == UNCHANGED templateVars
KeepBinding == UNCHANGED <<binding, bindingFresh>>

-----------------------------------------------------------------------------
(***************************************************************************)
(* Users.  The webhook gives every new policy an ID and a finalizer, so    *)
(* that its deletion only marks it.                                        *)
(***************************************************************************)
UserEdits(p, policy) ==
    /\ Event
    /\ policies' = [policies EXCEPT ![p] = policy]
    /\ UNCHANGED <<templateVars, binding, cacheVars, resourceVars, policyVars, stale>>

Create(p) ==
    /\ policies[p] = None
    /\ \E policy \in NewPolicies(p, events + 1) : UserEdits(p, policy)

Update(p) ==
    /\ policies[p] # None
    /\ \E c \in Contents[p] :
          UserEdits(p, [policies[p] EXCEPT !.version = events + 1, !.match = c.match,
                                           !.kind = c.kind, !.priority = c.priority])

Delete(p) ==
    /\ policies[p] # None /\ ~policies[p].deleting
    /\ UserEdits(p, [policies[p] EXCEPT !.version = events + 1, !.deleting = TRUE])

-----------------------------------------------------------------------------
(***************************************************************************)
(* The informers.                                                          *)
(***************************************************************************)

\* HandleDeprioritizedPropagationPolicy: the policies that may preempt now what
\* they could not preempt before.
Deprioritized(old, new) ==
    {q \in Preemptors :
        /\ policyCache'[q] # None
        /\ policyCache'[q].priority > new.priority
        /\ policyCache'[q].priority < old.priority}

\* OnPropagationPolicyAdd and OnPropagationPolicyUpdate; a deletion has no handler.
\* Every edit, and the mark of a deletion, raises the generation that the update handler
\* compares; a relist that delivers the cached policy again is no step.  A policy that
\* was deleted and created again is delivered as two events, of which the second counts.
ObservePolicy(p) ==
    LET old == policyCache[p]
        new == policies[p]
    IN  /\ old # new
        /\ policyCache' = [policyCache EXCEPT ![p] = new]
        /\ policyQueue' = policyQueue
               \cup (IF new # None THEN {p} ELSE {})
               \cup (IF old # None /\ new # None /\ old.id = new.id /\ new.priority < old.priority
                     THEN Deprioritized(old, new) ELSE {})
        /\ UNCHANGED <<apiVars, templateCache, bindingCache, cacheVersion, bindingFresh,
                       resourceVars, sync, stale, events>>

\* OnUpdate: a changed label counts as a changed specification, and every write of
\* the template changes its claim.
ObserveTemplate ==
    /\ cacheVersion # templateVersion
    /\ templateCache' = template /\ cacheVersion' = templateVersion
    /\ queued' = TRUE
    /\ UNCHANGED <<apiVars, policyCache, bindingCache, bindingFresh, waiting, worker,
                   policyVars, stale, events>>

\* The detector has no handler for bindings.
ObserveBinding ==
    /\ Cache \notin bindingFresh
    /\ bindingCache' = binding /\ bindingFresh' = bindingFresh \cup {Cache}
    /\ UNCHANGED <<apiVars, policyCache, templateCache, cacheVersion, resourceVars,
                   policyVars, stale, events>>

-----------------------------------------------------------------------------
(***************************************************************************)
(* Cleaning up the claim of one policy, shared by both kinds of worker.    *)
(***************************************************************************)

\* fetchResourceBinding: from the cache, or from the API server if not there.
SeenBinding == IF bindingCache # None THEN bindingCache ELSE binding

\* CleanupResourceBindingClaimMetadata: after a conflict the binding is read from the
\* API server and its claim is compared again.
CleanupResourceBindingClaimMetadata(target) ==
    IF SeenBinding # None /\ SeenBinding.claim = target /\ binding.claim = target
    THEN WriteBinding([binding EXCEPT !.claim = None]) /\ UNCHANGED stale
    ELSE /\ KeepBinding
         /\ stale' = IF binding # None /\ binding.claim = target
                     THEN stale \cup {"binding"} ELSE stale

\* CleanupResourceTemplateClaimMetadata, on a template that carried the claim when listed.
CleanupResourceTemplateClaimMetadata(target) ==
    IF template = target THEN WriteTemplate(None) ELSE KeepTemplate

-----------------------------------------------------------------------------
(***************************************************************************)
(* The Processor: Reconcile and propagateResource.                         *)
(***************************************************************************)
WorkerUnchanged ==
    UNCHANGED <<policies, policyCache, templateCache, bindingCache, cacheVersion, policyVars,
                events>>

\* compare.go: the explicit priority, then the implicit one, then the name.
Higher(p, q) ==
    LET a == policyCache[p]
        b == policyCache[q]
    IN  \/ a.priority > b.priority
        \/ a.priority = b.priority /\ a.match > b.match
        \/ a.priority = b.priority /\ a.match = b.match /\ p < q

LookForMatchedPolicy ==
    LET S == {p \in Policies : /\ policyCache[p] # None /\ ~policyCache[p].deleting
                               /\ policyCache[p].match > PriorityMisMatch}
    IN  {p \in S : \A q \in S \ {p} : Higher(p, q)}

Apply(p) ==
    worker' = [pc |-> "claim", object |-> templateCache, rv |-> cacheVersion,
               policy |-> p, copy |-> policyCache[p]]

\* Mutants: a claimed policy that is gone is applied; one that is being deleted is not
\* tried again; one that is gone is tried again for ever.
GetAndApplyPolicyAnyway ==
    LET p == templateCache.policy
    IN  IF policyCache[p] # None /\ policyCache[p].deleting
        THEN worker' = Idle /\ queued' = TRUE
        ELSE Apply(p) /\ queued' = FALSE

GetAndApplyPolicyOnce ==
    LET p == templateCache.policy
    IN  /\ queued' = FALSE
        /\ IF policyCache[p] = None
           THEN worker' = [pc |-> "cleanBinding", target |-> templateCache]
           ELSE IF policyCache[p].deleting \/ policyCache[p].match = PriorityMisMatch
           THEN worker' = Idle ELSE Apply(p)

GetAndApplyPolicyNotFound ==
    LET p == templateCache.policy
    IN  IF policyCache[p] = None \/ policyCache[p].deleting
        THEN worker' = Idle /\ queued' = TRUE
        ELSE /\ IF policyCache[p].match = PriorityMisMatch THEN worker' = Idle ELSE Apply(p)
             /\ queued' = FALSE

\* The template carries a claim: getAndApplyPolicy.
GetAndApplyPolicy ==
    LET claim == templateCache
        p == claim.policy
    IN  \/ /\ policyCache[p] = None
           /\ worker' = [pc |-> "cleanBinding", target |-> claim]
           /\ queued' = FALSE
        \/ /\ policyCache[p] # None /\ policyCache[p].deleting
           /\ worker' = Idle /\ queued' = TRUE
        \/ /\ policyCache[p] # None /\ ~policyCache[p].deleting
           /\ IF policyCache[p].match = PriorityMisMatch THEN worker' = Idle ELSE Apply(p)
           /\ queued' = FALSE

\* The claim is of a former policy of that name, and stays.
Mistaken ==
    IF templateCache # None
    THEN LET policy == policyCache[templateCache.policy]
         IN  IF /\ policy # None /\ ~policy.deleting /\ policy.match = PriorityMisMatch
                /\ policy.id # templateCache.id
             THEN stale \cup {"id"} ELSE stale
    ELSE stale

\* While an override that the policy depends on is absent (IsDependentOverridesPresent),
\* the key goes back into the queue before anything was changed, which is no step.
Reconcile ==
    /\ queued /\ worker = Idle
    /\ IF templateCache # None THEN GetAndApplyPolicy /\ UNCHANGED waiting
       ELSE /\ queued' = FALSE
            /\ IF LookForMatchedPolicy # {}
               THEN (\E p \in LookForMatchedPolicy : Apply(p)) /\ waiting' = FALSE
               ELSE worker' = [pc |-> "wait"] /\ UNCHANGED waiting
    /\ stale' = Mistaken
    /\ KeepTemplate /\ KeepBinding /\ WorkerUnchanged

\* Mutant: the template is not tried once more.
AddWaitingOnce ==
    /\ worker.pc = "wait"
    /\ worker' = Idle
    /\ waiting' = TRUE
    /\ UNCHANGED <<queued, stale>> /\ KeepTemplate /\ KeepBinding /\ WorkerUnchanged

\* No policy was found.  A template that was not waiting yet is tried once more, for
\* a policy that came in between and did not find it in the list.
AddWaiting ==
    /\ worker.pc = "wait"
    /\ worker' = Idle
    /\ waiting' = TRUE
    /\ queued' = (queued \/ ~waiting)
    /\ UNCHANGED stale /\ KeepTemplate /\ KeepBinding /\ WorkerUnchanged

\* ClaimPolicyForObject: nothing to write when the copy carries the policy's ID.  The
\* update fails when the copy is out of date, and leaves in it what the server returns.
ClaimPolicyForObject ==
    LET claim == ClaimOf(worker.policy, worker.copy)
        claimed == worker.object = claim
        written == ~claimed /\ worker.rv = templateVersion
    IN  /\ worker.pc = "claim"
        /\ IF written THEN WriteTemplate(claim) ELSE KeepTemplate
        /\ IF claimed \/ written
           THEN /\ worker' = [worker EXCEPT !.pc = "bind", !.object = claim,
                                            !.rv = IF written THEN templateVersion' ELSE @]
                /\ UNCHANGED queued
           ELSE worker' = Idle /\ queued' = TRUE
        /\ stale' = Outdated(worker.policy, worker.copy)
        /\ UNCHANGED waiting /\ KeepBinding /\ WorkerUnchanged

\* BuildResourceBinding, from the copies of the template and of the policy.
BuildResourceBinding ==
    [claim |-> ClaimOf(worker.policy, worker.copy), version |-> worker.copy.version,
     rv |-> worker.rv]

\* ApplyPolicy, from BuildResourceBinding on.  CreateOrUpdate compares with the cached
\* binding, and its write fails when that copy is out of date.  A cached binding that is
\* taken for the present one is a mistake if no other version of the template is to come.
ApplyPolicy ==
    LET built == BuildResourceBinding
    IN  /\ worker.pc = "bind"
        /\ worker' = Idle
        /\ IF bindingCache # built /\ Cache \in bindingFresh
           THEN WriteBinding(built) ELSE KeepBinding
        /\ queued' = (queued \/ (bindingCache # built /\ Cache \notin bindingFresh))
        /\ stale' = Outdated(worker.policy, worker.copy)
                    \cup (IF /\ bindingCache = built /\ binding # built
                             /\ worker.rv = templateVersion
                          THEN {"binding"} ELSE {})
        /\ UNCHANGED waiting /\ KeepTemplate /\ WorkerUnchanged

WorkerCleanBinding ==
    /\ worker.pc = "cleanBinding"
    /\ CleanupResourceBindingClaimMetadata(worker.target)
    /\ worker' = [worker EXCEPT !.pc = "cleanTemplate"]
    /\ UNCHANGED <<queued, waiting>> /\ KeepTemplate /\ WorkerUnchanged

WorkerCleanTemplate ==
    /\ worker.pc = "cleanTemplate"
    /\ CleanupResourceTemplateClaimMetadata(worker.target)
    /\ worker' = Idle
    /\ UNCHANGED <<queued, waiting, stale>> /\ KeepBinding /\ WorkerUnchanged

-----------------------------------------------------------------------------
(***************************************************************************)
(* The policy workers: ReconcilePropagationPolicy.                         *)
(***************************************************************************)
PolicyUnchanged ==
    UNCHANGED <<policyCache, templateCache, bindingCache, cacheVersion, worker, events>>

\* handlePolicyDeletion lists, of each kind that the selectors name now, the templates
\* with the policy's ID in the cache, and at the API server if the cache has none.
Listed(p, copy) ==
    copy.kind /\ (templateCache = ClaimOf(p, copy) \/ template = ClaimOf(p, copy))

\* The policy has claimed the template, of a kind that its selectors do not name any
\* more; or only the binding carries its ID, which no list of templates shows.
Unlisted(p, copy) ==
    IF Listed(p, copy) THEN stale
    ELSE stale \cup (IF template = ClaimOf(p, copy) THEN {"kind"} ELSE {})
               \cup (IF binding # None /\ binding.claim = ClaimOf(p, copy)
                     THEN {"binding"} ELSE {})

ReconcilePropagationPolicy(p) ==
    LET copy == policyCache[p]
    IN  /\ p \in policyQueue /\ sync[p] = Idle
        /\ policyQueue' = policyQueue \ {p}
        /\ sync' = [sync EXCEPT ![p] =
               IF copy = None THEN Idle
               ELSE [copy |-> copy,
                     pc |-> IF ~copy.deleting THEN "unmatched"
                            ELSE IF Listed(p, copy) THEN "cleanBinding"
                            ELSE "finalize"]]
        /\ stale' = IF copy # None /\ copy.deleting THEN Unlisted(p, copy) ELSE stale
        /\ UNCHANGED <<policies, queued, waiting>>
        /\ KeepTemplate /\ KeepBinding /\ PolicyUnchanged

PolicyCleanBinding(p) ==
    /\ sync[p].pc = "cleanBinding"
    /\ CleanupResourceBindingClaimMetadata(ClaimOf(p, sync[p].copy))
    /\ sync' = [sync EXCEPT ![p].pc = "cleanTemplate"]
    /\ UNCHANGED <<policies, policyQueue, queued, waiting>> /\ KeepTemplate /\ PolicyUnchanged

PolicyCleanTemplate(p) ==
    /\ sync[p].pc = "cleanTemplate"
    /\ CleanupResourceTemplateClaimMetadata(ClaimOf(p, sync[p].copy))
    /\ sync' = [sync EXCEPT ![p].pc = "finalize"]
    /\ UNCHANGED <<policies, policyQueue, queued, waiting, stale>> /\ KeepBinding
    /\ PolicyUnchanged

\* The update that removes the finalizer fails when the copy is out of date.
RemoveFinalizer(p) ==
    /\ sync[p].pc = "finalize"
    /\ sync' = [sync EXCEPT ![p] = Idle]
    /\ IF policies[p] = sync[p].copy
       THEN policies' = [policies EXCEPT ![p] = None] /\ UNCHANGED policyQueue
       ELSE policyQueue' = policyQueue \cup {p} /\ UNCHANGED policies
    /\ UNCHANGED <<queued, waiting, stale>> /\ KeepTemplate /\ KeepBinding /\ PolicyUnchanged

\* listPPDerivedRBs
Derived(p, copy) == bindingCache # None /\ bindingCache.claim = ClaimOf(p, copy)

\* The policy has claimed the template, or the binding, and the list does not show it.
Overlooked(p, copy) ==
    IF Derived(p, copy) THEN stale
    ELSE stale \cup (IF template = ClaimOf(p, copy) THEN {"list"} ELSE {})
               \cup (IF binding # None /\ binding.claim = ClaimOf(p, copy)
                     THEN {"binding"} ELSE {})

\* Mutant: templates that no longer match are kept.
CleanPPUnmatchedRBsNever(p) ==
    /\ sync[p].pc = "unmatched"
    /\ sync' = [sync EXCEPT ![p].pc = "enqueue"]
    /\ stale' = Overlooked(p, sync[p].copy)
    /\ UNCHANGED <<policies, policyQueue, queued, waiting>> /\ KeepTemplate /\ KeepBinding
    /\ PolicyUnchanged

\* cleanPPUnmatchedRBs: removeResourceClaimMetadataIfNotMatched removes the claim from
\* the template, whoever's it is.
CleanPPUnmatchedRBs(p) ==
    LET copy == sync[p].copy
        clean == Derived(p, copy) /\ copy.match = PriorityMisMatch
        written == clean /\ cacheVersion = templateVersion
    IN  /\ sync[p].pc = "unmatched"
        /\ IF written /\ template # None THEN WriteTemplate(None) ELSE KeepTemplate
        /\ IF written
           THEN bindingFresh' = IF Cache \in bindingFresh THEN bindingFresh \cup {p}
                                ELSE bindingFresh \ {p}
           ELSE UNCHANGED bindingFresh
        /\ IF clean /\ ~written
           THEN sync' = [sync EXCEPT ![p] = Idle] /\ policyQueue' = policyQueue \cup {p}
           ELSE /\ sync' = [sync EXCEPT ![p].pc = IF clean THEN "unbind" ELSE "enqueue"]
                /\ UNCHANGED policyQueue
        /\ stale' = Overlooked(p, copy) \cup (IF written THEN Outdated(p, copy) ELSE {})
        /\ UNCHANGED <<policies, binding, queued, waiting>> /\ PolicyUnchanged

\* removeRBsClaimMetadata: and then from the binding.
RemoveRBsClaimMetadata(p) ==
    /\ sync[p].pc = "unbind"
    /\ IF p \in bindingFresh
       THEN /\ WriteBinding([binding EXCEPT !.claim = None])
            /\ sync' = [sync EXCEPT ![p].pc = "enqueue"] /\ UNCHANGED policyQueue
       ELSE /\ KeepBinding
            /\ sync' = [sync EXCEPT ![p] = Idle] /\ policyQueue' = policyQueue \cup {p}
    /\ stale' = Outdated(p, sync[p].copy)
    /\ UNCHANGED <<policies, queued, waiting>> /\ KeepTemplate /\ PolicyUnchanged

\* Mutant: an edited policy only looks at the waiting list.
EnqueueWaiting(p) ==
    LET copy == sync[p].copy
        found == waiting /\ copy.match > PriorityMisMatch
    IN  /\ sync[p].pc = "enqueue"
        /\ queued' = (queued \/ found)
        /\ waiting' = (waiting /\ ~found)
        /\ sync' = [sync EXCEPT ![p] =
               IF p \in Preemptors /\ copy.match > PriorityMisMatch
               THEN [pc |-> "preempt", copy |-> copy] ELSE Idle]
        /\ stale' = Overlooked(p, copy)
        /\ UNCHANGED <<policies, policyQueue>> /\ KeepTemplate /\ KeepBinding /\ PolicyUnchanged

\* The templates of the policy's bindings, and the waiting ones that it matches.
EnqueueTemplates(p) ==
    LET copy == sync[p].copy
        found == waiting /\ copy.match > PriorityMisMatch
    IN  /\ sync[p].pc = "enqueue"
        /\ queued' = (queued \/ Derived(p, copy) \/ found)
        /\ waiting' = (waiting /\ ~found)
        /\ sync' = [sync EXCEPT ![p] =
               IF p \in Preemptors /\ copy.match > PriorityMisMatch
               THEN [pc |-> "preempt", copy |-> copy] ELSE Idle]
        /\ stale' = Overlooked(p, copy)
        /\ UNCHANGED <<policies, policyQueue>> /\ KeepTemplate /\ KeepBinding /\ PolicyUnchanged

\* An override that the policy depends on is absent: the waiting templates stay in the
\* list, and the policy is tried again.
WaitForOverrides(p) ==
    LET copy == sync[p].copy
    IN  /\ Event
        /\ sync[p].pc = "enqueue" /\ waiting /\ copy.match > PriorityMisMatch
        /\ queued' = (queued \/ Derived(p, copy))
        /\ sync' = [sync EXCEPT ![p] = Idle] /\ policyQueue' = policyQueue \cup {p}
        /\ stale' = Overlooked(p, copy)
        /\ UNCHANGED <<apiVars, cacheVars, waiting, worker>>

\* preemptPropagationPolicy
Preempt(p) ==
    LET copy == sync[p].copy
        other == templateCache # None /\ templateCache.policy # p
        holder == policyCache[templateCache.policy]
        wanted == other /\ holder # None /\ copy.priority > holder.priority
    IN  /\ sync[p].pc = "preempt"
        /\ sync' = [sync EXCEPT ![p] = Idle]
        /\ IF wanted /\ cacheVersion = templateVersion
           THEN WriteTemplate(ClaimOf(p, copy)) ELSE KeepTemplate
        /\ policyQueue' = IF \/ other /\ holder = None
                             \/ wanted /\ cacheVersion # templateVersion
                          THEN policyQueue \cup {p} ELSE policyQueue
        /\ stale' = Outdated(p, copy)
        /\ UNCHANGED <<policies, queued, waiting>> /\ KeepBinding /\ PolicyUnchanged

-----------------------------------------------------------------------------
(***************************************************************************)
(* Faults: a write fails, and the controller manager restarts.             *)
(***************************************************************************)
WorkerFails ==
    /\ Event
    /\ worker.pc \in {"claim", "bind", "cleanBinding", "cleanTemplate"}
    /\ worker' = Idle /\ queued' = TRUE
    /\ UNCHANGED <<apiVars, cacheVars, waiting, policyVars, stale>>

PolicyFails(p) ==
    /\ Event
    /\ sync[p].pc \in {"cleanBinding", "cleanTemplate", "finalize", "unmatched", "unbind", "preempt"}
    /\ sync' = [sync EXCEPT ![p] = Idle] /\ policyQueue' = policyQueue \cup {p}
    /\ UNCHANGED <<apiVars, cacheVars, resourceVars, stale>>

Restart ==
    /\ Event
    /\ policyCache' = policies /\ templateCache' = template /\ bindingCache' = binding
    /\ cacheVersion' = templateVersion /\ bindingFresh' = {Cache}
    /\ queued' = TRUE /\ waiting' = FALSE /\ worker' = Idle
    /\ policyQueue' = {p \in Policies : policies[p] # None}
    /\ sync' = [p \in Policies |-> Idle]
    /\ UNCHANGED <<apiVars, stale>>

-----------------------------------------------------------------------------
Resource ==
    \/ Reconcile \/ AddWaiting \/ ClaimPolicyForObject \/ ApplyPolicy
    \/ WorkerCleanBinding \/ WorkerCleanTemplate

PolicySync(p) ==
    \/ ReconcilePropagationPolicy(p) \/ PolicyCleanBinding(p) \/ PolicyCleanTemplate(p)
    \/ RemoveFinalizer(p) \/ CleanPPUnmatchedRBs(p) \/ RemoveRBsClaimMetadata(p)
    \/ EnqueueTemplates(p) \/ Preempt(p)

Observe == ObserveTemplate \/ ObserveBinding \/ \E p \in Policies : ObservePolicy(p)

Next ==
    \/ Resource \/ Observe \/ WorkerFails \/ Restart
    \/ \E p \in Policies :
          \/ Create(p) \/ Update(p) \/ Delete(p)
          \/ PolicySync(p) \/ WaitForOverrides(p) \/ PolicyFails(p)

Spec == Init /\ [][Next]_vars

\* The informers deliver, and the workers of both queues do not stop.
FairSpec ==
    /\ Spec
    /\ WF_vars(ObserveTemplate) /\ WF_vars(ObserveBinding) /\ WF_vars(Resource)
    /\ \A p \in Policies : WF_vars(ObservePolicy(p)) /\ WF_vars(PolicySync(p))

-----------------------------------------------------------------------------
CachesCurrent ==
    policyCache = policies /\ cacheVersion = templateVersion /\ Cache \in bindingFresh

Quiet ==
    /\ CachesCurrent
    /\ ~queued /\ worker = Idle
    /\ policyQueue = {} /\ \A p \in Policies : sync[p] = Idle

Live(p) == policies[p] # None /\ ~policies[p].deleting

\* NoPolicyMissed: at rest, a template without a claim is one that no policy matches.
\* The template and the policy may arrive in any order, and the template be let go of
\* while a policy comes: between the waiting list, its one retry (propagateResource)
\* and the policy worker's look at the list, none is lost.
NoPolicyMissed ==
    Quiet /\ template = None
        => \A p \in Policies : Live(p) => policies[p].match = PriorityMisMatch

\* ClaimIsAlive: at rest, the policy that the claim names exists and is not being
\* deleted, even if the claim was written while the policy was cleaning up; unless the
\* Processor took a policy for a former one of the same name (getAndApplyPolicy), or the
\* policy was deleted when its selectors had come to name other kinds and its worker had
\* not handled that edit (handlePolicyDeletion).
ClaimIsAlive ==
    Quiet /\ template # None /\ stale \cap {"id", "kind"} = {} => Live(template.policy)

Current ==
    template # None => /\ policies[template.policy].id = template.id
                       /\ policies[template.policy].match > PriorityMisMatch

\* ClaimIsCurrent: at rest, the claim is the one of the policy's present incarnation
\* and the policy still matches, unless a worker went on with a copy of a policy that
\* had been edited, or a policy looked for its claims in bindings that did not show it,
\* or among templates of other kinds.
ClaimIsCurrent == Quiet /\ stale \cap {"policy", "list", "kind"} = {} => Current

\* BindingFollowsClaim: at rest, the binding carries the template's claim and is built
\* from the latest edit of the policy and the present version of the template, unless,
\* besides, a cached binding was taken for the present one, or a policy that cleaned up
\* did not find the claim in its lists of templates and bindings.
BindingFollowsClaim ==
    Quiet /\ stale = {}
        => /\ binding # None => binding.claim = template
           /\ template # None => /\ binding # None
                                 /\ binding.version = policies[template.policy].version
                                 /\ binding.rv = templateVersion

\* Settles: once users leave the policies alone, the detector comes to rest.
Settles == <>[]Quiet

-----------------------------------------------------------------------------
(***************************************************************************)
(* What the code's comments and the API's documentation say, and what the  *)
(* code does not do.                                                       *)
(***************************************************************************)

\* SelectorChangeFreesTemplate: "If the Policy's ResourceSelectors change, causing
\* certain resources to no longer match the Policy, the label claimed on relevant
\* resource template will be removed" (HandlePropagationPolicyCreationOrUpdate).
SelectorChangeFreesTemplate == Quiet => Current

\* DeletionFreesTemplate: "After a policy is removed, the label and annotations claimed on
\* relevant resource template will be removed (which gives the resource template a change
\* to match another policy)" (handlePolicyDeletion).
DeletionFreesTemplate == Quiet /\ template # None => policies[template.policy] # None

\* DeprioritizedIsPreempted: when the priority of a policy drops, every policy that may
\* preempt it now and could not before is put in the queue (the comment of
\* HandleDeprioritizedPropagationPolicy).
DeprioritizedIsPreempted ==
    [][\A p \in Policies, q \in Preemptors :
          LET old == policyCache[p]
              new == policyCache'[p]
          IN  /\ old # None /\ new # None /\ policyCache[q] # None
              /\ old.id = new.id /\ p # q
              /\ policyCache[q].priority <= old.priority
              /\ policyCache[q].priority > new.priority
              => q \in policyQueue']_vars
=============================================================================
