------------------------- MODULE PolicyClaim_proofs -------------------------
(***************************************************************************)
(* Proofs about PolicyClaim, for any finite set of policies, any           *)
(* priorities, matches and number of events.                               *)
(***************************************************************************)
EXTENDS PolicyClaim, FiniteSetTheorems, WellFoundedInduction, TLAPS

-----------------------------------------------------------------------------
(***************************************************************************)
(* The inductive invariant.                                                *)
(***************************************************************************)
\* A cached object that is fresh is the stored one, and a binding is never deleted.
CachesFit ==
    /\ cacheVersion = templateVersion => templateCache = template
    /\ Cache \in bindingFresh => bindingCache = binding
    /\ bindingCache # None \/ bindingFresh \cap Policies # {} => binding # None

\* Events number the incarnations and the edits of policies.
Numbered(copy) == copy # None => copy.id <= events /\ copy.version <= events

\* The copy is of the incarnation that exists; once that is being deleted, it stays so.
Older(copy, new) ==
    copy # None /\ new # None /\ copy.id = new.id /\ copy.deleting => new.deleting

\* Nothing is newer than the cache but the API server, and a policy does not go before
\* the detector has seen it being deleted.
PoliciesInOrder ==
    \A p \in Policies :
        /\ Numbered(policies[p]) /\ Numbered(policyCache[p])
        /\ Older(policyCache[p], policies[p])
        /\ policyCache[p] # None /\ ~policyCache[p].deleting =>
              policies[p] # None /\ policies[p].id = policyCache[p].id

\* Copies are taken from the cache.
SyncFits ==
    \A p \in Policies : sync[p] # Idle =>
        /\ Numbered(sync[p].copy)
        /\ Older(sync[p].copy, policyCache[p]) /\ Older(sync[p].copy, policies[p])
        /\ policies[p] = sync[p].copy => policyCache[p] = sync[p].copy
        /\ sync[p].copy.deleting <=> sync[p].pc \in {"cleanBinding", "cleanTemplate", "finalize"}
        /\ sync[p].pc = "preempt" => sync[p].copy.match > PriorityMisMatch

WorkerFits ==
    worker.pc \in {"claim", "bind"} =>
        /\ Numbered(worker.copy) /\ ~worker.copy.deleting /\ worker.copy.match > PriorityMisMatch
        /\ policies[worker.policy] = worker.copy => policyCache[worker.policy] = worker.copy

\* The template is written, and the informer is yet to say so.
Rewritten == templateVersion' # cacheVersion' /\ templateVersion' \in Versions

\* The Processor has read the template as it is.
Caught == cacheVersion = templateVersion /\ ~queued

\* The Processor is about to write a claim, or to try again.
Claiming == worker.pc = "claim" /\ worker.object # ClaimOf(worker.policy, worker.copy)

\* The claim is of the policy that exists, and that one will clean up after itself.
Guarded ==
    LET p == template.policy
    IN  /\ policies[p] # None /\ policies[p].id = template.id
        /\ policyCache[p] # None /\ policyCache[p].id = template.id
        /\ sync[p].pc = "finalize" => sync[p].copy.id # template.id
        /\ policyCache[p].deleting =>
              \/ p \in policyQueue
              \/ sync[p].pc \in {"cleanBinding", "cleanTemplate"} /\ sync[p].copy.id = template.id

\* A claim the Processor has read is cleaned up, replaced or guarded.
ClaimKept ==
    Caught /\ template # None /\ "id" \notin stale /\ "kind" \notin stale =>
        \/ worker.pc \in {"cleanBinding", "cleanTemplate"} /\ worker.target = template
        \/ Claiming
        \/ Guarded

Matching(p) ==
    policyCache[p] # None /\ ~policyCache[p].deleting /\ policyCache[p].match > PriorityMisMatch

\* A policy that matches is yet to look at the waiting list.
Coming(p) ==
    \/ p \in policyQueue
    \/ sync[p].pc \in {"unmatched", "enqueue"} /\ sync[p].copy.match > PriorityMisMatch

\* A template without a claim is claimed, tried again or waiting.
NothingMissed ==
    Caught /\ template = None =>
        \/ Claiming
        \/ worker.pc = "wait" /\ ~waiting
        \/ /\ waiting
           /\ \A p \in Policies : Matching(p) => Coming(p)

\* Without a mistake, claims are guarded, and a policy that no longer matches lets go.
ClaimCurrent ==
    template # None /\ "policy" \notin stale /\ "list" \notin stale /\ "kind" \notin stale =>
        /\ Guarded
        /\ LET p == template.policy
           IN  policyCache[p].match = PriorityMisMatch /\ ~policyCache[p].deleting =>
                  \/ p \in policyQueue
                  \/ sync[p].pc = "unmatched" /\ sync[p].copy.match = PriorityMisMatch
                     /\ sync[p].copy.id = template.id

IInv ==
    /\ TypeOK
    /\ CachesFit
    /\ PoliciesInOrder
    /\ SyncFits
    /\ WorkerFits
    /\ ClaimKept
    /\ NothingMissed
    /\ ClaimCurrent

-----------------------------------------------------------------------------
(***************************************************************************)
(* What the state is built from.                                           *)
(***************************************************************************)
SyncPcs ==
    {"unmatched", "unbind", "enqueue", "preempt", "cleanBinding", "cleanTemplate", "finalize"}

\* The fields of every record, and what exists is told apart from what does not.
LEMMA Distinct ==
    /\ \A c \in Policy : /\ c # None /\ c.id \in Nat /\ c.version \in Nat /\ c.match \in Nat
                         /\ c.priority \in Int /\ c.deleting \in BOOLEAN
                         /\ c.id \in 0..MaxEvents /\ c.version \in 0..MaxEvents
    /\ \A c \in Claim : c # None /\ c.policy \in Policies /\ c.id \in 0..MaxEvents
    /\ \A b \in Binding : b # None /\ b.claim \in Claim \cup {None} /\ b.rv \in Versions
    /\ Idle.pc = "idle" /\ [pc |-> "wait"].pc = "wait"
    /\ \A w \in Applying : /\ w.pc \in {"claim", "bind"} /\ w.object \in Claim \cup {None}
                           /\ w.policy \in Policies /\ w.copy \in Policy /\ w.rv \in Versions
    /\ \A w \in Cleaning : w.pc \in {"cleanBinding", "cleanTemplate"} /\ w.target \in Claim
    /\ \A s \in Syncing : s # Idle /\ s.pc \in SyncPcs /\ s.copy \in Policy
<1>1. \A c \in Policy : /\ c.id \in Nat /\ c.version \in Nat /\ c.match \in Nat
                        /\ c.priority \in Int /\ c.deleting \in BOOLEAN
                        /\ c.id \in 0..MaxEvents /\ c.version \in 0..MaxEvents
  <2>1. \A c \in Policy : /\ c.id \in 0..MaxEvents /\ c.version \in 0..MaxEvents
                          /\ c.match \in Nat /\ c.priority \in Int
                          /\ c.deleting \in BOOLEAN
    BY DEF Policy
  <2>2. \A n \in 0..MaxEvents : n \in Nat
    BY BoundsAssumption
  <2> QED
    BY <2>1, <2>2
<1>2. \A c \in Claim : c.policy \in Policies /\ c.id \in 0..MaxEvents
  BY DEF Claim
<1>3. \A b \in Binding : b.claim \in Claim \cup {None} /\ b.rv \in Versions
  BY DEF Binding
<1>4. None \notin Policy /\ None \notin Claim /\ None \notin Binding
  BY NoneAssumption
<1>5. Idle.pc = "idle" /\ [pc |-> "wait"].pc = "wait"
  BY DEF Idle
<1>6. \A w \in Applying : /\ w.pc \in {"claim", "bind"} /\ w.object \in Claim \cup {None}
                          /\ w.policy \in Policies /\ w.copy \in Policy /\ w.rv \in Versions
  BY DEF Applying
<1>7. \A w \in Cleaning : w.pc \in {"cleanBinding", "cleanTemplate"} /\ w.target \in Claim
  BY DEF Cleaning
<1>8. \A s \in Syncing : s.pc \in SyncPcs /\ s.copy \in Policy
  BY DEF Syncing, SyncPcs
<1>9. \A s \in Syncing : s # Idle
  BY <1>5, <1>8 DEF SyncPcs
<1> QED
  BY <1>1, <1>2, <1>3, <1>4, <1>5, <1>6, <1>7, <1>8, <1>9

\* The variables, one by one.
LEMMA Types ==
    ASSUME TypeOK
    PROVE  /\ \A p \in Policies : /\ policies[p] # None => policies[p] \in Policy
                                  /\ policyCache[p] # None => policyCache[p] \in Policy
                                  /\ sync[p] # Idle => sync[p] \in Syncing
                                  /\ sync[p].pc = "idle" <=> sync[p] = Idle
           /\ template # None => template \in Claim
           /\ templateCache # None => templateCache \in Claim
           /\ binding # None => binding \in Binding
           /\ bindingCache # None => bindingCache \in Binding
           /\ worker.pc \in {"claim", "bind"} => worker \in Applying
           /\ worker.pc \in {"cleanBinding", "cleanTemplate"} => worker \in Cleaning
           /\ worker.pc = "idle" <=> worker = Idle
           /\ events \in Nat /\ policyQueue \subseteq Policies
<1>1. \A p \in Policies : /\ policies[p] # None => policies[p] \in Policy
                          /\ policyCache[p] # None => policyCache[p] \in Policy
                          /\ sync[p] # Idle => sync[p] \in Syncing
  BY DEF TypeOK
<1>2. \A p \in Policies : sync[p].pc = "idle" <=> sync[p] = Idle
  BY <1>1, Distinct DEF SyncPcs
<1>3. \/ worker = Idle /\ worker.pc = "idle"
      \/ worker.pc = "wait"
      \/ worker \in Applying /\ worker.pc \in {"claim", "bind"}
      \/ worker \in Cleaning /\ worker.pc \in {"cleanBinding", "cleanTemplate"}
  BY Distinct DEF TypeOK
<1>4. /\ worker.pc \in {"claim", "bind"} => worker \in Applying
      /\ worker.pc \in {"cleanBinding", "cleanTemplate"} => worker \in Cleaning
      /\ worker.pc = "idle" => worker = Idle
  BY <1>3
<1>5. worker = Idle => worker.pc = "idle"
  BY Distinct
<1> QED
  BY <1>1, <1>2, <1>4, <1>5, BoundsAssumption DEF TypeOK

\* A claim is the policy's name and ID.
LEMMA Claims ==
    ASSUME NEW p \in Policies, NEW copy \in Policy
    PROVE  /\ ClaimOf(p, copy) \in Claim
           /\ ClaimOf(p, copy).policy = p /\ ClaimOf(p, copy).id = copy.id
           /\ \A c \in Claim : c = ClaimOf(p, copy) <=> c.policy = p /\ c.id = copy.id
<1>1. copy.id \in 0..MaxEvents
  BY Distinct
<1> QED
  BY <1>1 DEF ClaimOf, Claim

\* An event is counted, and no copy has the number yet.
LEMMA Counted ==
    ASSUME TypeOK, Event
    PROVE  /\ events \in Nat /\ events' = events + 1 /\ events' \in 0..MaxEvents
           /\ \A n \in Nat : n <= events => n <= events' /\ n # events'
<1>1. events \in Nat /\ events < MaxEvents /\ MaxEvents \in Nat /\ events' = events + 1
  BY Types, BoundsAssumption DEF Event
<1> QED
  BY <1>1

\* A policy worker goes on, or ends.
LEMMA Moved ==
    ASSUME TypeOK, NEW p \in Policies, sync[p] # Idle, NEW pc \in SyncPcs,
           sync' = [sync EXCEPT ![p].pc = pc]
    PROVE  /\ sync' \in [Policies -> {Idle} \cup Syncing]
           /\ sync'[p] # Idle /\ sync'[p].pc = pc /\ sync'[p].copy = sync[p].copy
           /\ \A q \in Policies \ {p} : sync'[q] = sync[q]
<1>1. sync[p] \in Syncing /\ sync \in [Policies -> {Idle} \cup Syncing]
  BY Types DEF TypeOK
<1>2. [sync[p] EXCEPT !.pc = pc] \in Syncing
  BY <1>1 DEF Syncing, SyncPcs
<1>3. [sync[p] EXCEPT !.pc = pc].pc = pc /\ [sync[p] EXCEPT !.pc = pc].copy = sync[p].copy
  BY <1>1 DEF Syncing
<1>4. sync' = [sync EXCEPT ![p] = [sync[p] EXCEPT !.pc = pc]]
  OBVIOUS
<1> HIDE DEF Idle
<1>5. sync'[p] = [sync[p] EXCEPT !.pc = pc] /\ \A q \in Policies \ {p} : sync'[q] = sync[q]
  BY <1>1, <1>4
<1>6. sync' \in [Policies -> {Idle} \cup Syncing]
  BY <1>1, <1>2, <1>4
<1> QED
  BY <1>2, <1>3, <1>5, <1>6, Distinct

LEMMA Set ==
    ASSUME TypeOK, NEW p \in Policies, NEW s \in {Idle} \cup Syncing,
           sync' = [sync EXCEPT ![p] = s]
    PROVE  /\ sync' \in [Policies -> {Idle} \cup Syncing]
           /\ sync'[p] = s
           /\ \A q \in Policies \ {p} : sync'[q] = sync[q]
BY DEF TypeOK

\* There is a version for what is written, and the cache does not hold it.
LEMMA NewVersionIsNew ==
    ASSUME TypeOK
    PROVE  NewVersion \in Versions /\ NewVersion # cacheVersion
<1>1. PICK a \in Versions, b \in Versions, c \in Versions :
         \A v \in HeldVersions : v \in {cacheVersion, a, b, c}
  <2>1. cacheVersion \in Versions /\ 0 \in Versions
    BY DEF TypeOK, Versions
  <2>2. PICK a \in Versions : binding # None => binding.rv = a
    BY <2>1, Types, Distinct
  <2>3. PICK b \in Versions : bindingCache # None => bindingCache.rv = b
    BY <2>1, Types, Distinct
  <2>4. PICK c \in Versions : worker.pc \in {"claim", "bind"} => worker.rv = c
    BY <2>1, Types, Distinct
  <2> QED
    BY <2>2, <2>3, <2>4 DEF HeldVersions
<1>2. \E v \in Versions : v \notin {cacheVersion, a, b, c}
  BY DEF Versions
<1>3. \E v \in Versions : v \notin HeldVersions
  BY <1>1, <1>2
<1>4. NewVersion \in Versions /\ NewVersion \notin HeldVersions
  BY <1>3 DEF NewVersion
<1> QED
  BY <1>4 DEF HeldVersions

LEMMA Rewrite ==
    ASSUME TypeOK, NEW claim, WriteTemplate(claim), UNCHANGED cacheVersion
    PROVE  template' = claim /\ Rewritten
BY NewVersionIsNew DEF WriteTemplate, Rewritten

-----------------------------------------------------------------------------
(***************************************************************************)
(* The policy that comes first.                                            *)
(***************************************************************************)
\* Higher is a strict order, and total, because names are.
LEMMA HigherIsTotal ==
    ASSUME TypeOK, NEW p \in Policies, NEW q \in Policies, NEW r \in Policies,
           policyCache[p] # None, policyCache[q] # None, policyCache[r] # None
    PROVE  /\ ~Higher(p, p)
           /\ p # q => Higher(p, q) \/ Higher(q, p)
           /\ Higher(p, q) /\ Higher(q, r) => Higher(p, r)
<1>1. p \in Int /\ q \in Int /\ r \in Int
  BY PoliciesAssumption
<1>2. /\ policyCache[p].priority \in Int /\ policyCache[p].match \in Int
      /\ policyCache[q].priority \in Int /\ policyCache[q].match \in Int
      /\ policyCache[r].priority \in Int /\ policyCache[r].match \in Int
  BY Types, Distinct
<1> QED
  BY <1>1, <1>2 DEF Higher

\* The list of matching policies has a first one.
LEMMA MatchIsFound ==
    ASSUME TypeOK, NEW p0 \in Policies, Matching(p0)
    PROVE  LookForMatchedPolicy # {}
<1> DEFINE S == {p \in Policies : /\ policyCache[p] # None /\ ~policyCache[p].deleting
                                  /\ policyCache[p].match > PriorityMisMatch}
           Above(p) == {q \in S : Higher(q, p)}
           T == {Cardinality(Above(p)) : p \in S}
<1>1. p0 \in S /\ \A p \in S : p \in Policies /\ policyCache[p] # None
  BY DEF Matching
<1>2. IsFiniteSet(S)
  BY PoliciesAssumption, FS_Subset
<1>3. \A p \in S : IsFiniteSet(Above(p)) /\ Cardinality(Above(p)) \in Nat
  BY <1>2, FS_Subset, FS_CardinalityType
<1>4. T \subseteq Nat /\ T # {}
  BY <1>1, <1>3
<1>5. PICK n \in T : \A m \in T : ~(m < n)
  <2>1. PICK n \in T : \A m \in T : <<m, n>> \notin OpToRel(<, Nat)
    BY <1>4, NatLessThanWellFounded, WFMin, Zenon
  <2> QED
    BY <1>4, <2>1 DEF OpToRel
<1>6. PICK p \in S : n = Cardinality(Above(p))
  BY <1>5
<1>7. ASSUME NEW q \in Above(p) PROVE FALSE
  <2>1. q \in S /\ Higher(q, p)
    OBVIOUS
  <2>2. \A r \in Above(q) : r \in Above(p)
    <3> TAKE r \in Above(q)
    <3>1. r \in S /\ Higher(r, q)
      OBVIOUS
    <3>2. Higher(r, p)
      BY <1>1, <2>1, <3>1, HigherIsTotal
    <3> QED
      BY <3>1, <3>2
  <2>3. q \notin Above(q)
    BY <1>1, <2>1, HigherIsTotal
  <2>4. Above(q) \in SUBSET Above(p) /\ Above(q) # Above(p)
    BY <2>2, <2>3, <1>7
  <2> HIDE DEF Above
  <2>5. Cardinality(Above(q)) <= Cardinality(Above(p)) /\ Cardinality(Above(q)) # Cardinality(Above(p))
    BY <1>3, <2>4, FS_Subset
  <2>6. Cardinality(Above(q)) \in T
    BY <2>1
  <2> QED
    BY <1>3, <1>5, <1>6, <2>1, <2>5, <2>6
<1>8. ASSUME NEW q \in S \ {p} PROVE Higher(p, q)
  <2>1. ~Higher(q, p)
    BY <1>7
  <2> QED
    BY <1>1, <2>1, HigherIsTotal
<1>9. p \in LookForMatchedPolicy
  BY <1>8 DEF LookForMatchedPolicy
<1> QED
  BY <1>9

-----------------------------------------------------------------------------
(***************************************************************************)
(* What the steps share.                                                   *)
(***************************************************************************)
\* A policy that the detector knows and that is not being deleted exists, and no
\* worker is about to remove its finalizer.
LEMMA LiveIsGuarded ==
    ASSUME IInv, NEW p \in Policies, policyCache[p] # None, ~policyCache[p].deleting
    PROVE  /\ policies[p] # None /\ policies[p].id = policyCache[p].id
           /\ sync[p].pc = "finalize" => sync[p].copy.id # policyCache[p].id
<1>1. policies[p] # None /\ policies[p].id = policyCache[p].id
  BY DEF IInv, PoliciesInOrder
<1>2. ASSUME sync[p].pc = "finalize", sync[p].copy.id = policyCache[p].id
      PROVE  FALSE
  <2>1. sync[p] # Idle
    BY <1>2, Types DEF IInv
  <2>2. sync[p] \in Syncing
    BY <2>1, Types DEF IInv
  <2>3. sync[p].copy # None
    BY <2>2, Distinct
  <2>4. sync[p].copy.deleting /\ Older(sync[p].copy, policyCache[p])
    BY <1>2, <2>1 DEF IInv, SyncFits
  <2> QED
    BY <1>2, <2>3, <2>4 DEF Older
<1> QED
  BY <1>1, <1>2

\* Numbers only grow.
LEMMA StillNumbered ==
    ASSUME TypeOK, events' = events \/ Event, NEW copy \in Policy \cup {None},
           copy # None => copy.id <= events /\ copy.version <= events
    PROVE  copy # None => copy.id <= events' /\ copy.version <= events'
<1>1. CASE copy = None
  BY <1>1
<1>2. CASE copy \in Policy /\ Event
  BY <1>2, Counted, Distinct
<1>3. CASE events' = events
  BY <1>3
<1> QED
  BY <1>1, <1>2, <1>3

\* The policies and the caches stay, and one policy worker goes on or ends.
LEMMA SyncStep ==
    ASSUME IInv, UNCHANGED <<policies, policyCache>>, events' = events \/ Event,
           NEW p \in Policies, \A q \in Policies \ {p} : sync'[q] = sync[q],
           \/ sync'[p] = sync[p]
           \/ sync'[p] = Idle
           \/ /\ sync[p] # Idle /\ sync'[p].copy = sync[p].copy
              /\ sync[p].copy.deleting <=>
                    sync'[p].pc \in {"cleanBinding", "cleanTemplate", "finalize"}
              /\ sync'[p].pc = "preempt" => sync[p].copy.match > PriorityMisMatch
    PROVE  PoliciesInOrder' /\ SyncFits'
<1>1. PoliciesInOrder'
  <2>1. \A q \in Policies :
           policies[q] \in Policy \cup {None} /\ policyCache[q] \in Policy \cup {None}
    BY Types DEF IInv
  <2>2. \A q \in Policies : Numbered(policies[q])' /\ Numbered(policyCache[q])'
    BY <2>1, StillNumbered DEF IInv, PoliciesInOrder, Numbered
  <2> QED
    BY <2>2 DEF IInv, PoliciesInOrder, Older
<1>2. \A q \in Policies : sync[q] # Idle => Numbered(sync[q].copy) /\ sync[q].copy \in Policy
  BY Types, Distinct DEF IInv, SyncFits
<1>3. \A q \in Policies : sync[q] # Idle => /\ sync[q].copy.id <= events'
                                            /\ sync[q].copy.version <= events'
  <2> TAKE q \in Policies
  <2> HAVE sync[q] # Idle
  <2>1. sync[q].copy \in Policy \cup {None} /\ sync[q].copy # None
    BY <1>2, Distinct
  <2> QED
    BY <1>2, <2>1, StillNumbered DEF IInv, Numbered
<1>4. ASSUME NEW q \in Policies, sync'[q] # Idle
      PROVE  /\ Numbered(sync[q].copy)'
             /\ Older(sync[q].copy, policyCache[q])' /\ Older(sync[q].copy, policies[q])'
             /\ (policies[q] = sync[q].copy => policyCache[q] = sync[q].copy)'
             /\ (sync[q].copy.deleting
                 <=> sync[q].pc \in {"cleanBinding", "cleanTemplate", "finalize"})'
             /\ (sync[q].pc = "preempt" => sync[q].copy.match > PriorityMisMatch)'
  <2>1. sync[q] # Idle /\ sync'[q].copy = sync[q].copy
    BY <1>4
  <2>2. Numbered(sync[q].copy)'
    BY <1>3, <2>1 DEF Numbered
  <2>3. /\ Older(sync[q].copy, policyCache[q])' /\ Older(sync[q].copy, policies[q])'
        /\ (policies[q] = sync[q].copy => policyCache[q] = sync[q].copy)'
    BY <2>1 DEF IInv, SyncFits, Older
  <2>4. /\ (sync[q].copy.deleting
            <=> sync[q].pc \in {"cleanBinding", "cleanTemplate", "finalize"})'
        /\ (sync[q].pc = "preempt" => sync[q].copy.match > PriorityMisMatch)'
    BY <1>4, <2>1 DEF IInv, SyncFits, PriorityMisMatch
  <2> QED
    BY <2>2, <2>3, <2>4
<1>5. SyncFits'
  BY <1>4 DEF SyncFits
<1> QED
  BY <1>1, <1>5

LEMMA PoliciesKept ==
    ASSUME IInv, UNCHANGED <<policies, policyCache, sync>>, events' = events \/ Event
    PROVE  PoliciesInOrder' /\ SyncFits'
<1>1. CASE Policies = {}
  BY <1>1 DEF PoliciesInOrder, SyncFits
<1>2. CASE Policies # {}
  BY <1>2, SyncStep
<1> QED
  BY <1>1, <1>2

\* The Processor's worker goes on with what it has, or ends.
LEMMA WorkerStep ==
    ASSUME IInv, UNCHANGED <<policies, policyCache>>, events' = events \/ Event,
           \/ worker' = worker
           \/ worker'.pc \notin {"claim", "bind"}
           \/ /\ worker.pc = "claim" /\ worker'.policy = worker.policy
              /\ worker'.copy = worker.copy
    PROVE  WorkerFits'
<1> SUFFICES ASSUME worker'.pc \in {"claim", "bind"}
             PROVE  /\ Numbered(worker.copy)' /\ ~worker'.copy.deleting
                    /\ worker'.copy.match > PriorityMisMatch
                    /\ policies'[worker'.policy] = worker'.copy
                          => policyCache'[worker'.policy] = worker'.copy
  BY DEF WorkerFits, PriorityMisMatch
<1>1. /\ worker.pc \in {"claim", "bind"} /\ worker'.policy = worker.policy
      /\ worker'.copy = worker.copy
  OBVIOUS
<1>2. worker.copy \in Policy /\ worker.copy # None
  BY <1>1, Types, Distinct DEF IInv
<1>3. Numbered(worker.copy)'
  BY <1>1, <1>2, StillNumbered DEF IInv, WorkerFits, Numbered
<1> QED
  BY <1>1, <1>3 DEF IInv, WorkerFits

-----------------------------------------------------------------------------
(***************************************************************************)
(* Users and informers.                                                    *)
(***************************************************************************)
\* A policy is created, or edited: no copy of it has the new version.
LEMMA UserStep ==
    ASSUME IInv, NEW p \in Policies, NEW new \in Policy, UserEdits(p, new),
           new.version = events + 1,
           \/ policies[p] = None /\ new.id = events + 1
           \/ /\ policies[p] # None /\ new.id = policies[p].id
              /\ policies[p].deleting => new.deleting
    PROVE  IInv'
<1>1. /\ Event /\ policies' = [policies EXCEPT ![p] = new]
      /\ UNCHANGED <<template, binding, policyCache, templateCache, bindingCache, templateVersion, cacheVersion,
                     bindingFresh, queued, waiting, worker, policyQueue, sync, stale>>
  BY DEF UserEdits, templateVars, cacheVars, resourceVars, policyVars
<1>2. /\ events \in Nat /\ events' = events + 1 /\ events' \in 0..MaxEvents
      /\ \A n \in Nat : n <= events => n <= events' /\ n # events'
  BY <1>1, Counted DEF IInv
<1>3. TypeOK'
  BY <1>1, <1>2 DEF IInv, TypeOK
<1>4. policies'[p] = new /\ \A q \in Policies \ {p} : policies'[q] = policies[q]
  BY <1>1 DEF IInv, TypeOK
<1>5. new # None /\ new.id \in Nat /\ new.version \in Nat
  BY Distinct
<1>6. CachesFit'
  BY <1>1 DEF IInv, CachesFit
<1>7. ASSUME NEW copy \in Policy \cup {None}, Numbered(copy), Older(copy, policies[p])
      PROVE  Older(copy, new) /\ copy # new
  <2>1. CASE copy = None
    BY <2>1, <1>5 DEF Older
  <2>2. CASE copy # None
    <3>1. copy \in Policy /\ copy.id \in Nat /\ copy.version \in Nat
      BY <2>2, Distinct
    <3>2. copy.id # events + 1 /\ copy.version # events + 1
      BY <1>2, <1>7, <2>2, <3>1 DEF Numbered
    <3> QED
      BY <1>7, <2>2, <3>2 DEF Older
  <2> QED
    BY <2>1, <2>2
<1>8. PoliciesInOrder'
  <2>1. \A q \in Policies : /\ policies[q] \in Policy \cup {None}
                            /\ policyCache[q] \in Policy \cup {None}
    BY Types DEF IInv
  <2>2. ASSUME NEW q \in Policies PROVE Numbered(policies[q])'
    <3>1. CASE q = p
      <4>1. new.id <= events'
        <5>1. policies[p] # None => policies[p].id <= events /\ policies[p].id \in Nat
          BY <2>1, Distinct DEF IInv, PoliciesInOrder, Numbered
        <5> QED
          BY <1>2, <5>1
      <4> QED
        BY <1>2, <1>4, <3>1, <4>1 DEF Numbered
    <3>2. CASE q # p
      BY <1>1, <1>4, <2>1, <3>2, StillNumbered DEF IInv, PoliciesInOrder, Numbered
    <3> QED
      BY <3>1, <3>2
  <2>3. \A q \in Policies : Numbered(policyCache[q])'
    BY <1>1, <2>1, StillNumbered DEF IInv, PoliciesInOrder, Numbered
  <2>4. Older(policyCache[p], new)
    BY <1>7, <2>1 DEF IInv, PoliciesInOrder
  <2>5. \A q \in Policies : Older(policyCache[q], policies[q])'
    BY <1>1, <1>4, <2>4 DEF IInv, PoliciesInOrder, Older
  <2>6. \A q \in Policies : (policyCache[q] # None /\ ~policyCache[q].deleting =>
              policies[q] # None /\ policies[q].id = policyCache[q].id)'
    BY <1>1, <1>4, <1>5 DEF IInv, PoliciesInOrder
  <2> QED
    BY <2>2, <2>3, <2>5, <2>6 DEF PoliciesInOrder
<1>9. SyncFits'
  <2>1. ASSUME NEW q \in Policies, sync'[q] # Idle
        PROVE  /\ Numbered(sync[q].copy)'
               /\ Older(sync[q].copy, policyCache[q])' /\ Older(sync[q].copy, policies[q])'
               /\ (policies[q] = sync[q].copy => policyCache[q] = sync[q].copy)'
               /\ (sync[q].copy.deleting
                   <=> sync[q].pc \in {"cleanBinding", "cleanTemplate", "finalize"})'
               /\ (sync[q].pc = "preempt" => sync[q].copy.match > PriorityMisMatch)'
    <3>1. sync[q] # Idle /\ sync[q].copy \in Policy
      BY <1>1, <2>1, Types, Distinct DEF IInv
    <3>2. Numbered(sync[q].copy)'
      BY <1>1, <3>1, StillNumbered DEF IInv, SyncFits, Numbered
    <3>3. Older(sync[q].copy, policyCache[q])'
      BY <1>1, <3>1 DEF IInv, SyncFits, Older
    <3>4. CASE q = p
      <4>1. Older(sync[p].copy, new) /\ sync[p].copy # new
        BY <1>7, <3>1, <3>4 DEF IInv, SyncFits
      <4>2. Older(sync[q].copy, policies[q])'
        BY <1>1, <1>4, <3>4, <4>1 DEF Older
      <4> QED
        BY <1>1, <1>4, <3>1, <3>2, <3>3, <3>4, <4>1, <4>2 DEF IInv, SyncFits, PriorityMisMatch
    <3>5. CASE q # p
      <4>1. Older(sync[q].copy, policies[q])'
        BY <1>1, <1>4, <3>1, <3>5 DEF IInv, SyncFits, Older
      <4> QED
        BY <1>1, <1>4, <3>1, <3>2, <3>3, <3>5, <4>1 DEF IInv, SyncFits, PriorityMisMatch
    <3> QED
      BY <3>4, <3>5
  <2> QED
    BY <2>1 DEF SyncFits
<1>10. WorkerFits'
  <2> SUFFICES ASSUME worker.pc \in {"claim", "bind"}
               PROVE  /\ Numbered(worker.copy)' /\ ~worker.copy.deleting
                      /\ worker.copy.match > PriorityMisMatch
                      /\ policies'[worker.policy] = worker.copy
                            => policyCache[worker.policy] = worker.copy
    BY <1>1 DEF WorkerFits, PriorityMisMatch
  <2>1. worker.copy \in Policy /\ worker.policy \in Policies /\ Numbered(worker.copy)
    BY Types, Distinct DEF IInv, WorkerFits
  <2>2. Numbered(worker.copy)'
    BY <1>1, <2>1, StillNumbered DEF IInv, Numbered
  <2>3. ~worker.copy.deleting /\ worker.copy.match > PriorityMisMatch
    BY DEF IInv, WorkerFits
  <2>4. worker.copy # new
    BY <1>7, <2>1, <2>3 DEF Older
  <2> QED
    BY <1>4, <2>1, <2>2, <2>3, <2>4 DEF IInv, WorkerFits
<1>11. template # None /\ Guarded => Guarded'
  <2>1. template # None => template.policy \in Policies
    BY Types, Distinct DEF IInv
  <2> QED
    BY <1>1, <1>4, <1>5, <2>1 DEF Guarded
<1>12. ClaimKept'
  BY <1>1, <1>11 DEF IInv, ClaimKept, Caught, Claiming, ClaimOf
<1>13. NothingMissed'
  BY <1>1 DEF IInv, NothingMissed, Caught, Claiming, ClaimOf, Matching, Coming, PriorityMisMatch
<1>14. ClaimCurrent'
  BY <1>1, <1>11 DEF IInv, ClaimCurrent, PriorityMisMatch
<1> QED
  BY <1>3, <1>6, <1>8, <1>9, <1>10, <1>12, <1>13, <1>14 DEF IInv

\* What the webhook lets pass for a new policy.
LEMMA NewPoliciesTyped ==
    ASSUME NEW p \in Policies, NEW n \in 0..MaxEvents, NEW new \in NewPolicies(p, n)
    PROVE  new \in Policy /\ new.id = n /\ new.version = n
<1>1. PICK c \in Contents[p] :
         new = [id |-> n, version |-> n, match |-> c.match, kind |-> c.kind,
                priority |-> c.priority, deleting |-> FALSE]
  BY DEF NewPolicies
<1>2. c.match \in Nat /\ c.kind \in BOOLEAN /\ c.priority \in Int
  BY ContentsAssumption DEF Content
<1> QED
  BY <1>1, <1>2 DEF Policy

\* What users do to a policy.
LEMMA Edited ==
    ASSUME IInv, NEW p \in Policies, Create(p) \/ Update(p) \/ Delete(p)
    PROVE  \E new \in Policy :
              /\ UserEdits(p, new) /\ new.version = events + 1
              /\ \/ policies[p] = None /\ new.id = events + 1
                 \/ /\ policies[p] # None /\ new.id = policies[p].id
                    /\ policies[p].deleting => new.deleting
<1>0. ASSUME Event PROVE events + 1 \in 0..MaxEvents
  BY <1>0, Counted DEF IInv
<1>1. CASE Create(p)
  <2>1. PICK new \in NewPolicies(p, events + 1) : UserEdits(p, new)
    BY <1>1 DEF Create
  <2>2. policies[p] = None /\ events + 1 \in 0..MaxEvents
    BY <1>0, <1>1, <2>1 DEF Create, UserEdits
  <2>3. new \in Policy /\ new.id = events + 1 /\ new.version = events + 1
    BY <2>2, NewPoliciesTyped
  <2> QED
    BY <2>1, <2>2, <2>3
<1>2. CASE Update(p)
  <2>1. PICK c \in Contents[p] :
           UserEdits(p, [policies[p] EXCEPT !.version = events + 1, !.match = c.match,
                                            !.kind = c.kind, !.priority = c.priority])
    BY <1>2 DEF Update
  <2>4. c.match \in Nat /\ c.kind \in BOOLEAN /\ c.priority \in Int
    BY ContentsAssumption DEF Content
  <2> DEFINE new == [policies[p] EXCEPT !.version = events + 1, !.match = c.match,
                                        !.kind = c.kind, !.priority = c.priority]
  <2>2. /\ policies[p] # None /\ policies[p] \in Policy
        /\ events + 1 \in 0..MaxEvents
    BY <1>0, <1>2, <2>1, Types DEF Update, UserEdits, IInv
  <2>3. /\ new \in Policy /\ new.version = events + 1 /\ new.id = policies[p].id
        /\ new.deleting = policies[p].deleting
    BY <2>2, <2>4 DEF Policy
  <2> HIDE DEF new
  <2> QED
    BY <2>1, <2>2, <2>3 DEF new
<1>3. CASE Delete(p)
  <2> DEFINE new == [policies[p] EXCEPT !.version = events + 1, !.deleting = TRUE]
  <2>1. UserEdits(p, new)
    BY <1>3 DEF Delete
  <2>2. /\ policies[p] # None /\ policies[p] \in Policy
        /\ events + 1 \in 0..MaxEvents
    BY <1>0, <1>3, <2>1, Types DEF Delete, UserEdits, IInv
  <2>3. new \in Policy /\ new.version = events + 1 /\ new.id = policies[p].id /\ new.deleting
    BY <2>2 DEF Policy
  <2> HIDE DEF new
  <2> QED
    BY <2>1, <2>2, <2>3
<1> QED
  BY <1>1, <1>2, <1>3

LEMMA UsersStep ==
    ASSUME IInv, NEW p \in Policies, Create(p) \/ Update(p) \/ Delete(p)
    PROVE  IInv'
BY Edited, UserStep

\* The policy informer: the cache takes the policy as it is, and a policy that exists
\* is queued.
LEMMA ObservePolicyStep ==
    ASSUME IInv, NEW p \in Policies, ObservePolicy(p)
    PROVE  IInv'
<1>1. /\ policyCache' = [policyCache EXCEPT ![p] = policies[p]]
      /\ UNCHANGED <<policies, template, binding, templateCache, bindingCache, templateVersion, cacheVersion,
                     bindingFresh, queued, waiting, worker, sync, stale, events>>
  BY DEF ObservePolicy, apiVars, templateVars, resourceVars
<1>2. policyQueue \subseteq policyQueue' /\ (policies[p] # None => p \in policyQueue')
  BY DEF ObservePolicy
<1>3. policyQueue' \subseteq Policies
  BY PoliciesAssumption DEF ObservePolicy, Deprioritized, IInv, TypeOK
<1>4. TypeOK'
  BY <1>1, <1>3 DEF IInv, TypeOK
<1>5. policyCache'[p] = policies[p] /\ \A q \in Policies \ {p} : policyCache'[q] = policyCache[q]
  BY <1>1 DEF IInv, TypeOK
<1>6. CachesFit'
  BY <1>1 DEF IInv, CachesFit
<1>7. PoliciesInOrder'
  BY <1>1, <1>5 DEF IInv, PoliciesInOrder, Older, Numbered
<1>8. SyncFits'
  BY <1>1, <1>5 DEF IInv, SyncFits, Older, Numbered, PriorityMisMatch
<1>9. WorkerFits'
  <2>1. worker.pc \in {"claim", "bind"} => worker.policy \in Policies
    BY Types, Distinct DEF IInv
  <2> QED
    BY <1>1, <1>5, <2>1 DEF IInv, WorkerFits, Numbered, PriorityMisMatch
<1>10. template # None => template.policy \in Policies
  BY Types, Distinct DEF IInv
<1>11. template # None /\ Guarded => Guarded'
  BY <1>1, <1>2, <1>5, <1>10 DEF Guarded
<1>12. ClaimKept'
  BY <1>1, <1>11 DEF IInv, ClaimKept, Caught, Claiming, ClaimOf
<1>13. ASSUME NEW q \in Policies, Matching(q)', Matching(q) => Coming(q)
       PROVE  Coming(q)'
  BY <1>1, <1>2, <1>5, <1>13 DEF Matching, Coming, PriorityMisMatch
<1>14. NothingMissed'
  BY <1>1, <1>13 DEF IInv, NothingMissed, Caught, Claiming, ClaimOf
<1>15. ClaimCurrent'
  BY <1>1, <1>2, <1>5, <1>10, <1>11 DEF IInv, ClaimCurrent, Guarded, PriorityMisMatch
<1> QED
  BY <1>4, <1>6, <1>7, <1>8, <1>9, <1>12, <1>14, <1>15 DEF IInv

\* The other informers.  A new version of the template wakes the Processor.
LEMMA ObserveStep ==
    ASSUME IInv, ObserveTemplate \/ ObserveBinding
    PROVE  IInv'
<1>1. UNCHANGED <<policies, template, binding, policyCache, waiting, worker, policyQueue, sync,
                  stale, events>>
  BY DEF ObserveTemplate, ObserveBinding, apiVars, templateVars, resourceVars, policyVars
<1>2. \/ queued' = TRUE
      \/ UNCHANGED <<queued, templateVersion, cacheVersion>>
  BY DEF ObserveTemplate, ObserveBinding, apiVars, templateVars, resourceVars
<1>3. TypeOK'
  BY <1>1 DEF IInv, TypeOK, ObserveTemplate, ObserveBinding, apiVars, templateVars,
         resourceVars
<1>4. CachesFit'
  <2>1. Cache \notin Policies
    BY PoliciesAssumption DEF Cache
  <2>2. CASE ObserveTemplate
    BY <1>1, <2>2 DEF ObserveTemplate, IInv, CachesFit
  <2>3. CASE ObserveBinding
    BY <1>1, <2>1, <2>3 DEF ObserveBinding, apiVars, templateVars, IInv, CachesFit
  <2> QED
    BY <2>2, <2>3
<1>5. PoliciesInOrder' /\ SyncFits'
  BY <1>1, PoliciesKept
<1>6. WorkerFits'
  BY <1>1, WorkerStep
<1>7. Caught' => Caught
  BY <1>2 DEF Caught
<1>8. ClaimKept'
  BY <1>1, <1>7 DEF IInv, ClaimKept, Claiming, ClaimOf, Guarded
<1>9. NothingMissed'
  BY <1>1, <1>7 DEF IInv, NothingMissed, Claiming, ClaimOf, Matching, Coming, PriorityMisMatch
<1>10. ClaimCurrent'
  BY <1>1 DEF IInv, ClaimCurrent, Guarded, PriorityMisMatch
<1> QED
  BY <1>3, <1>4, <1>5, <1>6, <1>8, <1>9, <1>10 DEF IInv

-----------------------------------------------------------------------------
(***************************************************************************)
(* The Processor.                                                          *)
(***************************************************************************)
\* No step of its worker touches the policies, or forgets a mistake.
LEMMA ClaimCurrentKept ==
    ASSUME IInv, UNCHANGED <<policies, policyCache, template, policyQueue, sync>>,
           stale \subseteq stale'
    PROVE  ClaimCurrent' /\ (Guarded => Guarded')
BY DEF IInv, ClaimCurrent, Guarded, PriorityMisMatch

\* Reconcile decides on the template as it is, or the next version will wake it again.
LEMMA ReconcileStep ==
    ASSUME IInv, Reconcile
    PROVE  IInv'
<1>1. /\ worker = Idle /\ worker.pc = "idle"
      /\ UNCHANGED <<policies, template, binding, policyCache, templateCache, bindingCache,
                     bindingFresh, policyQueue, sync, events>>
  BY Distinct DEF Reconcile, KeepTemplate, templateVars, KeepBinding, WorkerUnchanged, policyVars
<1>2. stale' = Mistaken /\ stale \subseteq stale' /\ stale' \subseteq stale \cup {"id"}
  BY DEF Reconcile, Mistaken
<1>3. UNCHANGED <<templateVersion, cacheVersion>>
  BY DEF Reconcile, KeepTemplate, templateVars, WorkerUnchanged, templateVars
<1>4. ASSUME NEW p \in Policies, Matching(p), Apply(p)
      PROVE  /\ worker' \in Applying /\ worker'.pc = "claim"
             /\ worker'.object = templateCache /\ worker'.policy = p
             /\ worker'.copy = policyCache[p] /\ policyCache[p] \in Policy
  <2>1. policyCache[p] \in Policy /\ templateCache \in Claim \cup {None}
    BY <1>4, Types DEF IInv, Matching
  <2> QED
    BY <1>4, <2>1 DEF Apply, Applying, IInv, TypeOK
<1>5. \/ /\ templateCache # None /\ policyCache[templateCache.policy] = None
         /\ worker' = [pc |-> "cleanBinding", target |-> templateCache]
         /\ queued' = FALSE /\ waiting' = waiting
      \/ /\ templateCache # None
         /\ worker' = Idle /\ queued' = TRUE /\ waiting' = waiting
      \/ /\ templateCache # None /\ policyCache[templateCache.policy] # None
         /\ ~policyCache[templateCache.policy].deleting
         /\ policyCache[templateCache.policy].match = PriorityMisMatch
         /\ worker' = Idle /\ queued' = FALSE /\ waiting' = waiting
      \/ /\ templateCache # None /\ Matching(templateCache.policy)
         /\ Apply(templateCache.policy) /\ queued' = FALSE /\ waiting' = waiting
      \/ /\ templateCache = None /\ queued' = FALSE /\ waiting' = FALSE
         /\ \E p \in Policies : Matching(p) /\ Apply(p)
      \/ /\ templateCache = None /\ queued' = FALSE /\ waiting' = waiting
         /\ worker' = [pc |-> "wait"] /\ LookForMatchedPolicy = {}
  <2>1. CASE templateCache # None
    <3>1. GetAndApplyPolicy /\ waiting' = waiting /\ templateCache.policy \in Policies
      BY <2>1, Types, Distinct DEF Reconcile, IInv
    <3>2. policyCache[templateCache.policy] # None =>
             policyCache[templateCache.policy].match \in Nat
      BY <3>1, Types, Distinct DEF IInv
    <3> QED
      BY <2>1, <3>1, <3>2 DEF GetAndApplyPolicy, Matching, PriorityMisMatch
  <2>2. CASE templateCache = None
    <3>1. \A p \in LookForMatchedPolicy : p \in Policies /\ Matching(p)
      BY DEF LookForMatchedPolicy, Matching
    <3> QED
      BY <2>2, <3>1 DEF Reconcile
  <2> QED
    BY <2>1, <2>2
<1>6. templateCache # None => templateCache \in Claim /\ templateCache.policy \in Policies
  BY Types, Distinct DEF IInv
<1>7. /\ worker' \in {Idle, [pc |-> "wait"]} \cup Applying \cup Cleaning
      /\ queued' \in BOOLEAN /\ waiting' \in BOOLEAN
  <2>1. templateCache # None => [pc |-> "cleanBinding", target |-> templateCache] \in Cleaning
    BY <1>6 DEF Cleaning
  <2>2. waiting \in BOOLEAN
    BY DEF IInv, TypeOK
  <2> QED
    BY <1>4, <1>5, <1>6, <2>1, <2>2
<1>8. TypeOK'
  BY <1>1, <1>2, <1>3, <1>7 DEF IInv, TypeOK
<1>9. CachesFit'
  BY <1>1, <1>3 DEF IInv, CachesFit
<1>10. PoliciesInOrder' /\ SyncFits'
  BY <1>1, PoliciesKept
<1>11. WorkerFits'
  <2>1. CASE worker'.pc \notin {"claim", "bind"}
    BY <2>1 DEF WorkerFits
  <2>2. ASSUME NEW p \in Policies, Matching(p), Apply(p) PROVE WorkerFits'
    <3>1. worker'.policy = p /\ worker'.copy = policyCache[p]
      BY <1>4, <2>2
    <3>2. Numbered(policyCache[p])
      BY DEF IInv, PoliciesInOrder
    <3> QED
      BY <1>1, <2>2, <3>1, <3>2 DEF WorkerFits, Numbered, Matching, PriorityMisMatch
  <2> QED
    BY <1>5, <1>6, <2>1, <2>2, Distinct
<1>12. Caught' => ~queued' /\ templateCache = template
  BY <1>3 DEF Caught, IInv, CachesFit
<1>13. ClaimKept'
  <2> SUFFICES ASSUME Caught', template # None, "id" \notin stale', "kind" \notin stale'
               PROVE  \/ /\ worker'.pc \in {"cleanBinding", "cleanTemplate"}
                         /\ worker'.target = template
                      \/ Claiming'
                      \/ Guarded'
    BY <1>1 DEF ClaimKept
  <2>1. ASSUME policyCache[template.policy] # None, ~policyCache[template.policy].deleting,
               policyCache[template.policy].id = template.id
        PROVE  Guarded'
    <3>1. Guarded
      BY <1>6, <1>12, <2>1, LiveIsGuarded DEF Guarded
    <3> QED
      BY <1>1, <1>2, <3>1, ClaimCurrentKept
  <2>2. CASE worker' = [pc |-> "cleanBinding", target |-> templateCache]
    BY <1>12, <2>2
  <2>3. CASE /\ policyCache[template.policy] # None /\ ~policyCache[template.policy].deleting
             /\ policyCache[template.policy].match = PriorityMisMatch
    BY <1>2, <1>12, <2>1, <2>3 DEF Mistaken
  <2>4. CASE Matching(template.policy) /\ Apply(template.policy)
    <3>1. /\ worker'.pc = "claim" /\ worker'.object = template
          /\ worker'.policy = template.policy /\ worker'.copy = policyCache[template.policy]
          /\ policyCache[template.policy] \in Policy
      BY <1>4, <1>6, <1>12, <2>4
    <3>2. CASE policyCache[template.policy].id = template.id
      BY <2>1, <2>4, <3>2 DEF Matching
    <3>3. CASE policyCache[template.policy].id # template.id
      <4>1. template # ClaimOf(template.policy, policyCache[template.policy])
        BY <1>6, <1>12, <3>1, <3>3, Claims
      <4> QED
        BY <3>1, <4>1 DEF Claiming, ClaimOf
    <3> QED
      BY <3>2, <3>3
  <2> QED
    BY <1>5, <1>12, <2>2, <2>3, <2>4
<1>14. NothingMissed'
  <2> SUFFICES ASSUME Caught', template = None
               PROVE  \/ Claiming'
                      \/ worker'.pc = "wait" /\ ~waiting'
                      \/ waiting' /\ \A p \in Policies : Matching(p)' => Coming(p)'
    BY <1>1 DEF NothingMissed
  <2>1. ASSUME NEW p \in Policies, Matching(p), Apply(p) PROVE Claiming'
    <3>1. ClaimOf(p, policyCache[p]) # None
      BY <1>4, <2>1, Claims, Distinct
    <3> QED
      BY <1>4, <1>12, <2>1, <3>1 DEF Claiming, ClaimOf
  <2>2. CASE worker' = [pc |-> "wait"] /\ waiting' = waiting /\ LookForMatchedPolicy = {}
    <3>1. \A p \in Policies : ~Matching(p)
      BY <2>2, MatchIsFound DEF IInv
    <3>2. \A p \in Policies : ~Matching(p)'
      BY <1>1, <3>1 DEF Matching, PriorityMisMatch
    <3> QED
      BY <1>7, <2>2, <3>2, Distinct
  <2> QED
    BY <1>5, <1>12, <2>1, <2>2
<1>15. ClaimCurrent'
  BY <1>1, <1>2, ClaimCurrentKept
<1> QED
  BY <1>8, <1>9, <1>10, <1>11, <1>13, <1>14, <1>15 DEF IInv

\* A template that waits is tried once more, unless it was waiting before.
LEMMA AddWaitingStep ==
    ASSUME IInv, AddWaiting
    PROVE  IInv'
<1>1. /\ worker.pc = "wait" /\ worker' = Idle /\ waiting' = TRUE
      /\ queued' = (queued \/ ~waiting)
      /\ UNCHANGED <<policies, template, binding, policyCache, templateCache, bindingCache,
                     templateVersion, cacheVersion, bindingFresh, policyQueue, sync, stale, events>>
  BY DEF AddWaiting, KeepTemplate, templateVars, KeepBinding, WorkerUnchanged, policyVars
<1>2. TypeOK'
  BY <1>1 DEF IInv, TypeOK
<1>3. CachesFit'
  BY <1>1 DEF IInv, CachesFit
<1>4. PoliciesInOrder' /\ SyncFits'
  BY <1>1, PoliciesKept
<1>5. WorkerFits'
  BY <1>1, WorkerStep, Distinct
<1>6. ClaimCurrent' /\ (Guarded => Guarded')
  BY <1>1, ClaimCurrentKept
<1>7. Caught' => Caught /\ waiting
  BY <1>1 DEF Caught
<1>8. ClaimKept'
  BY <1>1, <1>6, <1>7 DEF IInv, ClaimKept, Claiming
<1>9. NothingMissed'
  BY <1>1, <1>7 DEF IInv, NothingMissed, Claiming, Matching, Coming, PriorityMisMatch
<1> QED
  BY <1>2, <1>3, <1>4, <1>5, <1>6, <1>8, <1>9 DEF IInv

\* A claim of the policy as it is: the policy is there to clean up after it.
LEMMA NewClaim ==
    ASSUME IInv, NEW p \in Policies, NEW copy \in Policy,
           policyCache[p] = copy, ~copy.deleting, copy.match > PriorityMisMatch,
           UNCHANGED <<policies, policyCache>>, template' = ClaimOf(p, copy),
           sync'[p] = Idle \/ sync'[p] = sync[p]
    PROVE  ClaimCurrent'
<1>1. copy # None /\ copy.match # PriorityMisMatch
  BY Distinct DEF PriorityMisMatch
<1>2. template'.policy = p /\ template'.id = copy.id
  BY Claims
<1>3. /\ policies[p] # None /\ policies[p].id = copy.id
      /\ sync[p].pc = "finalize" => sync[p].copy.id # copy.id
  BY <1>1, LiveIsGuarded
<1>4. sync'[p].pc = "finalize" => sync'[p].copy.id # copy.id
  BY <1>3, Distinct
<1>5. Guarded'
  BY <1>1, <1>2, <1>3, <1>4 DEF Guarded
<1> QED
  BY <1>1, <1>2, <1>5 DEF ClaimCurrent, PriorityMisMatch

\* The claim is written, found written, or the template has changed.
LEMMA ClaimPolicyStep ==
    ASSUME IInv, ClaimPolicyForObject
    PROVE  IInv'
<1> DEFINE p == worker.policy
           copy == worker.copy
           claim == ClaimOf(worker.policy, worker.copy)
<1>1. /\ worker.pc = "claim"
      /\ UNCHANGED <<policies, binding, policyCache, templateCache, bindingCache, cacheVersion,
                     bindingFresh, waiting, policyQueue, sync, events>>
      /\ stale' = Outdated(p, copy)
  BY DEF ClaimPolicyForObject, KeepBinding, WorkerUnchanged, policyVars
<1> DEFINE next(rv) == [worker EXCEPT !.pc = "bind", !.object = claim, !.rv = rv]
<1>2. \/ /\ worker.object # claim /\ template' = claim /\ Rewritten
         /\ worker' = next(templateVersion') /\ UNCHANGED queued
      \/ /\ worker.object = claim /\ UNCHANGED <<template, templateVersion, cacheVersion, queued>>
         /\ worker' = next(worker.rv)
      \/ /\ UNCHANGED <<template, templateVersion, cacheVersion>> /\ worker' = Idle /\ queued' = TRUE
  BY <1>1, Rewrite DEF ClaimPolicyForObject, KeepTemplate, templateVars, IInv
<1>3. worker \in Applying /\ p \in Policies /\ copy \in Policy
  BY <1>1, Types, Distinct DEF IInv
<1>5. claim \in Claim
  BY <1>3, Claims
<1>4. /\ worker.rv \in Versions
      /\ \A rv \in Versions : /\ next(rv) \in Applying /\ next(rv).pc = "bind"
                               /\ next(rv).policy = p /\ next(rv).copy = copy
  <2> HIDE DEF claim
  <2> QED
    BY <1>3, <1>5 DEF Applying
<1> HIDE DEF next
<1>6. /\ stale \subseteq stale' /\ stale' \subseteq stale \cup {"policy"}
      /\ "policy" \notin stale' => policies[p] = copy
  BY <1>1 DEF Outdated
<1>7. TypeOK'
  <2> HIDE DEF claim
  <2>1. worker' \in {Idle} \cup Applying
    BY <1>2, <1>4 DEF Rewritten
  <2>2. template' \in Claim \cup {None} /\ templateVersion' \in Versions /\ queued' \in BOOLEAN
    BY <1>2, <1>5 DEF IInv, TypeOK, Rewritten
  <2> QED
    BY <1>1, <1>6, <2>1, <2>2 DEF IInv, TypeOK
<1>8. CachesFit'
  BY <1>1, <1>2 DEF IInv, CachesFit, Rewritten
<1>9. PoliciesInOrder' /\ SyncFits'
  BY <1>1, PoliciesKept
<1>10. WorkerFits'
  BY <1>1, <1>2, <1>4, WorkerStep, Distinct DEF Rewritten
<1>11. CASE template' = claim /\ Rewritten
  <2>1. ~Caught'
    BY <1>11 DEF Caught, Rewritten
  <2>2. ClaimKept' /\ NothingMissed'
    BY <2>1 DEF ClaimKept, NothingMissed
  <2>3. ClaimCurrent'
    <3>1. CASE "policy" \in stale'
      BY <3>1 DEF ClaimCurrent
    <3>2. CASE "policy" \notin stale'
      <4>1. policyCache[p] = copy /\ ~copy.deleting /\ copy.match > PriorityMisMatch
        BY <1>1, <1>6, <3>2 DEF IInv, WorkerFits
      <4> QED
        BY <1>1, <1>3, <1>11, <4>1, NewClaim
    <3> QED
      BY <3>1, <3>2
  <2> QED
    BY <1>7, <1>8, <1>9, <1>10, <2>2, <2>3 DEF IInv
<1>12. CASE /\ UNCHANGED <<template, templateVersion, cacheVersion>>
            /\ queued' = TRUE \/ (worker.object = claim /\ UNCHANGED queued)
  <2>1. ClaimCurrent' /\ (Guarded => Guarded')
    BY <1>1, <1>6, <1>12, ClaimCurrentKept
  <2>2. Caught' => Caught /\ worker.object = claim
    BY <1>12 DEF Caught
  <2>3. ClaimKept'
    BY <1>1, <1>6, <1>12, <2>1, <2>2 DEF IInv, ClaimKept, Claiming
  <2>4. NothingMissed'
    BY <1>1, <1>12, <2>2
    DEF IInv, NothingMissed, Claiming, Matching, Coming, PriorityMisMatch
  <2> QED
    BY <1>7, <1>8, <1>9, <1>10, <2>1, <2>3, <2>4 DEF IInv
<1> QED
  BY <1>2, <1>11, <1>12

\* The template stays, and the worker does not end a claim or a cleanup.
LEMMA TemplateLeft ==
    ASSUME IInv,
           UNCHANGED <<policies, template, policyCache, templateVersion, cacheVersion, waiting, policyQueue, sync>>,
           queued => queued',
           stale \subseteq stale',
           \/ ~queued' => ~Claiming /\ worker.pc # "wait"
                          /\ worker.pc \notin {"cleanBinding", "cleanTemplate"}
           \/ /\ worker.pc = "cleanBinding"
              /\ worker'.pc = "cleanTemplate" /\ worker'.target = worker.target
           \/ worker.pc = "cleanTemplate" /\ worker.target # template
    PROVE  ClaimKept' /\ NothingMissed' /\ ClaimCurrent'
<1>1. ClaimCurrent' /\ (Guarded => Guarded')
  BY ClaimCurrentKept
<1>2. Caught' => Caught /\ ~queued'
  BY DEF Caught
<1>3. ClaimKept'
  BY <1>1, <1>2 DEF IInv, ClaimKept, Claiming
<1>4. NothingMissed'
  BY <1>2 DEF IInv, NothingMissed, Claiming, Matching, Coming, PriorityMisMatch
<1> QED
  BY <1>1, <1>3, <1>4

\* The binding is built.
LEMMA ApplyPolicyStep ==
    ASSUME IInv, ApplyPolicy
    PROVE  IInv'
<1> DEFINE built == BuildResourceBinding
<1>1. /\ worker.pc = "bind" /\ worker' = Idle
      /\ UNCHANGED <<policies, template, policyCache, templateCache, bindingCache,
                     templateVersion, cacheVersion, waiting, policyQueue, sync, events>>
      /\ queued => queued'
      /\ stale \subseteq stale' /\ stale' \subseteq stale \cup {"policy", "binding"}
      /\ \/ binding' = built /\ bindingFresh' = {}
         \/ UNCHANGED <<binding, bindingFresh>>
  BY DEF ApplyPolicy, Outdated, WriteBinding, KeepBinding, KeepTemplate, templateVars, WorkerUnchanged,
         policyVars
<1>2. worker.policy \in Policies /\ worker.copy \in Policy
  BY <1>1, Types, Distinct DEF IInv
<1>3. built \in Binding
  <2>1. /\ ClaimOf(worker.policy, worker.copy) \in Claim
        /\ worker.copy.version \in 0..MaxEvents /\ worker.rv \in Versions
    BY <1>1, <1>2, Types, Claims, Distinct DEF IInv
  <2> QED
    BY <2>1 DEF Binding, BuildResourceBinding
<1>4. queued' \in BOOLEAN
  BY DEF ApplyPolicy, IInv, TypeOK
<1>5. TypeOK'
  BY <1>1, <1>3, <1>4 DEF IInv, TypeOK
<1>6. CachesFit'
  BY <1>1, <1>3, Distinct DEF IInv, CachesFit
<1>7. PoliciesInOrder' /\ SyncFits'
  BY <1>1, PoliciesKept
<1>8. WorkerFits'
  BY <1>1, WorkerStep, Distinct
<1>9. ClaimKept' /\ NothingMissed' /\ ClaimCurrent'
  BY <1>1, TemplateLeft DEF Claiming
<1> QED
  BY <1>5, <1>6, <1>7, <1>8, <1>9 DEF IInv

\* CleanupResourceBindingClaimMetadata leaves a binding where there was one.
LEMMA BindingCleaned ==
    ASSUME IInv, NEW target, CleanupResourceBindingClaimMetadata(target),
           UNCHANGED <<template, templateCache, bindingCache, templateVersion, cacheVersion>>
    PROVE  /\ CachesFit'
           /\ binding' \in Binding \cup {None} /\ bindingFresh' \subseteq {Cache} \cup Policies
           /\ stale \subseteq stale' /\ stale' \subseteq stale \cup {"binding"}
<1>1. CASE SeenBinding # None /\ binding' = [binding EXCEPT !.claim = None]
           /\ bindingFresh' = {} /\ UNCHANGED stale
  <2>1. binding \in Binding
    BY <1>1, Types DEF SeenBinding, IInv, CachesFit
  <2>2. [binding EXCEPT !.claim = None] \in Binding
    BY <2>1 DEF Binding
  <2> QED
    BY <1>1, <2>2, Distinct DEF IInv, CachesFit
<1>2. CASE UNCHANGED <<binding, bindingFresh>> /\ stale' \in {stale, stale \cup {"binding"}}
  BY <1>2 DEF IInv, CachesFit, TypeOK
<1> QED
  BY <1>1, <1>2 DEF CleanupResourceBindingClaimMetadata, WriteBinding, KeepBinding

\* The Processor lets go of a claim whose policy is gone: the binding, then the template.
LEMMA WorkerCleansStep ==
    ASSUME IInv, WorkerCleanBinding \/ WorkerCleanTemplate
    PROVE  IInv'
<1>1. UNCHANGED <<policies, policyCache, templateCache, bindingCache, cacheVersion, waiting,
                  queued, policyQueue, sync, events>>
  BY DEF WorkerCleanBinding, WorkerCleanTemplate, WorkerUnchanged, policyVars
<1>2. PoliciesInOrder' /\ SyncFits'
  BY <1>1, PoliciesKept
<1>3. ASSUME WorkerCleanBinding PROVE IInv'
  <2>1. /\ worker.pc = "cleanBinding" /\ worker' = [worker EXCEPT !.pc = "cleanTemplate"]
        /\ UNCHANGED <<template, templateVersion, cacheVersion>>
        /\ CleanupResourceBindingClaimMetadata(worker.target)
    BY <1>1, <1>3 DEF WorkerCleanBinding, KeepTemplate, templateVars
  <2>2. worker \in Cleaning
    BY <2>1, Types DEF IInv
  <2>3. /\ worker' \in Cleaning /\ worker'.pc = "cleanTemplate"
        /\ worker'.target = worker.target
    BY <2>1, <2>2 DEF Cleaning
  <2>4. /\ CachesFit'
        /\ binding' \in Binding \cup {None} /\ bindingFresh' \subseteq {Cache} \cup Policies
        /\ stale \subseteq stale' /\ stale' \subseteq stale \cup {"binding"}
    BY <1>1, <2>1, BindingCleaned
  <2>5. TypeOK'
    BY <1>1, <2>1, <2>3, <2>4 DEF IInv, TypeOK
  <2>6. WorkerFits'
    BY <1>1, <2>3, WorkerStep
  <2>7. ClaimKept' /\ NothingMissed' /\ ClaimCurrent'
    BY <1>1, <2>1, <2>3, <2>4, TemplateLeft
  <2> QED
    BY <1>2, <2>4, <2>5, <2>6, <2>7 DEF IInv
<1>4. ASSUME WorkerCleanTemplate PROVE IInv'
  <2>1. /\ worker.pc = "cleanTemplate" /\ worker' = Idle
        /\ UNCHANGED <<binding, bindingFresh, stale>>
        /\ \/ template' = None /\ Rewritten
           \/ worker.target # template /\ UNCHANGED <<template, templateVersion, cacheVersion>>
    BY <1>1, <1>4, Rewrite
    DEF WorkerCleanTemplate, KeepBinding, KeepTemplate, templateVars, IInv,
                CleanupResourceTemplateClaimMetadata
  <2>2. TypeOK'
    BY <1>1, <2>1 DEF IInv, TypeOK, Rewritten
  <2>3. CachesFit'
    BY <1>1, <2>1 DEF IInv, CachesFit, Rewritten
  <2>4. WorkerFits'
    BY <1>1, <2>1, WorkerStep, Distinct
  <2>5. ClaimKept' /\ NothingMissed' /\ ClaimCurrent'
    <3>1. CASE template' = None /\ Rewritten
      BY <3>1 DEF ClaimKept, NothingMissed, ClaimCurrent, Caught, Rewritten
    <3>2. CASE worker.target # template /\ UNCHANGED <<template, templateVersion, cacheVersion>>
      BY <1>1, <2>1, <3>2, TemplateLeft
    <3> QED
      BY <2>1, <3>1, <3>2
  <2> QED
    BY <1>2, <2>2, <2>3, <2>4, <2>5 DEF IInv
<1> QED
  BY <1>3, <1>4

-----------------------------------------------------------------------------
(***************************************************************************)
(* The policy workers.                                                     *)
(***************************************************************************)
\* Somebody lets go of the template, and the informer is yet to say so.
LEMMA LetGo ==
    ASSUME template' = None, Rewritten
    PROVE  ClaimKept' /\ NothingMissed' /\ ClaimCurrent'
BY DEF ClaimKept, NothingMissed, ClaimCurrent, Caught, Rewritten

\* The template stays while the worker of p goes on: what it was to do for a claim, or
\* for a template that waits, it will do yet, or it is queued again, or has done.
LEMMA SyncLeavesTemplate ==
    ASSUME IInv, NEW p \in Policies,
           UNCHANGED <<template, policyCache, templateVersion, cacheVersion, worker>>,
           queued => queued', stale \subseteq stale',
           "id" \in stale' => "id" \in stale,
           \A q \in Policies \ {p} :
              /\ policies'[q] = policies[q] /\ sync'[q] = sync[q]
              /\ q \in policyQueue => q \in policyQueue',
           ~queued' => waiting' = waiting,
           template # None /\ template.policy = p /\ Guarded /\ "kind" \notin stale' => Guarded',
           ~queued' /\ waiting /\ Matching(p) /\ Coming(p) => Coming(p)',
           /\ template # None /\ template.policy = p /\ Guarded
           /\ policyCache[p].match = PriorityMisMatch /\ ~policyCache[p].deleting
           /\ "policy" \notin stale' /\ "list" \notin stale' /\ "kind" \notin stale'
           /\ \/ p \in policyQueue
              \/ sync[p].pc = "unmatched" /\ sync[p].copy.match = PriorityMisMatch
                 /\ sync[p].copy.id = template.id
           => \/ p \in policyQueue'
              \/ sync'[p].pc = "unmatched" /\ sync'[p].copy.match = PriorityMisMatch
                 /\ sync'[p].copy.id = template.id
    PROVE  ClaimKept' /\ NothingMissed' /\ ClaimCurrent'
<1>1. Caught' => Caught /\ ~queued'
  BY DEF Caught
<1>2. template # None => template.policy \in Policies
  BY Types, Distinct DEF IInv
<1>3. template # None /\ Guarded /\ "kind" \notin stale' => Guarded'
  BY <1>2 DEF Guarded
<1>4. ClaimKept'
  BY <1>1, <1>3 DEF IInv, ClaimKept, Claiming
<1>5. NothingMissed'
  <2>1. \A q \in Policies : Matching(q)' <=> Matching(q)
    BY DEF Matching, PriorityMisMatch
  <2>2. ASSUME NEW q \in Policies, ~queued', waiting, Matching(q), Coming(q)
        PROVE  Coming(q)'
    BY <2>2 DEF Coming, PriorityMisMatch
  <2> QED
    BY <1>1, <2>1, <2>2 DEF IInv, NothingMissed, Claiming
<1>6. ClaimCurrent'
  <2> SUFFICES ASSUME template # None, "policy" \notin stale', "list" \notin stale',
                      "kind" \notin stale'
               PROVE  /\ Guarded'
                      /\ policyCache[template.policy].match = PriorityMisMatch
                         /\ ~policyCache[template.policy].deleting =>
                            \/ template.policy \in policyQueue'
                            \/ /\ sync'[template.policy].pc = "unmatched"
                               /\ sync'[template.policy].copy.match = PriorityMisMatch
                               /\ sync'[template.policy].copy.id = template.id
    BY DEF ClaimCurrent, PriorityMisMatch
  <2>1. /\ Guarded
        /\ policyCache[template.policy].match = PriorityMisMatch
           /\ ~policyCache[template.policy].deleting =>
              \/ template.policy \in policyQueue
              \/ /\ sync[template.policy].pc = "unmatched"
                 /\ sync[template.policy].copy.match = PriorityMisMatch
                 /\ sync[template.policy].copy.id = template.id
    BY DEF IInv, ClaimCurrent
  <2> QED
    BY <1>2, <1>3, <2>1
<1> QED
  BY <1>4, <1>5, <1>6

\* A policy worker starts with the cached copy, and lists the claim of that policy.
LEMMA ReconcilePolicyStep ==
    ASSUME IInv, NEW p \in Policies, ReconcilePropagationPolicy(p)
    PROVE  IInv'
<1> DEFINE copy == policyCache[p]
           pc == IF ~copy.deleting THEN "unmatched"
                 ELSE IF Listed(p, copy) THEN "cleanBinding"
                 ELSE "finalize"
           s == IF copy = None THEN Idle ELSE [copy |-> copy, pc |-> pc]
<1>1. /\ sync[p] = Idle /\ policyQueue' = policyQueue \ {p}
      /\ sync' = [sync EXCEPT ![p] = s]
      /\ UNCHANGED <<policies, template, binding, policyCache, templateCache, bindingCache,
                     templateVersion, cacheVersion, bindingFresh, queued, waiting, worker, events>>
      /\ stale \subseteq stale' /\ stale' \subseteq stale \cup {"binding", "kind"}
      /\ copy # None /\ copy.deleting => stale' = Unlisted(p, copy)
  BY DEF ReconcilePropagationPolicy, Unlisted, KeepTemplate, templateVars, KeepBinding, PolicyUnchanged
<1>2. copy # None => copy \in Policy /\ copy.deleting \in BOOLEAN
  BY Types, Distinct DEF IInv
<1>3. /\ pc \in SyncPcs /\ (copy.deleting <=> pc \in {"cleanBinding", "finalize"})
      /\ (~copy.deleting <=> pc = "unmatched")
  BY DEF SyncPcs
<1>4. copy # None => s \in Syncing /\ s.copy = copy /\ s.pc = pc
  <2> HIDE DEF pc
  <2> QED
    BY <1>2, <1>3 DEF Syncing, SyncPcs
<1>5. copy = None => s = Idle
  OBVIOUS
<1>6. s \in {Idle} \cup Syncing
  BY <1>4, <1>5
<1> HIDE DEF s
<1>7. /\ sync' \in [Policies -> {Idle} \cup Syncing] /\ sync'[p] = s
      /\ \A q \in Policies \ {p} : sync'[q] = sync[q]
  BY <1>1, <1>6, Set DEF IInv
<1>8. TypeOK'
  BY <1>1, <1>7 DEF IInv, TypeOK
<1>9. CachesFit'
  BY <1>1 DEF IInv, CachesFit
<1>10. PoliciesInOrder'
  BY <1>1 DEF IInv, PoliciesInOrder, Older, Numbered
<1>11. SyncFits'
  <2>1. ASSUME s # Idle
        PROVE  /\ Numbered(sync[p].copy)'
               /\ Older(sync[p].copy, policyCache[p])' /\ Older(sync[p].copy, policies[p])'
               /\ (policies[p] = sync[p].copy => policyCache[p] = sync[p].copy)'
               /\ (sync[p].copy.deleting
                   <=> sync[p].pc \in {"cleanBinding", "cleanTemplate", "finalize"})'
               /\ (sync[p].pc = "preempt" => sync[p].copy.match > PriorityMisMatch)'
    <3>1. sync'[p].copy = copy /\ sync'[p].pc = pc /\ policyCache'[p] = copy
      BY <1>1, <1>4, <1>5, <1>7, <2>1
    <3>2. Numbered(copy) /\ Older(copy, policies[p]) /\ Older(copy, copy)
      BY DEF IInv, PoliciesInOrder, Older
    <3> QED
      BY <1>1, <1>3, <3>1, <3>2 DEF Numbered, Older
  <2>2. ASSUME NEW q \in Policies \ {p}, sync[q] # Idle
        PROVE  /\ Numbered(sync[q].copy)'
               /\ Older(sync[q].copy, policyCache[q])' /\ Older(sync[q].copy, policies[q])'
               /\ (policies[q] = sync[q].copy => policyCache[q] = sync[q].copy)'
               /\ (sync[q].copy.deleting
                   <=> sync[q].pc \in {"cleanBinding", "cleanTemplate", "finalize"})'
               /\ (sync[q].pc = "preempt" => sync[q].copy.match > PriorityMisMatch)'
    BY <1>1, <1>7, <2>2 DEF IInv, SyncFits, Numbered, Older, PriorityMisMatch
  <2> QED
    BY <1>7, <2>1, <2>2 DEF SyncFits
<1>12. WorkerFits'
  BY <1>1, WorkerStep
<1>13. ASSUME template # None, template.policy = p, Guarded, "kind" \notin stale'
       PROVE  Guarded' /\ copy # None /\ s.copy.id = template.id
  <2>1. /\ copy # None /\ copy.id = template.id
        /\ policies[p] # None /\ policies[p].id = template.id
    BY <1>13 DEF Guarded
  <2>2. template = ClaimOf(p, copy)
    BY <1>2, <1>13, <2>1, Claims, Types DEF IInv
  <2>3. s.copy = copy /\ s.pc = IF copy.deleting THEN "cleanBinding" ELSE "unmatched"
    BY <1>1, <1>4, <1>13, <2>1, <2>2 DEF Unlisted
  <2> QED
    BY <1>1, <1>7, <1>13, <2>1, <2>3 DEF Guarded
<1>14. ClaimKept' /\ NothingMissed' /\ ClaimCurrent'
  <2>1. Matching(p) => Coming(p)'
    BY <1>3, <1>4, <1>7 DEF Matching, Coming, PriorityMisMatch
  <2>2. ASSUME template # None, template.policy = p, Guarded, "kind" \notin stale',
               copy.match = PriorityMisMatch, ~copy.deleting
        PROVE  sync'[p].pc = "unmatched" /\ sync'[p].copy.match = PriorityMisMatch
               /\ sync'[p].copy.id = template.id
    BY <1>3, <1>4, <1>7, <1>13, <2>2
  <2> HIDE DEF copy, pc
  <2> QED
    BY <1>1, <1>7, <1>13, <2>1, <2>2, SyncLeavesTemplate DEF copy
<1> QED
  BY <1>8, <1>9, <1>10, <1>11, <1>12, <1>14 DEF IInv

\* A policy that is being deleted lets go of the binding, and then of the template.
LEMMA PolicyCleansStep ==
    ASSUME IInv, NEW p \in Policies, PolicyCleanBinding(p) \/ PolicyCleanTemplate(p)
    PROVE  IInv'
<1>1. /\ UNCHANGED <<policies, policyCache, templateCache, bindingCache, cacheVersion, queued,
                     waiting, worker, policyQueue, events>>
      /\ sync[p].pc \in {"cleanBinding", "cleanTemplate"}
  BY DEF PolicyCleanBinding, PolicyCleanTemplate, PolicyUnchanged
<1>2. sync[p] # Idle /\ sync[p].copy \in Policy
  BY <1>1, Types, Distinct DEF IInv
<1>3. sync[p].copy.deleting
  BY <1>1, <1>2 DEF IInv, SyncFits
<1>4. WorkerFits'
  BY <1>1, WorkerStep
<1>5. ASSUME PolicyCleanBinding(p) PROVE IInv'
  <2>1. /\ sync[p].pc = "cleanBinding" /\ sync' = [sync EXCEPT ![p].pc = "cleanTemplate"]
        /\ UNCHANGED <<template, templateVersion, cacheVersion>>
        /\ CleanupResourceBindingClaimMetadata(ClaimOf(p, sync[p].copy))
    BY <1>1, <1>5 DEF PolicyCleanBinding, KeepTemplate, templateVars
  <2>2. /\ sync' \in [Policies -> {Idle} \cup Syncing]
        /\ sync'[p] # Idle /\ sync'[p].pc = "cleanTemplate" /\ sync'[p].copy = sync[p].copy
        /\ \A q \in Policies \ {p} : sync'[q] = sync[q]
    BY <1>2, <2>1, Moved DEF IInv, SyncPcs
  <2>3. /\ CachesFit'
        /\ binding' \in Binding \cup {None} /\ bindingFresh' \subseteq {Cache} \cup Policies
        /\ stale \subseteq stale' /\ stale' \subseteq stale \cup {"binding"}
    BY <1>1, <2>1, BindingCleaned
  <2>4. TypeOK'
    BY <1>1, <2>1, <2>2, <2>3 DEF IInv, TypeOK
  <2>5. PoliciesInOrder' /\ SyncFits'
    BY <1>1, <1>2, <1>3, <2>2, SyncStep
  <2>6. template.policy = p /\ Guarded => Guarded'
    BY <1>1, <2>1, <2>2 DEF Guarded
  <2>7. Coming(p) => Coming(p)'
    BY <1>1, <2>1 DEF Coming
  <2>8. ClaimKept' /\ NothingMissed' /\ ClaimCurrent'
    BY <1>1, <2>1, <2>2, <2>3, <2>6, <2>7, SyncLeavesTemplate
  <2> QED
    BY <1>4, <2>3, <2>4, <2>5, <2>8 DEF IInv
<1>6. ASSUME PolicyCleanTemplate(p) PROVE IInv'
  <2>1. /\ sync[p].pc = "cleanTemplate" /\ sync' = [sync EXCEPT ![p].pc = "finalize"]
        /\ UNCHANGED <<binding, bindingFresh, stale>>
        /\ \/ template' = None /\ Rewritten
           \/ /\ template # ClaimOf(p, sync[p].copy)
              /\ UNCHANGED <<template, templateVersion, cacheVersion>>
    BY <1>1, <1>6, Rewrite
    DEF PolicyCleanTemplate, KeepBinding, KeepTemplate, templateVars, IInv,
                CleanupResourceTemplateClaimMetadata
  <2>2. /\ sync' \in [Policies -> {Idle} \cup Syncing]
        /\ sync'[p] # Idle /\ sync'[p].pc = "finalize" /\ sync'[p].copy = sync[p].copy
        /\ \A q \in Policies \ {p} : sync'[q] = sync[q]
    BY <1>2, <2>1, Moved DEF IInv, SyncPcs
  <2>3. TypeOK'
    BY <1>1, <2>1, <2>2 DEF IInv, TypeOK, Rewritten
  <2>4. CachesFit'
    BY <1>1, <2>1 DEF IInv, CachesFit, Rewritten
  <2>5. PoliciesInOrder' /\ SyncFits'
    BY <1>1, <1>2, <1>3, <2>2, SyncStep
  <2>6. ClaimKept' /\ NothingMissed' /\ ClaimCurrent'
    <3>1. CASE template' = None /\ Rewritten
      BY <3>1, LetGo
    <3>2. CASE template # ClaimOf(p, sync[p].copy) /\ UNCHANGED <<template, templateVersion, cacheVersion>>
      <4>1. template # None /\ template.policy = p => sync[p].copy.id # template.id
        BY <1>2, <3>2, Claims, Types DEF IInv
      <4>2. template # None /\ template.policy = p /\ Guarded => Guarded'
        BY <1>1, <2>1, <2>2, <3>2, <4>1 DEF Guarded
      <4>3. Coming(p) => Coming(p)'
        BY <1>1, <2>1 DEF Coming
      <4> QED
        BY <1>1, <2>1, <2>2, <3>2, <4>2, <4>3, SyncLeavesTemplate
    <3> QED
      BY <2>1, <3>1, <3>2
  <2> QED
    BY <1>4, <2>3, <2>4, <2>5, <2>6 DEF IInv
<1> QED
  BY <1>5, <1>6

\* The finalizer goes only when no claim is left that the policy has to clean up.
LEMMA RemoveFinalizerStep ==
    ASSUME IInv, NEW p \in Policies, RemoveFinalizer(p)
    PROVE  IInv'
<1>1. /\ sync[p].pc = "finalize" /\ sync' = [sync EXCEPT ![p] = Idle]
      /\ UNCHANGED <<template, binding, policyCache, templateCache, bindingCache, templateVersion, cacheVersion,
                     bindingFresh, queued, waiting, worker, stale, events>>
      /\ \/ /\ policies[p] = sync[p].copy /\ policies' = [policies EXCEPT ![p] = None]
            /\ UNCHANGED policyQueue
         \/ policyQueue' = policyQueue \cup {p} /\ UNCHANGED policies
  BY DEF RemoveFinalizer, KeepTemplate, templateVars, KeepBinding, PolicyUnchanged
<1>2. sync[p] # Idle /\ sync[p].copy \in Policy /\ sync[p].copy # None
  BY <1>1, Types, Distinct DEF IInv
<1>3. /\ sync[p].copy.deleting
      /\ policies[p] = sync[p].copy => policyCache[p] = sync[p].copy
  BY <1>1, <1>2 DEF IInv, SyncFits
<1>4. /\ sync' \in [Policies -> {Idle} \cup Syncing] /\ sync'[p] = Idle
      /\ \A q \in Policies \ {p} : sync'[q] = sync[q]
  BY <1>1, Set DEF IInv
<1>5. \A q \in Policies \ {p} : policies'[q] = policies[q]
  BY <1>1 DEF IInv, TypeOK
<1>6. TypeOK'
  BY <1>1, <1>4 DEF IInv, TypeOK
<1>7. CachesFit'
  BY <1>1 DEF IInv, CachesFit
<1>8. sync'[p].pc = "idle"
  BY <1>4, Distinct
<1>9. CASE UNCHANGED policies /\ policyQueue' = policyQueue \cup {p}
  <2>1. PoliciesInOrder' /\ SyncFits'
    BY <1>1, <1>4, <1>9, SyncStep
  <2>2. WorkerFits'
    BY <1>1, <1>9, WorkerStep
  <2>3. template.policy = p /\ Guarded => Guarded'
    BY <1>1, <1>8, <1>9 DEF Guarded
  <2>4. Coming(p)'
    BY <1>9 DEF Coming
  <2>5. ClaimKept' /\ NothingMissed' /\ ClaimCurrent'
    BY <1>1, <1>4, <1>9, <2>3, <2>4, SyncLeavesTemplate
  <2> QED
    BY <1>6, <1>7, <2>1, <2>2, <2>5 DEF IInv
<1>10. CASE /\ policies[p] = sync[p].copy /\ policies' = [policies EXCEPT ![p] = None]
            /\ UNCHANGED policyQueue
  <2>1. policies'[p] = None
    BY <1>10 DEF IInv, TypeOK
  <2>2. PoliciesInOrder'
    BY <1>1, <1>3, <1>5, <1>10, <2>1 DEF IInv, PoliciesInOrder, Older, Numbered
  <2>3. SyncFits'
    <3>1. ASSUME NEW q \in Policies \ {p}, sync[q] # Idle
          PROVE  /\ Numbered(sync[q].copy)'
                 /\ Older(sync[q].copy, policyCache[q])' /\ Older(sync[q].copy, policies[q])'
                 /\ (policies[q] = sync[q].copy => policyCache[q] = sync[q].copy)'
                 /\ (sync[q].copy.deleting
                     <=> sync[q].pc \in {"cleanBinding", "cleanTemplate", "finalize"})'
                 /\ (sync[q].pc = "preempt" => sync[q].copy.match > PriorityMisMatch)'
      BY <1>1, <1>4, <1>5, <3>1 DEF IInv, SyncFits, Numbered, Older, PriorityMisMatch
    <3> QED
      BY <1>4, <3>1 DEF SyncFits
  <2>4. WorkerFits'
    <3>1. worker.pc \in {"claim", "bind"} => worker.policy \in Policies /\ worker.copy # None
      BY Types, Distinct DEF IInv
    <3> QED
      BY <1>1, <1>5, <2>1, <3>1 DEF IInv, WorkerFits, Numbered, PriorityMisMatch
  <2>5. template.policy = p => ~Guarded
    BY <1>1, <1>10 DEF Guarded
  <2>6. Coming(p) => Coming(p)'
    BY <1>1, <1>10 DEF Coming
  <2>7. ClaimKept' /\ NothingMissed' /\ ClaimCurrent'
    BY <1>1, <1>4, <1>5, <1>10, <2>5, <2>6, SyncLeavesTemplate
  <2> QED
    BY <1>6, <1>7, <2>2, <2>3, <2>4, <2>7 DEF IInv
<1> QED
  BY <1>1, <1>9, <1>10

\* A policy that no longer matches lets go of the template, whoever's it is; one that
\* does not see its claim is on record as having missed it.
LEMMA CleanUnmatchedStep ==
    ASSUME IInv, NEW p \in Policies, CleanPPUnmatchedRBs(p)
    PROVE  IInv'
<1> DEFINE copy == sync[p].copy
           clean == Derived(p, copy) /\ copy.match = PriorityMisMatch
           written == clean /\ cacheVersion = templateVersion
<1>1. /\ sync[p].pc = "unmatched"
      /\ UNCHANGED <<policies, binding, policyCache, templateCache, bindingCache, cacheVersion,
                     queued, waiting, worker, events>>
      /\ \/ written /\ template' = None /\ Rewritten
         \/ (written => template = None) /\ UNCHANGED <<template, templateVersion, cacheVersion>>
      /\ \/ /\ clean /\ ~written
            /\ sync' = [sync EXCEPT ![p] = Idle] /\ policyQueue' = policyQueue \cup {p}
         \/ clean /\ sync' = [sync EXCEPT ![p].pc = "unbind"] /\ UNCHANGED policyQueue /\ written
         \/ ~clean /\ sync' = [sync EXCEPT ![p].pc = "enqueue"] /\ UNCHANGED policyQueue
      /\ stale' = Overlooked(p, copy) \cup (IF written THEN Outdated(p, copy) ELSE {})
  BY Rewrite DEF CleanPPUnmatchedRBs, KeepTemplate, templateVars, PolicyUnchanged, IInv
<1>2. /\ stale \subseteq stale' /\ stale' \subseteq stale \cup {"policy", "list", "binding"}
      /\ ~Derived(p, copy) /\ template = ClaimOf(p, copy) => "list" \in stale'
  BY <1>1 DEF Overlooked, Outdated
<1>3. /\ bindingFresh' \subseteq bindingFresh \cup {p}
      /\ Cache \in bindingFresh' => Cache \in bindingFresh
      /\ ~clean => bindingFresh' = bindingFresh
  <2>1. Cache # p
    BY PoliciesAssumption DEF Cache
  <2> QED
    BY <2>1 DEF CleanPPUnmatchedRBs
<1>4. sync[p] # Idle /\ copy \in Policy
  BY <1>1, Types, Distinct DEF IInv
<1>5. ~copy.deleting
  BY <1>1, <1>4 DEF IInv, SyncFits
<1>6. /\ sync' \in [Policies -> {Idle} \cup Syncing]
      /\ \A q \in Policies \ {p} : sync'[q] = sync[q]
      /\ \/ /\ clean /\ sync'[p] = Idle /\ sync'[p].pc = "idle"
            /\ policyQueue' = policyQueue \cup {p}
         \/ /\ clean /\ written /\ sync'[p] # Idle /\ sync'[p].pc = "unbind"
            /\ sync'[p].copy = copy /\ policyQueue' = policyQueue
         \/ /\ ~clean /\ sync'[p] # Idle /\ sync'[p].pc = "enqueue"
            /\ sync'[p].copy = copy /\ policyQueue' = policyQueue
  <2> HIDE DEF clean, written
  <2>1. CASE /\ clean /\ ~written
             /\ sync' = [sync EXCEPT ![p] = Idle] /\ policyQueue' = policyQueue \cup {p}
    BY <2>1, Set, Distinct DEF IInv
  <2>2. CASE clean /\ written /\ sync' = [sync EXCEPT ![p].pc = "unbind"] /\ UNCHANGED policyQueue
    BY <1>4, <2>2, Moved DEF IInv, SyncPcs
  <2>3. CASE ~clean /\ sync' = [sync EXCEPT ![p].pc = "enqueue"] /\ UNCHANGED policyQueue
    BY <1>4, <2>3, Moved DEF IInv, SyncPcs
  <2> QED
    BY <1>1, <2>1, <2>2, <2>3
<1> HIDE DEF written
<1>7. TypeOK'
  BY <1>1, <1>2, <1>3, <1>6 DEF IInv, TypeOK, Rewritten
<1>8. CachesFit'
  <2>1. clean => bindingCache # None
    BY DEF Derived
  <2> HIDE DEF clean
  <2> QED
    BY <1>1, <1>3, <2>1 DEF IInv, CachesFit, Rewritten
<1>9. PoliciesInOrder' /\ SyncFits'
  BY <1>1, <1>4, <1>5, <1>6, SyncStep
<1>10. WorkerFits'
  BY <1>1, WorkerStep
<1>11. ClaimKept' /\ NothingMissed' /\ ClaimCurrent'
  <2>1. CASE template' = None /\ Rewritten
    BY <2>1, LetGo
  <2>2. CASE (written => template = None) /\ UNCHANGED <<template, templateVersion, cacheVersion>>
    <3>1. template.policy = p /\ Guarded => Guarded'
      BY <1>1, <1>6, <2>2 DEF Guarded
    <3>2. Coming(p) => Coming(p)'
      BY <1>1, <1>6 DEF Coming, PriorityMisMatch
    <3>3. ASSUME template # None, template.policy = p, "list" \notin stale',
                 \/ p \in policyQueue
                 \/ sync[p].copy.match = PriorityMisMatch /\ sync[p].copy.id = template.id
          PROVE  p \in policyQueue'
      <4>1. CASE p \in policyQueue
        BY <1>6, <4>1
      <4>2. CASE sync[p].copy.match = PriorityMisMatch /\ sync[p].copy.id = template.id
        <5>1. template = ClaimOf(p, copy)
          BY <1>4, <3>3, <4>2, Claims, Types DEF IInv
        <5>2. clean
          BY <1>2, <3>3, <4>2, <5>1
        <5> QED
          BY <1>6, <2>2, <3>3, <5>2
      <4> QED
        BY <3>3, <4>1, <4>2
    <3>4. policyQueue \subseteq policyQueue'
      BY <1>6
    <3> QED
      BY <1>1, <1>2, <1>6, <2>2, <3>1, <3>2, <3>3, <3>4, SyncLeavesTemplate
  <2> QED
    BY <1>1, <2>1, <2>2
<1> QED
  BY <1>7, <1>8, <1>9, <1>10, <1>11 DEF IInv

\* ... and then of the binding.
LEMMA RemoveRBsStep ==
    ASSUME IInv, NEW p \in Policies, RemoveRBsClaimMetadata(p)
    PROVE  IInv'
<1>1. /\ sync[p].pc = "unbind"
      /\ UNCHANGED <<policies, template, policyCache, templateCache, bindingCache, templateVersion, cacheVersion,
                     queued, waiting, worker, events>>
      /\ \/ /\ p \in bindingFresh /\ binding' = [binding EXCEPT !.claim = None]
            /\ bindingFresh' = {}
            /\ sync' = [sync EXCEPT ![p].pc = "enqueue"] /\ UNCHANGED policyQueue
         \/ /\ UNCHANGED <<binding, bindingFresh>>
            /\ sync' = [sync EXCEPT ![p] = Idle] /\ policyQueue' = policyQueue \cup {p}
      /\ stale \subseteq stale' /\ stale' \subseteq stale \cup {"policy"}
  BY DEF RemoveRBsClaimMetadata, Outdated, KeepTemplate, templateVars, KeepBinding, WriteBinding,
         PolicyUnchanged
<1>2. sync[p] # Idle /\ sync[p].copy \in Policy
  BY <1>1, Types, Distinct DEF IInv
<1>3. ~sync[p].copy.deleting
  BY <1>1, <1>2 DEF IInv, SyncFits
<1>4. /\ sync' \in [Policies -> {Idle} \cup Syncing]
      /\ \A q \in Policies \ {p} : sync'[q] = sync[q]
      /\ \/ sync'[p] = Idle /\ sync'[p].pc = "idle" /\ policyQueue' = policyQueue \cup {p}
         \/ /\ sync'[p] # Idle /\ sync'[p].pc = "enqueue" /\ sync'[p].copy = sync[p].copy
            /\ policyQueue' = policyQueue
  <2>1. CASE sync' = [sync EXCEPT ![p] = Idle] /\ policyQueue' = policyQueue \cup {p}
    BY <2>1, Set, Distinct DEF IInv
  <2>2. CASE sync' = [sync EXCEPT ![p].pc = "enqueue"] /\ UNCHANGED policyQueue
    BY <1>2, <2>2, Moved DEF IInv, SyncPcs
  <2> QED
    BY <1>1, <2>1, <2>2
<1>5. \/ binding' \in Binding /\ binding' # None /\ bindingFresh' = {}
      \/ UNCHANGED <<binding, bindingFresh>>
  <2>1. ASSUME p \in bindingFresh PROVE [binding EXCEPT !.claim = None] \in Binding
    <3>1. binding \in Binding
      BY <2>1, Types DEF IInv, CachesFit
    <3> QED
      BY <3>1 DEF Binding
  <2> QED
    BY <1>1, <2>1, Distinct
<1>6. TypeOK'
  BY <1>1, <1>4, <1>5 DEF IInv, TypeOK
<1>7. CachesFit'
  BY <1>1, <1>5 DEF IInv, CachesFit
<1>8. PoliciesInOrder' /\ SyncFits'
  BY <1>1, <1>2, <1>3, <1>4, SyncStep
<1>9. WorkerFits'
  BY <1>1, WorkerStep
<1>10. template.policy = p /\ Guarded => Guarded'
  BY <1>1, <1>4 DEF Guarded
<1>11. Coming(p) => Coming(p)'
  BY <1>1, <1>4 DEF Coming
<1>12. ClaimKept' /\ NothingMissed' /\ ClaimCurrent'
  BY <1>1, <1>4, <1>10, <1>11, SyncLeavesTemplate
<1> QED
  BY <1>6, <1>7, <1>8, <1>9, <1>12 DEF IInv

\* The policy queues the template that waits for it.
LEMMA EnqueueStep ==
    ASSUME IInv, NEW p \in Policies, EnqueueTemplates(p)
    PROVE  IInv'
<1> DEFINE copy == sync[p].copy
           found == waiting /\ copy.match > PriorityMisMatch
           s == IF p \in Preemptors /\ copy.match > PriorityMisMatch
                THEN [pc |-> "preempt", copy |-> copy] ELSE Idle
<1>1. /\ sync[p].pc = "enqueue"
      /\ UNCHANGED <<policies, template, binding, policyCache, templateCache, bindingCache,
                     templateVersion, cacheVersion, bindingFresh, worker, policyQueue, events>>
      /\ queued' = (queued \/ Derived(p, copy) \/ found)
      /\ waiting' = (waiting /\ ~found)
      /\ sync' = [sync EXCEPT ![p] = s]
      /\ stale' = Overlooked(p, copy)
  BY DEF EnqueueTemplates, KeepTemplate, templateVars, KeepBinding, PolicyUnchanged
<1>2. sync[p] # Idle /\ copy \in Policy
  BY <1>1, Types, Distinct DEF IInv
<1>3. ~copy.deleting
  BY <1>1, <1>2 DEF IInv, SyncFits
<1>4. \/ s = Idle
      \/ /\ s \in Syncing /\ s.pc = "preempt" /\ s.copy = copy
         /\ copy.match > PriorityMisMatch
  BY <1>2 DEF Syncing
<1> HIDE DEF s
<1>5. /\ sync' \in [Policies -> {Idle} \cup Syncing] /\ sync'[p] = s
      /\ \A q \in Policies \ {p} : sync'[q] = sync[q]
  BY <1>1, <1>4, Set DEF IInv
<1>6. /\ stale \subseteq stale' /\ stale' \subseteq stale \cup {"list", "binding"}
      /\ queued' \in BOOLEAN /\ waiting' \in BOOLEAN
      /\ queued => queued'
      /\ ~queued' => ~found /\ waiting' = waiting
  BY <1>1 DEF Overlooked, IInv, TypeOK
<1>7. TypeOK'
  BY <1>1, <1>5, <1>6 DEF IInv, TypeOK
<1>8. CachesFit'
  BY <1>1 DEF IInv, CachesFit
<1>9. PoliciesInOrder' /\ SyncFits'
  BY <1>1, <1>2, <1>3, <1>4, <1>5, SyncStep
<1>10. WorkerFits'
  BY <1>1, WorkerStep
<1>11. sync'[p].pc \in {"idle", "preempt"}
  BY <1>4, <1>5, Distinct
<1>12. template.policy = p /\ Guarded => Guarded'
  BY <1>1, <1>11 DEF Guarded
<1>13. ~queued' /\ waiting /\ Coming(p) => Coming(p)'
  BY <1>1, <1>6 DEF Coming
<1>14. ClaimKept' /\ NothingMissed' /\ ClaimCurrent'
  BY <1>1, <1>5, <1>6, <1>12, <1>13, SyncLeavesTemplate
<1> QED
  BY <1>7, <1>8, <1>9, <1>10, <1>14 DEF IInv

\* A policy takes the template from another.
LEMMA PreemptStep ==
    ASSUME IInv, NEW p \in Policies, Preempt(p)
    PROVE  IInv'
<1> DEFINE copy == sync[p].copy
<1>1. /\ sync[p].pc = "preempt" /\ sync' = [sync EXCEPT ![p] = Idle]
      /\ UNCHANGED <<policies, binding, policyCache, templateCache, bindingCache, bindingFresh,
                     cacheVersion, queued, waiting, worker, events>>
      /\ \/ template' = ClaimOf(p, copy) /\ Rewritten
         \/ UNCHANGED <<template, templateVersion, cacheVersion>>
      /\ policyQueue' \in {policyQueue, policyQueue \cup {p}}
      /\ stale' = Outdated(p, copy)
  BY Rewrite DEF Preempt, KeepTemplate, templateVars, KeepBinding, PolicyUnchanged, IInv
<1>2. sync[p] # Idle /\ copy \in Policy
  BY <1>1, Types, Distinct DEF IInv
<1>3. /\ ~copy.deleting /\ copy.match > PriorityMisMatch
      /\ policies[p] = copy => policyCache[p] = copy
  BY <1>1, <1>2 DEF IInv, SyncFits
<1>4. /\ sync' \in [Policies -> {Idle} \cup Syncing] /\ sync'[p] = Idle
      /\ sync'[p].pc = "idle" /\ \A q \in Policies \ {p} : sync'[q] = sync[q]
  BY <1>1, Set, Distinct DEF IInv
<1>5. /\ stale \subseteq stale' /\ stale' \subseteq stale \cup {"policy"}
      /\ "policy" \notin stale' => policies[p] = copy
  BY <1>1 DEF Outdated
<1>6. ClaimOf(p, copy) \in Claim
  BY <1>2, Claims
<1>7. TypeOK'
  BY <1>1, <1>4, <1>5, <1>6 DEF IInv, TypeOK, Rewritten
<1>8. CachesFit'
  BY <1>1 DEF IInv, CachesFit, Rewritten
<1>9. PoliciesInOrder' /\ SyncFits'
  BY <1>1, <1>4, SyncStep
<1>10. WorkerFits'
  BY <1>1, WorkerStep
<1>11. ClaimKept' /\ NothingMissed' /\ ClaimCurrent'
  <2>1. CASE template' = ClaimOf(p, copy) /\ Rewritten
    <3>1. ClaimKept' /\ NothingMissed'
      BY <2>1 DEF ClaimKept, NothingMissed, Caught, Rewritten
    <3>2. CASE "policy" \in stale'
      BY <3>1, <3>2 DEF ClaimCurrent
    <3>3. CASE "policy" \notin stale'
      BY <1>1, <1>2, <1>3, <1>4, <1>5, <2>1, <3>1, <3>3, NewClaim
    <3> QED
      BY <3>2, <3>3
  <2>2. CASE UNCHANGED <<template, templateVersion, cacheVersion>>
    <3>1. template.policy = p /\ Guarded => Guarded'
      BY <1>1, <1>4, <2>2 DEF Guarded
    <3>2. Coming(p) => Coming(p)'
      BY <1>1 DEF Coming
    <3> QED
      BY <1>1, <1>4, <1>5, <2>2, <3>1, <3>2, SyncLeavesTemplate
  <2> QED
    BY <1>1, <2>1, <2>2
<1> QED
  BY <1>7, <1>8, <1>9, <1>10, <1>11 DEF IInv

-----------------------------------------------------------------------------
(***************************************************************************)
(* Faults.                                                                 *)
(***************************************************************************)
LEMMA WorkerFailsStep ==
    ASSUME IInv, WorkerFails
    PROVE  IInv'
<1>1. /\ Event /\ worker' = Idle /\ queued' = TRUE
      /\ UNCHANGED <<policies, template, binding, policyCache, templateCache, bindingCache,
                     templateVersion, cacheVersion, bindingFresh, waiting, policyQueue, sync, stale>>
  BY DEF WorkerFails, apiVars, templateVars, cacheVars, policyVars
<1>2. events' \in 0..MaxEvents
  BY <1>1, Counted DEF IInv
<1>3. TypeOK'
  BY <1>1, <1>2 DEF IInv, TypeOK
<1>4. CachesFit'
  BY <1>1 DEF IInv, CachesFit
<1>5. PoliciesInOrder' /\ SyncFits'
  BY <1>1, PoliciesKept
<1>6. WorkerFits'
  BY <1>1, WorkerStep, Distinct
<1>7. ClaimKept' /\ NothingMissed'
  BY <1>1 DEF ClaimKept, NothingMissed, Caught
<1>8. ClaimCurrent'
  BY <1>1, ClaimCurrentKept
<1> QED
  BY <1>3, <1>4, <1>5, <1>6, <1>7, <1>8 DEF IInv

LEMMA PolicyFailsStep ==
    ASSUME IInv, NEW p \in Policies, PolicyFails(p) \/ WaitForOverrides(p)
    PROVE  IInv'
<1>1. /\ Event /\ sync' = [sync EXCEPT ![p] = Idle] /\ policyQueue' = policyQueue \cup {p}
      /\ UNCHANGED <<policies, template, binding, policyCache, templateCache, bindingCache,
                     templateVersion, cacheVersion, bindingFresh, waiting, worker>>
  BY DEF PolicyFails, WaitForOverrides, apiVars, templateVars, cacheVars, resourceVars
<1>0. /\ queued' \in BOOLEAN /\ (queued => queued')
      /\ stale \subseteq stale' /\ stale' \subseteq stale \cup {"list", "binding"}
  <2>1. CASE PolicyFails(p)
    BY <2>1 DEF PolicyFails, resourceVars, IInv, TypeOK
  <2>2. CASE WaitForOverrides(p)
    BY <2>2 DEF WaitForOverrides, Overlooked, IInv, TypeOK
  <2> QED
    BY <2>1, <2>2
<1>2. events' \in 0..MaxEvents
  BY <1>1, Counted DEF IInv
<1>3. /\ sync' \in [Policies -> {Idle} \cup Syncing] /\ sync'[p] = Idle
      /\ sync'[p].pc = "idle" /\ \A q \in Policies \ {p} : sync'[q] = sync[q]
  BY <1>1, Set, Distinct DEF IInv
<1>4. TypeOK'
  BY <1>0, <1>1, <1>2, <1>3 DEF IInv, TypeOK
<1>5. CachesFit'
  BY <1>1 DEF IInv, CachesFit
<1>6. PoliciesInOrder' /\ SyncFits'
  BY <1>1, <1>3, SyncStep
<1>7. WorkerFits'
  BY <1>1, WorkerStep
<1>8. template.policy = p /\ Guarded => Guarded'
  BY <1>1, <1>3 DEF Guarded
<1>9. Coming(p)'
  BY <1>1 DEF Coming
<1>10. ClaimKept' /\ NothingMissed' /\ ClaimCurrent'
  BY <1>0, <1>1, <1>3, <1>8, <1>9, SyncLeavesTemplate
<1> QED
  BY <1>4, <1>5, <1>6, <1>7, <1>10 DEF IInv

\* A restart reads everything anew, and queues it.
LEMMA RestartStep ==
    ASSUME IInv, Restart
    PROVE  IInv'
<1>1. /\ Event /\ policyCache' = policies /\ templateCache' = template /\ bindingCache' = binding
      /\ cacheVersion' = templateVersion' /\ bindingFresh' = {Cache}
      /\ queued' = TRUE /\ waiting' = FALSE /\ worker' = Idle
      /\ policyQueue' = {p \in Policies : policies[p] # None}
      /\ sync' = [p \in Policies |-> Idle]
      /\ UNCHANGED <<policies, template, templateVersion, binding, stale>>
  BY DEF Restart, apiVars, templateVars
<1>2. events' \in 0..MaxEvents
  BY <1>1, Counted DEF IInv
<1>3. TypeOK'
  BY <1>1, <1>2 DEF IInv, TypeOK, Cache
<1>4. Cache \notin Policies
  BY PoliciesAssumption DEF Cache
<1>5. CachesFit'
  BY <1>1, <1>4 DEF CachesFit
<1>6. PoliciesInOrder'
  <2>1. ASSUME NEW p \in Policies PROVE Numbered(policies[p])'
    <3>1. policies[p] \in Policy \cup {None}
      BY Types DEF IInv
    <3> QED
      BY <1>1, <3>1, StillNumbered DEF IInv, PoliciesInOrder, Numbered
  <2> QED
    BY <1>1, <2>1 DEF PoliciesInOrder, Older, Numbered
<1>7. \A p \in Policies : sync'[p] = Idle /\ sync'[p].pc = "idle"
  BY <1>1, Distinct
<1>8. SyncFits'
  BY <1>7 DEF SyncFits
<1>9. WorkerFits'
  BY <1>1, Distinct DEF WorkerFits
<1>10. ClaimKept' /\ NothingMissed'
  BY <1>1 DEF ClaimKept, NothingMissed, Caught
<1>11. ClaimCurrent'
  <2>1. template # None => template.policy \in Policies
    BY Types, Distinct DEF IInv
  <2> QED
    BY <1>1, <1>7, <2>1 DEF IInv, ClaimCurrent, Guarded, PriorityMisMatch
<1> QED
  BY <1>3, <1>5, <1>6, <1>8, <1>9, <1>10, <1>11 DEF IInv

-----------------------------------------------------------------------------
(***************************************************************************)
(* The theorems.                                                           *)
(***************************************************************************)
LEMMA InitInvariant ==
    ASSUME Init
    PROVE  IInv
<1>1. /\ policies \in [Policies -> UNION {NewPolicies(p, 0) : p \in Initial} \cup {None}]
      /\ policyCache = policies
      /\ template = None /\ templateCache = None /\ templateVersion = 0 /\ cacheVersion = 0
      /\ binding = None /\ bindingCache = None /\ bindingFresh = {Cache}
      /\ queued = TRUE /\ waiting = FALSE /\ worker = Idle
      /\ policyQueue = Initial /\ sync = [p \in Policies |-> Idle]
      /\ stale = {} /\ events = 0
  BY DEF Init
<1>2. ASSUME NEW p \in Policies
      PROVE  policies[p] # None => /\ policies[p] \in Policy
                                   /\ policies[p].id = 0 /\ policies[p].version = 0
  <2>1. policies[p] \in NewPolicies(p, 0) \/ policies[p] = None
    BY DEF Init
  <2>2. 0 \in 0..MaxEvents
    BY BoundsAssumption
  <2> QED
    BY <2>1, <2>2, NewPoliciesTyped
<1>3. policies \in [Policies -> Policy \cup {None}]
  BY <1>1, <1>2
<1>4. Initial \subseteq Policies /\ Cache \notin Policies /\ 0 \in 0..MaxEvents
  BY PoliciesAssumption, BoundsAssumption DEF Cache
<1>5. TypeOK
  <2>1. 0 \in Versions
    BY DEF Versions
  <2> QED
    BY <1>1, <1>3, <1>4, <2>1 DEF TypeOK
<1>6. CachesFit
  BY <1>1, <1>4 DEF CachesFit
<1>7. PoliciesInOrder
  BY <1>1, <1>2 DEF PoliciesInOrder, Numbered, Older
<1>8. SyncFits /\ WorkerFits
  BY <1>1, Distinct DEF SyncFits, WorkerFits
<1>9. ClaimKept /\ NothingMissed /\ ClaimCurrent
  BY <1>1 DEF ClaimKept, NothingMissed, ClaimCurrent, Caught
<1> QED
  BY <1>5, <1>6, <1>7, <1>8, <1>9 DEF IInv

LEMMA StutterStep ==
    ASSUME IInv, UNCHANGED vars
    PROVE  IInv'
<1>1. UNCHANGED <<policies, template, binding, policyCache, templateCache, bindingCache,
                  templateVersion, cacheVersion, bindingFresh, queued, waiting, worker, policyQueue, sync,
                  stale, events>>
  BY DEF vars, apiVars, templateVars, cacheVars, resourceVars, policyVars
<1>2. TypeOK' /\ CachesFit'
  BY <1>1 DEF IInv, TypeOK, CachesFit
<1>3. PoliciesInOrder' /\ SyncFits'
  BY <1>1, PoliciesKept
<1>4. WorkerFits'
  BY <1>1, WorkerStep
<1>5. ClaimCurrent' /\ (Guarded => Guarded')
  BY <1>1, ClaimCurrentKept
<1>6. ClaimKept'
  BY <1>1, <1>5 DEF IInv, ClaimKept, Caught, Claiming, ClaimOf
<1>7. NothingMissed'
  BY <1>1 DEF IInv, NothingMissed, Caught, Claiming, ClaimOf, Matching, Coming, PriorityMisMatch
<1> QED
  BY <1>2, <1>3, <1>4, <1>5, <1>6, <1>7 DEF IInv

\* Every step of the detector keeps the invariant.
LEMMA NextInvariant ==
    ASSUME IInv, [Next]_vars
    PROVE  IInv'
<1>1. ASSUME Resource PROVE IInv'
  BY <1>1, ReconcileStep, AddWaitingStep, ClaimPolicyStep, ApplyPolicyStep, WorkerCleansStep
  DEF Resource
<1>2. ASSUME Observe PROVE IInv'
  BY <1>2, ObserveStep, ObservePolicyStep DEF Observe
<1>3. ASSUME NEW p \in Policies, PolicySync(p) PROVE IInv'
  BY <1>3, ReconcilePolicyStep, PolicyCleansStep, RemoveFinalizerStep, CleanUnmatchedStep,
     RemoveRBsStep, EnqueueStep, PreemptStep DEF PolicySync
<1>4. ASSUME NEW p \in Policies,
             \/ Create(p) \/ Update(p) \/ Delete(p)
             \/ PolicyFails(p) \/ WaitForOverrides(p)
      PROVE  IInv'
  BY <1>4, UsersStep, PolicyFailsStep
<1> QED
  BY <1>1, <1>2, <1>3, <1>4, WorkerFailsStep, RestartStep, StutterStep DEF Next

\* Invariant: the inductive invariant holds throughout.
THEOREM Invariant == Spec => []IInv
<1>1. Init => IInv
  BY InitInvariant
<1>2. IInv /\ [Next]_vars => IInv'
  BY NextInvariant
<1> QED
  BY <1>1, <1>2, PTL DEF Spec

\* TypeCorrect: the detector's state is always one of its types, whatever the policies,
\* their priorities and the number of events.
THEOREM TypeCorrect == Spec => []TypeOK
<1>1. IInv => TypeOK
  BY DEF IInv
<1> QED
  BY <1>1, Invariant, PTL

\* NoPolicyMissedAlways: between the waiting list, the one retry of propagateResource and
\* the policy worker's look at the list, no matching policy is lost, for any number of
\* policies and events.
THEOREM NoPolicyMissedAlways == Spec => []NoPolicyMissed
<1>1. ASSUME IInv PROVE NoPolicyMissed
  <2> SUFFICES ASSUME Quiet, template = None, NEW p \in Policies, Live(p)
               PROVE  policies[p].match = PriorityMisMatch
    BY DEF NoPolicyMissed
  <2>1. /\ policyCache = policies /\ Caught /\ worker.pc = "idle"
        /\ p \notin policyQueue /\ sync[p].pc = "idle"
    BY Distinct DEF Quiet, CachesCurrent, Caught
  <2>2. ~Coming(p) /\ ~Claiming
    BY <2>1 DEF Coming, Claiming
  <2>3. ~Matching(p)
    BY <1>1, <2>1, <2>2 DEF IInv, NothingMissed
  <2>4. policies[p].match \in Nat
    BY <1>1, Types, Distinct DEF IInv, Live
  <2> QED
    BY <2>1, <2>3, <2>4 DEF Matching, Live, PriorityMisMatch
<1> QED
  BY <1>1, Invariant, PTL

\* A claim that is guarded is one of a policy that stays, once all is quiet.
LEMMA QuietGuard ==
    ASSUME IInv, Quiet, template # None, Guarded
    PROVE  Live(template.policy) /\ policies[template.policy].id = template.id
<1>1. template.policy \in Policies
  BY Types, Distinct DEF IInv
<1>2. /\ policyCache = policies /\ template.policy \notin policyQueue
      /\ sync[template.policy].pc = "idle"
  BY <1>1, Distinct DEF Quiet, CachesCurrent
<1> QED
  BY <1>2 DEF Guarded, Live

\* ClaimIsAliveAlways: whoever's copy of the policy the claim was written from, at rest
\* its policy exists and is not being deleted; only a policy that took the name of
\* another, with a claim of that one left, is exempt.
THEOREM ClaimIsAliveAlways == Spec => []ClaimIsAlive
<1>1. ASSUME IInv PROVE ClaimIsAlive
  <2> SUFFICES ASSUME Quiet, template # None, "id" \notin stale, "kind" \notin stale
               PROVE  Live(template.policy)
    BY DEF ClaimIsAlive
  <2>1. Caught /\ worker.pc = "idle"
    BY Distinct DEF Quiet, CachesCurrent, Caught
  <2>2. Guarded
    BY <1>1, <2>1 DEF IInv, ClaimKept, Claiming
  <2> QED
    BY <1>1, <2>2, QuietGuard
<1> QED
  BY <1>1, Invariant, PTL

\* ClaimIsCurrentAlways: when no worker went on with an outdated copy of a policy, and
\* none missed its claim in a list, the claim at rest is of the policy's present
\* incarnation, which matches the template.
THEOREM ClaimIsCurrentAlways == Spec => []ClaimIsCurrent
<1>1. ASSUME IInv PROVE ClaimIsCurrent
  <2> SUFFICES ASSUME Quiet, template # None, "policy" \notin stale, "list" \notin stale,
                      "kind" \notin stale
               PROVE  /\ policies[template.policy].id = template.id
                      /\ policies[template.policy].match > PriorityMisMatch
    BY DEF ClaimIsCurrent, Current
  <2>1. template.policy \in Policies
    BY <1>1, Types, Distinct DEF IInv
  <2>2. /\ policyCache = policies /\ template.policy \notin policyQueue
        /\ sync[template.policy].pc = "idle"
    BY <2>1, Distinct DEF Quiet, CachesCurrent
  <2>3. /\ Guarded
        /\ policyCache[template.policy].match = PriorityMisMatch
              => policyCache[template.policy].deleting
    BY <1>1, <2>2 DEF IInv, ClaimCurrent
  <2>4. Live(template.policy) /\ policies[template.policy].id = template.id
    BY <1>1, <2>3, QuietGuard
  <2>5. policies[template.policy].match \in Nat
    BY <1>1, <2>1, <2>4, Types, Distinct DEF IInv, Live
  <2> QED
    BY <2>2, <2>3, <2>4, <2>5 DEF Live, PriorityMisMatch
<1> QED
  BY <1>1, Invariant, PTL

-----------------------------------------------------------------------------
(***************************************************************************)
(* The binding follows the claim.                                          *)
(***************************************************************************)
\* The copy of the binding that cleanPPUnmatchedRBs goes on with is the policy's.
UnbindFits ==
    \A p \in Policies : sync[p].pc = "unbind" /\ p \in bindingFresh =>
        binding.claim = ClaimOf(p, sync[p].copy)

\* The binding's claim is of a policy that exists, and that lets go of it when it is
\* deleted or no longer matches.
BindingGuard(p, id) ==
    /\ policies[p] # None /\ policies[p].id = id
    /\ policyCache[p] # None /\ policyCache[p].id = id
    /\ sync[p].pc \in {"cleanTemplate", "finalize"} => sync[p].copy.id # id
    /\ policyCache[p].deleting =>
          \/ p \in policyQueue
          \/ sync[p].pc = "cleanBinding" /\ sync[p].copy.id = id
    /\ policyCache[p].match = PriorityMisMatch /\ ~policyCache[p].deleting =>
          \/ p \in policyQueue
          \/ sync[p].pc = "unmatched" /\ sync[p].copy.match = PriorityMisMatch
             /\ sync[p].copy.id = id
          \/ sync[p].pc = "unbind" /\ sync[p].copy.id = id

\* ... unless a mistake was made.
BindingGuarded ==
    \A c \in Claim : stale = {} /\ binding # None /\ binding.claim = c =>
        BindingGuard(c.policy, c.id)

\* The Processor is about to build the binding of the template as it is.
Building ==
    /\ worker.pc \in {"claim", "bind"} /\ worker.object = template
    /\ worker.rv = templateVersion
    /\ ClaimOf(worker.policy, worker.copy) = template

\* The binding is built from the cached policy, or the policy is yet to be handled.
Built ==
    LET p == template.policy
    IN  \/ policyCache[p].deleting
        \/ p \in policyQueue
        \/ sync[p].pc \in {"unmatched", "unbind", "enqueue"} /\ sync[p].copy.id = template.id
        \/ /\ binding # None /\ binding.claim = template
           /\ binding.version = policyCache[p].version /\ binding.rv = templateVersion

BindingBuilt ==
    stale = {} /\ Caught /\ template # None => Building \/ (worker = Idle /\ Built)

BInv == UnbindFits /\ BindingGuarded /\ BindingBuilt

\* The binding's claim, and what a worker and a policy may do for the binding, stay.
LEMMA BindingLeft ==
    ASSUME IInv, BInv, UNCHANGED <<policies, binding, policyCache, policyQueue, sync>>,
           stale \subseteq stale'
    PROVE  BindingGuarded'
<1>1. stale' = {} => stale = {}
  OBVIOUS
<1>2. \A c \in Claim : BindingGuard(c.policy, c.id) => BindingGuard(c.policy, c.id)'
  BY DEF BindingGuard, PriorityMisMatch
<1> QED
  BY <1>1, <1>2 DEF BInv, BindingGuarded

\* Users.
LEMMA UserKeepsBinding ==
    ASSUME IInv, BInv, NEW p \in Policies, NEW new \in Policy, UserEdits(p, new),
           policies[p] # None => new.id = policies[p].id
    PROVE  BInv'
<1>1. /\ policies' = [policies EXCEPT ![p] = new]
      /\ UNCHANGED <<template, binding, policyCache, templateCache, bindingCache, templateVersion, cacheVersion,
                     bindingFresh, queued, waiting, worker, policyQueue, sync, stale>>
  BY DEF UserEdits, templateVars, cacheVars, resourceVars, policyVars
<1>2. policies'[p] = new /\ new # None /\ \A q \in Policies \ {p} : policies'[q] = policies[q]
  BY <1>1, Distinct DEF IInv, TypeOK
<1>3. UnbindFits'
  BY <1>1 DEF BInv, UnbindFits, ClaimOf
<1>4. \A c \in Claim : BindingGuard(c.policy, c.id) => BindingGuard(c.policy, c.id)'
  BY <1>1, <1>2, Distinct DEF BindingGuard, PriorityMisMatch
<1>5. BindingGuarded'
  BY <1>1, <1>4 DEF BInv, BindingGuarded
<1>6. BindingBuilt'
  BY <1>1 DEF BInv, BindingBuilt, Caught, Building, Built, ClaimOf
<1> QED
  BY <1>3, <1>5, <1>6 DEF BInv

LEMMA UsersKeepBinding ==
    ASSUME IInv, BInv, NEW p \in Policies, Create(p) \/ Update(p) \/ Delete(p)
    PROVE  BInv'
BY Edited, UserKeepsBinding

\* The informers.
LEMMA ObservePolicyKeepsBinding ==
    ASSUME IInv, BInv, NEW p \in Policies, ObservePolicy(p)
    PROVE  BInv'
<1>1. /\ policyCache' = [policyCache EXCEPT ![p] = policies[p]]
      /\ UNCHANGED <<policies, template, binding, templateCache, bindingCache, templateVersion, cacheVersion,
                     bindingFresh, queued, waiting, worker, sync, stale, events>>
  BY DEF ObservePolicy, apiVars, templateVars, resourceVars
<1>2. policyQueue \subseteq policyQueue' /\ (policies[p] # None => p \in policyQueue')
  BY DEF ObservePolicy
<1>3. policyCache'[p] = policies[p] /\ \A q \in Policies \ {p} : policyCache'[q] = policyCache[q]
  BY <1>1 DEF IInv, TypeOK
<1>4. UnbindFits'
  BY <1>1 DEF BInv, UnbindFits, ClaimOf
<1>5. \A c \in Claim : BindingGuard(c.policy, c.id) => BindingGuard(c.policy, c.id)'
  BY <1>1, <1>2, <1>3, Distinct DEF BindingGuard, PriorityMisMatch
<1>6. BindingGuarded'
  BY <1>1, <1>5 DEF BInv, BindingGuarded
<1>7. ASSUME stale = {}, template # None, Built PROVE Built'
  <2>1. template.policy \in Policies /\ policies[template.policy] # None
    BY <1>7, Types, Distinct DEF IInv, ClaimCurrent, Guarded
  <2> QED
    BY <1>1, <1>2, <1>3, <1>7, <2>1 DEF Built
<1>8. BindingBuilt'
  BY <1>1, <1>7 DEF BInv, BindingBuilt, Caught, Building, ClaimOf
<1> QED
  BY <1>4, <1>6, <1>8 DEF BInv

LEMMA ObserveKeepsBinding ==
    ASSUME IInv, BInv, ObserveTemplate \/ ObserveBinding
    PROVE  BInv'
<1>1. UNCHANGED <<policies, template, binding, policyCache, waiting, worker, policyQueue, sync,
                  stale, events>>
  BY DEF ObserveTemplate, ObserveBinding, apiVars, templateVars, resourceVars, policyVars
<1>2. \/ queued' = TRUE
      \/ UNCHANGED <<queued, templateVersion, cacheVersion>>
  BY DEF ObserveTemplate, ObserveBinding, apiVars, templateVars, resourceVars
<1>3. \A p \in Policies : p \in bindingFresh' => p \in bindingFresh
  BY PoliciesAssumption DEF ObserveTemplate, ObserveBinding, Cache
<1>4. UnbindFits'
  BY <1>1, <1>3 DEF BInv, UnbindFits, ClaimOf
<1>5. BindingGuarded'
  BY <1>1, BindingLeft
<1>6. BindingBuilt'
  BY <1>1, <1>2 DEF BInv, BindingBuilt, Caught, Building, Built, ClaimOf
<1> QED
  BY <1>4, <1>5, <1>6 DEF BInv

\* Reconcile: a claim that is guarded is applied, or its policy is yet to let go of it.
LEMMA ReconcileKeepsBinding ==
    ASSUME IInv, BInv, Reconcile
    PROVE  BInv'
<1>1. /\ UNCHANGED <<policies, template, binding, policyCache, templateCache, bindingCache,
                     bindingFresh, policyQueue, sync, events>>
      /\ stale \subseteq stale'
      /\ UNCHANGED <<templateVersion, cacheVersion>>
  BY DEF Reconcile, Mistaken, KeepTemplate, templateVars, KeepBinding, WorkerUnchanged, policyVars, Cache
<1>2. UnbindFits'
  BY <1>1 DEF BInv, UnbindFits, ClaimOf
<1>3. BindingGuarded'
  BY <1>1, BindingLeft
<1>4. BindingBuilt'
  <2> SUFFICES ASSUME stale' = {}, Caught', template # None
               PROVE  Building' \/ (worker' = Idle /\ Built')
    BY <1>1 DEF BindingBuilt
  <2>1. stale = {} /\ ~queued' /\ templateCache = template /\ template \in Claim
    BY <1>1, Types DEF Caught, IInv, CachesFit
  <2> DEFINE p == template.policy
             copy == policyCache[template.policy]
  <2>2. p \in Policies /\ copy # None /\ copy \in Policy /\ copy.id = template.id
    BY <2>1, Types, Distinct DEF IInv, ClaimCurrent, Guarded
  <2>3. copy.match = PriorityMisMatch /\ ~copy.deleting =>
           \/ p \in policyQueue
           \/ sync[p].pc = "unmatched" /\ sync[p].copy.id = template.id
    BY <2>1 DEF IInv, ClaimCurrent
  <2>4. /\ ~copy.deleting
        /\ \/ copy.match = PriorityMisMatch /\ worker' = Idle
           \/ worker' = [pc |-> "claim", object |-> template, rv |-> cacheVersion,
                           policy |-> p, copy |-> copy]
    BY <2>1, <2>2 DEF Reconcile, GetAndApplyPolicy, Apply
  <2>5. CASE copy.match = PriorityMisMatch /\ worker' = Idle
    BY <1>1, <2>3, <2>4, <2>5 DEF Built
  <2>6. CASE worker' = [pc |-> "claim", object |-> template, rv |-> cacheVersion,
                        policy |-> p, copy |-> copy]
    <3>1. /\ worker'.pc = "claim" /\ worker'.object = template
          /\ worker'.rv = templateVersion'
          /\ worker'.policy = p /\ worker'.copy = copy
      BY <1>1, <2>6 DEF Caught
    <3>2. ClaimOf(p, copy) = template
      BY <2>1, <2>2, Claims
    <3> QED
      BY <1>1, <3>1, <3>2 DEF Building, ClaimOf
  <2> QED
    BY <2>4, <2>5, <2>6
<1> QED
  BY <1>2, <1>3, <1>4 DEF BInv

\* AddWaiting and the cleanup of a claim are not steps of a worker that has read the
\* claim as it is.
LEMMA WorkerKeepsBinding ==
    ASSUME IInv, BInv, AddWaiting \/ WorkerCleanBinding \/ WorkerCleanTemplate
    PROVE  BInv'
<1>1. /\ worker.pc \in {"wait", "cleanBinding", "cleanTemplate"}
      /\ UNCHANGED <<policies, policyCache, policyQueue, sync, bindingCache>>
      /\ queued => queued'
      /\ \/ UNCHANGED <<template, templateVersion, cacheVersion>>
         \/ Rewritten
  <2>1. CASE AddWaiting
    BY <2>1 DEF AddWaiting, WorkerUnchanged, policyVars, KeepTemplate, templateVars
  <2>2. CASE WorkerCleanBinding
    BY <2>2 DEF WorkerCleanBinding, WorkerUnchanged, policyVars, KeepTemplate, templateVars
  <2>3. CASE WorkerCleanTemplate
    BY <2>3, Rewrite
    DEF WorkerCleanTemplate, WorkerUnchanged, policyVars, KeepTemplate, templateVars, IInv,
                CleanupResourceTemplateClaimMetadata
  <2> QED
    BY <2>1, <2>2, <2>3
<1>2. /\ stale \subseteq stale'
      /\ \/ UNCHANGED <<binding, bindingFresh>>
         \/ /\ SeenBinding # None /\ binding' = [binding EXCEPT !.claim = None]
            /\ bindingFresh' = {}
  BY DEF AddWaiting, WorkerCleanBinding, WorkerCleanTemplate, KeepBinding, WriteBinding,
         CleanupResourceBindingClaimMetadata
<1>3. worker # Idle /\ ~Building
  BY <1>1, Distinct DEF Building
<1>4. BindingBuilt'
  <2>1. Caught' => Caught /\ template' = template
    BY <1>1 DEF Caught, Rewritten
  <2>2. stale' = {} => stale = {}
    BY <1>2
  <2> QED
    BY <1>3, <2>1, <2>2 DEF BInv, BindingBuilt
<1>5. CASE UNCHANGED <<binding, bindingFresh>>
  <2>1. UnbindFits'
    BY <1>1, <1>5 DEF BInv, UnbindFits, ClaimOf
  <2>2. BindingGuarded'
    BY <1>1, <1>2, <1>5, BindingLeft
  <2> QED
    BY <1>4, <2>1, <2>2 DEF BInv
<1>6. CASE SeenBinding # None /\ binding' = [binding EXCEPT !.claim = None] /\ bindingFresh' = {}
  <2>1. binding \in Binding
    BY <1>6, Types DEF SeenBinding, IInv, CachesFit
  <2>2. binding'.claim = None
    BY <1>6, <2>1 DEF Binding
  <2>3. BindingGuarded'
    BY <2>2, Distinct DEF BindingGuarded
  <2>4. UnbindFits'
    BY <1>6 DEF UnbindFits
  <2> QED
    BY <1>4, <2>3, <2>4 DEF BInv
<1> QED
  BY <1>2, <1>5, <1>6

\* The claim that the Processor has read is found written.
LEMMA ClaimPolicyKeepsBinding ==
    ASSUME IInv, BInv, ClaimPolicyForObject
    PROVE  BInv'
<1> DEFINE claim == ClaimOf(worker.policy, worker.copy)
<1>1. /\ worker.pc = "claim"
      /\ UNCHANGED <<policies, binding, policyCache, cacheVersion, bindingFresh, policyQueue, sync>>
      /\ stale \subseteq stale'
  BY DEF ClaimPolicyForObject, Outdated, KeepBinding, WorkerUnchanged, policyVars
<1>2. \/ Rewritten
      \/ /\ worker.object = claim /\ UNCHANGED <<template, templateVersion, cacheVersion, queued>>
         /\ worker' = [worker EXCEPT !.pc = "bind", !.object = claim, !.rv = worker.rv]
      \/ queued' = TRUE
  BY <1>1, Rewrite DEF ClaimPolicyForObject, KeepTemplate, templateVars, IInv
<1>3. UnbindFits'
  BY <1>1 DEF BInv, UnbindFits, ClaimOf
<1>4. BindingGuarded'
  BY <1>1, BindingLeft
<1>5. BindingBuilt'
  <2>1. ASSUME UNCHANGED <<template, templateVersion, cacheVersion, queued>>,
               worker.object = claim,
               worker' = [worker EXCEPT !.pc = "bind", !.object = claim, !.rv = worker.rv]
        PROVE  BindingBuilt'
    <3>1. worker \in Applying
      BY <1>1, Types DEF IInv
    <3>2. /\ worker'.pc = "bind" /\ worker'.object = worker.object /\ worker'.rv = worker.rv
          /\ worker'.policy = worker.policy /\ worker'.copy = worker.copy
      BY <2>1, <3>1 DEF Applying
    <3>3. worker # Idle
      BY <1>1, Distinct
    <3>4. Building => Building'
      BY <1>1, <2>1, <3>2 DEF Building, ClaimOf
    <3> QED
      BY <1>1, <2>1, <3>3, <3>4 DEF BInv, BindingBuilt, Caught
  <2> QED
    BY <1>2, <2>1 DEF BindingBuilt, Caught, Rewritten
<1> QED
  BY <1>3, <1>4, <1>5 DEF BInv

\* The binding is built from the policy as it is, for the template as it is.
LEMMA ApplyPolicyKeepsBinding ==
    ASSUME IInv, BInv, ApplyPolicy
    PROVE  BInv'
<1> DEFINE p == worker.policy
           copy == worker.copy
           built == BuildResourceBinding
<1>1. /\ worker.pc = "bind" /\ worker' = Idle
      /\ UNCHANGED <<policies, template, policyCache, templateCache, bindingCache,
                     templateVersion, cacheVersion, waiting, policyQueue, sync, events>>
      /\ stale \subseteq stale'
  BY DEF ApplyPolicy, Outdated, KeepTemplate, templateVars, WorkerUnchanged, policyVars
<1>2. \/ binding' = built /\ bindingFresh' = {}
      \/ UNCHANGED <<binding, bindingFresh>>
  BY DEF ApplyPolicy, WriteBinding, KeepBinding
<1>3. p \in Policies /\ copy \in Policy /\ copy # None
  BY <1>1, Types, Distinct DEF IInv
<1>4. stale' = {} => stale = {} /\ policies[p] = copy
  BY <1>1 DEF ApplyPolicy, Outdated
<1>5. stale' = {} => policyCache[p] = copy /\ ~copy.deleting /\ copy.match > PriorityMisMatch
  BY <1>1, <1>4 DEF IInv, WorkerFits
<1>6. UnbindFits'
  BY <1>1, <1>2 DEF BInv, UnbindFits, ClaimOf
<1>7. BindingGuarded'
  <2>1. CASE UNCHANGED <<binding, bindingFresh>>
    BY <1>1, <2>1, BindingLeft
  <2>2. CASE binding' = built /\ bindingFresh' = {}
    <3> SUFFICES ASSUME NEW c \in Claim, stale' = {}, binding'.claim = c
                 PROVE  BindingGuard(c.policy, c.id)'
      BY DEF BindingGuarded
    <3>1. c = ClaimOf(p, copy)
      BY <2>2 DEF BuildResourceBinding
    <3>2. c.policy = p /\ c.id = copy.id
      BY <1>3, <3>1, Claims
    <3>3. policyCache[p] = copy /\ ~copy.deleting /\ copy.match # PriorityMisMatch
      BY <1>3, <1>5, Distinct DEF PriorityMisMatch
    <3>4. ASSUME sync[p].pc \in {"cleanTemplate", "finalize"} PROVE sync[p].copy.id # copy.id
      <4>1. sync[p] # Idle /\ sync[p].copy # None
        BY <1>3, <3>4, Types, Distinct DEF IInv
      <4>2. sync[p].copy.deleting /\ Older(sync[p].copy, policyCache[p])
        BY <1>3, <3>4, <4>1 DEF IInv, SyncFits
      <4> QED
        BY <1>3, <3>3, <4>1, <4>2 DEF Older
    <3> QED
      BY <1>1, <1>3, <1>4, <3>2, <3>3, <3>4 DEF BindingGuard, PriorityMisMatch
  <2> QED
    BY <1>2, <2>1, <2>2
<1>8. BindingBuilt'
  <2> SUFFICES ASSUME stale' = {}, Caught', template # None
               PROVE  Built'
    BY <1>1 DEF BindingBuilt
  <2>1. ~queued' /\ Caught
    BY <1>1 DEF Caught, ApplyPolicy
  <2>2. worker # Idle
    BY <1>1, Distinct
  <2>3. ClaimOf(p, copy) = template /\ worker.rv = templateVersion
    BY <1>4, <2>1, <2>2 DEF BInv, BindingBuilt, Building
  <2>4. template.policy = p
    BY <1>3, <2>3, Claims
  <2>5. binding' = built
    BY <2>1, <2>3 DEF ApplyPolicy, WriteBinding, KeepBinding
  <2>6. built \in Binding
    <3>1. /\ ClaimOf(p, copy) \in Claim
          /\ copy.version \in 0..MaxEvents /\ worker.rv \in Versions
      BY <1>1, <1>3, Types, Claims, Distinct DEF IInv
    <3> QED
      BY <3>1 DEF Binding, BuildResourceBinding
  <2>7. /\ binding' # None /\ binding'.claim = template
        /\ binding'.version = policyCache[p].version /\ binding'.rv = templateVersion
    BY <1>5, <2>3, <2>5, <2>6, Distinct DEF BuildResourceBinding
  <2> QED
    BY <1>1, <2>4, <2>7 DEF Built
<1> QED
  BY <1>6, <1>7, <1>8 DEF BInv

\* The worker of p goes on: what it was to do for the binding, it will do yet, or it is
\* queued again, or has done.
LEMMA SyncKeepsBinding ==
    ASSUME IInv, BInv, NEW p \in Policies,
           UNCHANGED <<policyCache, worker>>, queued => queued', stale \subseteq stale',
           UNCHANGED <<template, templateVersion, cacheVersion>> \/ Rewritten,
           \A q \in Policies \ {p} :
              /\ policies'[q] = policies[q] /\ sync'[q] = sync[q]
              /\ q \in policyQueue => q \in policyQueue'
              /\ q \in bindingFresh' => q \in bindingFresh /\ binding' = binding,
           sync'[p].pc = "unbind" /\ p \in bindingFresh' =>
              binding'.claim = ClaimOf(p, sync'[p].copy),
           \A c \in Claim : stale' = {} /\ binding' # None /\ binding'.claim = c =>
              /\ binding # None /\ binding.claim = c
              /\ c.policy = p /\ BindingGuard(c.policy, c.id) => BindingGuard(c.policy, c.id)',
           /\ stale' = {} /\ ~queued' /\ template # None /\ Built
           /\ UNCHANGED <<template, templateVersion>>
           /\ template.policy = p \/ binding' # binding
           => Built'
    PROVE  BInv'
<1>1. UnbindFits'
  BY DEF BInv, UnbindFits, ClaimOf
<1>2. stale' = {} => stale = {}
  OBVIOUS
<1>3. BindingGuarded'
  <2> SUFFICES ASSUME NEW c \in Claim, stale' = {}, binding' # None, binding'.claim = c
               PROVE  BindingGuard(c.policy, c.id)'
    BY DEF BindingGuarded
  <2>1. BindingGuard(c.policy, c.id)
    BY <1>2 DEF BInv, BindingGuarded
  <2>2. c.policy \in Policies
    BY Distinct
  <2>3. CASE c.policy = p
    BY <2>1, <2>3
  <2>4. CASE c.policy # p
    BY <2>1, <2>2, <2>4 DEF BindingGuard, PriorityMisMatch
  <2> QED
    BY <2>3, <2>4
<1>4. BindingBuilt'
  <2> SUFFICES ASSUME stale' = {}, Caught', template' # None
               PROVE  Building' \/ (worker' = Idle /\ Built')
    BY DEF BindingBuilt
  <2>1. UNCHANGED <<template, templateVersion, cacheVersion>> /\ Caught /\ ~queued'
    BY DEF Caught, Rewritten
  <2>2. Building => Building'
    BY <2>1 DEF Building, ClaimOf
  <2>3. ASSUME Built PROVE Built'
    <3>1. CASE template.policy = p \/ binding' # binding
      BY <2>1, <2>3, <3>1
    <3>2. CASE template.policy # p /\ binding' = binding
      <4>1. template.policy \in Policies
        BY <2>1, Types, Distinct DEF IInv
      <4> QED
        BY <2>1, <2>3, <3>2, <4>1 DEF Built
    <3> QED
      BY <3>1, <3>2
  <2> QED
    BY <1>2, <2>1, <2>2, <2>3 DEF BInv, BindingBuilt
<1> QED
  BY <1>1, <1>3, <1>4 DEF BInv

LEMMA ReconcilePolicyKeepsBinding ==
    ASSUME IInv, BInv, NEW p \in Policies, ReconcilePropagationPolicy(p)
    PROVE  BInv'
<1> DEFINE copy == policyCache[p]
           pc == IF ~copy.deleting THEN "unmatched"
                 ELSE IF Listed(p, copy) THEN "cleanBinding"
                 ELSE "finalize"
           s == IF copy = None THEN Idle ELSE [copy |-> copy, pc |-> pc]
<1>1. /\ sync[p] = Idle /\ policyQueue' = policyQueue \ {p}
      /\ sync' = [sync EXCEPT ![p] = s]
      /\ UNCHANGED <<policies, template, binding, policyCache, templateCache, bindingCache,
                     templateVersion, cacheVersion, bindingFresh, queued, waiting, worker, events>>
      /\ stale' = IF copy # None /\ copy.deleting THEN Unlisted(p, copy) ELSE stale
  BY DEF ReconcilePropagationPolicy, KeepTemplate, templateVars, KeepBinding, PolicyUnchanged
<1>2. stale \subseteq stale'
  BY <1>1 DEF Unlisted
<1>3. /\ copy # None => s.copy = copy /\ s.pc = pc
      /\ copy = None => s.pc = "idle"
      /\ pc \in {"unmatched", "cleanBinding", "finalize"}
  BY Distinct
<1>4. s.pc # "unbind"
  BY <1>3
<1> HIDE DEF s
<1>5. sync'[p] = s /\ \A q \in Policies \ {p} : sync'[q] = sync[q]
  BY <1>1 DEF IInv, TypeOK
<1>6. ASSUME NEW c \in Claim, stale' = {}, binding # None, binding.claim = c, c.policy = p,
             BindingGuard(c.policy, c.id)
      PROVE  BindingGuard(c.policy, c.id)'
  <2>1. /\ copy # None /\ copy.id = c.id /\ policies[p] # None /\ policies[p].id = c.id
    BY <1>6 DEF BindingGuard
  <2>2. c = ClaimOf(p, copy)
    BY <1>6, <2>1, Claims, Types DEF IInv
  <2>3. copy.deleting => Listed(p, copy)
    BY <1>1, <1>6, <2>1, <2>2 DEF Unlisted
  <2>4. sync'[p].copy = copy /\ sync'[p].pc = IF copy.deleting THEN "cleanBinding" ELSE "unmatched"
    BY <1>3, <1>5, <2>1, <2>3
  <2> QED
    BY <1>1, <1>6, <2>1, <2>4 DEF BindingGuard, PriorityMisMatch
<1>7. ASSUME stale' = {}, template # None, template.policy = p
      PROVE  Built'
  <2>1. stale = {}
    BY <1>2, <1>7
  <2>2. copy # None /\ copy.id = template.id
    BY <1>7, <2>1 DEF IInv, ClaimCurrent, Guarded
  <2> QED
    BY <1>1, <1>3, <1>5, <1>7, <2>2 DEF Built
<1> HIDE DEF copy, pc
<1> QED
  BY <1>1, <1>2, <1>4, <1>5, <1>6, <1>7, SyncKeepsBinding

LEMMA PolicyCleansKeepsBinding ==
    ASSUME IInv, BInv, NEW p \in Policies, PolicyCleanBinding(p) \/ PolicyCleanTemplate(p)
    PROVE  BInv'
<1> DEFINE copy == sync[p].copy
<1>1. /\ UNCHANGED <<policies, policyCache, templateCache, bindingCache, cacheVersion, queued,
                     waiting, worker, policyQueue, events>>
      /\ sync[p].pc \in {"cleanBinding", "cleanTemplate"}
  BY DEF PolicyCleanBinding, PolicyCleanTemplate, PolicyUnchanged
<1>2. sync[p] # Idle /\ copy \in Policy /\ copy # None
  BY <1>1, Types, Distinct DEF IInv
<1>3. copy.deleting /\ Older(copy, policyCache[p])
  BY <1>1, <1>2 DEF IInv, SyncFits
<1>4. ASSUME PolicyCleanBinding(p) PROVE BInv'
  <2>1. /\ sync[p].pc = "cleanBinding" /\ sync' = [sync EXCEPT ![p].pc = "cleanTemplate"]
        /\ UNCHANGED <<template, templateVersion, cacheVersion>>
        /\ CleanupResourceBindingClaimMetadata(ClaimOf(p, copy))
    BY <1>1, <1>4 DEF PolicyCleanBinding, KeepTemplate, templateVars
  <2>2. /\ sync'[p].pc = "cleanTemplate" /\ sync'[p].copy = copy
        /\ \A q \in Policies \ {p} : sync'[q] = sync[q]
    BY <1>2, <2>1, Moved DEF IInv, SyncPcs
  <2>3. /\ stale \subseteq stale'
        /\ \/ /\ SeenBinding # None /\ binding.claim = ClaimOf(p, copy)
              /\ binding' = [binding EXCEPT !.claim = None] /\ bindingFresh' = {}
           \/ /\ UNCHANGED <<binding, bindingFresh>>
              /\ stale' = {} => ~(binding # None /\ binding.claim = ClaimOf(p, copy))
    BY <2>1 DEF CleanupResourceBindingClaimMetadata, WriteBinding, KeepBinding
  <2>4. SeenBinding # None => binding \in Binding
    BY Types DEF SeenBinding, IInv, CachesFit
  <2>5. SeenBinding # None /\ binding' = [binding EXCEPT !.claim = None] => binding'.claim = None
    BY <2>4 DEF Binding
  <2>6. ASSUME NEW c \in Claim, stale' = {}, binding' # None, binding'.claim = c
        PROVE  /\ binding # None /\ binding.claim = c /\ c # ClaimOf(p, copy)
               /\ binding' = binding
    BY <2>3, <2>5, <2>6, Distinct
  <2>7. ASSUME NEW c \in Claim, c.policy = p, c # ClaimOf(p, copy),
               BindingGuard(c.policy, c.id)
        PROVE  BindingGuard(c.policy, c.id)'
    <3>1. copy.id # c.id
      BY <1>2, <2>7, Claims
    <3> QED
      BY <1>1, <2>1, <2>2, <2>7, <3>1 DEF BindingGuard, PriorityMisMatch
  <2>8. ASSUME stale' = {}, template # None, Built,
               template.policy = p \/ binding' # binding
        PROVE  Built'
    <3>1. CASE binding.claim = template /\ binding' # binding
      <4>1. template = ClaimOf(p, copy)
        BY <2>3, <3>1
      <4>2. template.policy = p /\ template.id = copy.id
        BY <1>2, <4>1, Claims
      <4>3. policyCache[p] # None /\ policyCache[p].id = template.id
        BY <2>3, <2>8, <4>2 DEF IInv, ClaimCurrent, Guarded
      <4>4. policyCache[p].deleting
        BY <1>2, <1>3, <4>2, <4>3 DEF Older
      <4> QED
        BY <1>1, <2>1, <4>2, <4>4 DEF Built
    <3>2. CASE ~(binding.claim = template /\ binding' # binding)
      <4>1. template.policy \in Policies
        BY <2>8, Types, Distinct DEF IInv
      <4> QED
        BY <1>1, <2>1, <2>2, <2>8, <3>2, <4>1 DEF Built
    <3> QED
      BY <3>1, <3>2
  <2> HIDE DEF copy
  <2> QED
    BY <1>1, <2>1, <2>2, <2>3, <2>6, <2>7, <2>8, SyncKeepsBinding
<1>5. ASSUME PolicyCleanTemplate(p) PROVE BInv'
  <2>1. /\ sync[p].pc = "cleanTemplate" /\ sync' = [sync EXCEPT ![p].pc = "finalize"]
        /\ UNCHANGED <<binding, bindingFresh, stale>>
        /\ Rewritten \/ UNCHANGED <<template, templateVersion, cacheVersion>>
    BY <1>1, <1>5, Rewrite
    DEF PolicyCleanTemplate, KeepBinding, KeepTemplate, templateVars, IInv,
                CleanupResourceTemplateClaimMetadata
  <2>2. /\ sync'[p].pc = "finalize" /\ sync'[p].copy = copy
        /\ \A q \in Policies \ {p} : sync'[q] = sync[q]
    BY <1>2, <2>1, Moved DEF IInv, SyncPcs
  <2>3. ASSUME NEW c \in Claim, c.policy = p, BindingGuard(c.policy, c.id)
        PROVE  BindingGuard(c.policy, c.id)'
    BY <1>1, <2>1, <2>2, <2>3 DEF BindingGuard, PriorityMisMatch
  <2>4. UNCHANGED <<template, templateVersion>> /\ template.policy = p /\ Built => Built'
    BY <1>1, <2>1, <2>2 DEF Built
  <2> QED
    BY <1>1, <2>1, <2>2, <2>3, <2>4, SyncKeepsBinding
<1> QED
  BY <1>4, <1>5

LEMMA RemoveFinalizerKeepsBinding ==
    ASSUME IInv, BInv, NEW p \in Policies, RemoveFinalizer(p)
    PROVE  BInv'
<1>1. /\ sync[p].pc = "finalize" /\ sync' = [sync EXCEPT ![p] = Idle]
      /\ UNCHANGED <<template, binding, policyCache, templateCache, bindingCache, templateVersion, cacheVersion,
                     bindingFresh, queued, waiting, worker, stale, events>>
      /\ \/ /\ policies[p] = sync[p].copy /\ policies' = [policies EXCEPT ![p] = None]
            /\ UNCHANGED policyQueue
         \/ policyQueue' = policyQueue \cup {p} /\ UNCHANGED policies
  BY DEF RemoveFinalizer, KeepTemplate, templateVars, KeepBinding, PolicyUnchanged
<1>2. sync'[p].pc = "idle" /\ \A q \in Policies \ {p} : sync'[q] = sync[q]
  BY <1>1, Set, Distinct DEF IInv
<1>3. /\ \A q \in Policies \ {p} : policies'[q] = policies[q]
      /\ policyQueue \subseteq policyQueue'
  BY <1>1 DEF IInv, TypeOK
<1>4. ASSUME NEW c \in Claim, c.policy = p, BindingGuard(c.policy, c.id)
      PROVE  BindingGuard(c.policy, c.id)'
  BY <1>1, <1>2, <1>4 DEF BindingGuard, PriorityMisMatch
<1>5. template.policy = p /\ Built => Built'
  BY <1>1, <1>2, <1>3 DEF Built
<1> QED
  BY <1>1, <1>2, <1>3, <1>4, <1>5, SyncKeepsBinding

LEMMA CleanUnmatchedKeepsBinding ==
    ASSUME IInv, BInv, NEW p \in Policies, CleanPPUnmatchedRBs(p)
    PROVE  BInv'
<1> DEFINE copy == sync[p].copy
           clean == Derived(p, copy) /\ copy.match = PriorityMisMatch
           written == clean /\ cacheVersion = templateVersion
<1>1. /\ sync[p].pc = "unmatched"
      /\ UNCHANGED <<policies, binding, policyCache, templateCache, bindingCache, queued, waiting,
                     worker, events>>
      /\ \/ template' = None /\ Rewritten
         \/ (written => template = None) /\ UNCHANGED <<template, templateVersion, cacheVersion>>
      /\ \/ /\ clean /\ ~written
            /\ sync' = [sync EXCEPT ![p] = Idle] /\ policyQueue' = policyQueue \cup {p}
         \/ clean /\ sync' = [sync EXCEPT ![p].pc = "unbind"] /\ UNCHANGED policyQueue /\ written
         \/ ~clean /\ sync' = [sync EXCEPT ![p].pc = "enqueue"] /\ UNCHANGED policyQueue
      /\ stale' = Overlooked(p, copy) \cup (IF written THEN Outdated(p, copy) ELSE {})
  BY Rewrite DEF CleanPPUnmatchedRBs, KeepTemplate, templateVars, PolicyUnchanged, IInv
<1>2. /\ stale \subseteq stale'
      /\ stale' = {} /\ ~Derived(p, copy) =>
            ~(binding # None /\ binding.claim = ClaimOf(p, copy))
  BY <1>1 DEF Overlooked, Outdated
<1>3. /\ \A q \in Policies \ {p} : q \in bindingFresh' => q \in bindingFresh
      /\ written /\ p \in bindingFresh' => Cache \in bindingFresh
  <2>1. Cache # p
    BY PoliciesAssumption DEF Cache
  <2> QED
    BY <2>1 DEF CleanPPUnmatchedRBs
<1>4. sync[p] # Idle /\ copy \in Policy
  BY <1>1, Types, Distinct DEF IInv
<1>5. /\ \A q \in Policies \ {p} : sync'[q] = sync[q]
      /\ policyQueue \subseteq policyQueue'
      /\ \/ /\ clean /\ sync'[p].pc = "idle" /\ p \in policyQueue'
         \/ clean /\ written /\ sync'[p].pc = "unbind" /\ sync'[p].copy = copy
         \/ ~clean /\ sync'[p].pc = "enqueue" /\ sync'[p].copy = copy
  <2> HIDE DEF clean, written
  <2>1. CASE /\ clean /\ ~written
             /\ sync' = [sync EXCEPT ![p] = Idle] /\ policyQueue' = policyQueue \cup {p}
    BY <2>1, Set, Distinct DEF IInv
  <2>2. CASE clean /\ written /\ sync' = [sync EXCEPT ![p].pc = "unbind"] /\ UNCHANGED policyQueue
    BY <1>4, <2>2, Moved DEF IInv, SyncPcs
  <2>3. CASE ~clean /\ sync' = [sync EXCEPT ![p].pc = "enqueue"] /\ UNCHANGED policyQueue
    BY <1>4, <2>3, Moved DEF IInv, SyncPcs
  <2> QED
    BY <1>1, <2>1, <2>2, <2>3
<1>6. ASSUME sync'[p].pc = "unbind", p \in bindingFresh'
      PROVE  binding'.claim = ClaimOf(p, sync'[p].copy)
  <2>1. written /\ sync'[p].copy = copy
    BY <1>5, <1>6
  <2>2. bindingCache = binding
    BY <1>3, <1>6, <2>1 DEF IInv, CachesFit
  <2> QED
    BY <1>1, <2>1, <2>2 DEF Derived
<1>7. ASSUME NEW c \in Claim, stale' = {}, binding # None, binding.claim = c, c.policy = p,
             BindingGuard(c.policy, c.id)
      PROVE  BindingGuard(c.policy, c.id)'
  <2>1. ASSUME copy.match = PriorityMisMatch, copy.id = c.id
        PROVE  p \in policyQueue' \/ (sync'[p].pc = "unbind" /\ sync'[p].copy.id = c.id)
    <3>1. c = ClaimOf(p, copy)
      BY <1>4, <1>7, <2>1, Claims
    <3>2. clean
      BY <1>2, <1>7, <2>1, <3>1
    <3> QED
      BY <1>5, <2>1, <3>2
  <2> HIDE DEF clean
  <2> QED
    BY <1>1, <1>5, <1>7, <2>1 DEF BindingGuard, PriorityMisMatch
<1> HIDE DEF copy, clean, written
<1>8. CASE Rewritten /\ template' # template
  BY <1>1, <1>2, <1>3, <1>5, <1>6, <1>7, <1>8, SyncKeepsBinding
<1>9. CASE template' = template
  <2>1. ASSUME template # None, template.policy = p, Built
        PROVE  Built'
    <3>1. ~written
      BY <1>1, <1>9, <2>1
    <3> QED
      BY <1>1, <1>5, <1>9, <2>1, <3>1 DEF Built, copy
  <2> QED
    BY <1>1, <1>2, <1>3, <1>5, <1>6, <1>7, <1>9, <2>1, SyncKeepsBinding
<1> QED
  BY <1>1, <1>8, <1>9

LEMMA RemoveRBsKeepsBinding ==
    ASSUME IInv, BInv, NEW p \in Policies, RemoveRBsClaimMetadata(p)
    PROVE  BInv'
<1> DEFINE copy == sync[p].copy
<1>1. /\ sync[p].pc = "unbind"
      /\ UNCHANGED <<policies, template, policyCache, templateCache, bindingCache, templateVersion, cacheVersion,
                     queued, waiting, worker, events>>
      /\ \/ /\ p \in bindingFresh /\ binding' = [binding EXCEPT !.claim = None]
            /\ bindingFresh' = {}
            /\ sync' = [sync EXCEPT ![p].pc = "enqueue"] /\ UNCHANGED policyQueue
         \/ /\ UNCHANGED <<binding, bindingFresh>>
            /\ sync' = [sync EXCEPT ![p] = Idle] /\ policyQueue' = policyQueue \cup {p}
      /\ stale \subseteq stale'
  BY DEF RemoveRBsClaimMetadata, Outdated, KeepTemplate, templateVars, KeepBinding, WriteBinding,
         PolicyUnchanged
<1>2. sync[p] # Idle /\ copy \in Policy
  BY <1>1, Types, Distinct DEF IInv
<1>3. /\ \A q \in Policies \ {p} : sync'[q] = sync[q]
      /\ \/ /\ sync'[p].pc = "idle" /\ policyQueue' = policyQueue \cup {p}
            /\ UNCHANGED <<binding, bindingFresh>>
         \/ /\ sync'[p].pc = "enqueue" /\ sync'[p].copy = copy /\ policyQueue' = policyQueue
            /\ p \in bindingFresh /\ binding' = [binding EXCEPT !.claim = None]
            /\ bindingFresh' = {}
  <2>1. CASE sync' = [sync EXCEPT ![p] = Idle] /\ policyQueue' = policyQueue \cup {p}
             /\ UNCHANGED <<binding, bindingFresh>>
    BY <2>1, Set, Distinct DEF IInv
  <2>2. CASE /\ sync' = [sync EXCEPT ![p].pc = "enqueue"] /\ UNCHANGED policyQueue
             /\ p \in bindingFresh /\ binding' = [binding EXCEPT !.claim = None]
             /\ bindingFresh' = {}
    BY <1>2, <2>2, Moved DEF IInv, SyncPcs
  <2> QED
    BY <1>1, <2>1, <2>2
<1>4. p \in bindingFresh => binding \in Binding /\ binding.claim = ClaimOf(p, copy)
  BY <1>1, Types DEF IInv, CachesFit, BInv, UnbindFits
<1>5. ASSUME NEW c \in Claim, binding'.claim = c
      PROVE  UNCHANGED <<binding, bindingFresh>> /\ p \in policyQueue' /\ sync'[p].pc = "idle"
  <2>1. [binding EXCEPT !.claim = None].claim = None \/ p \notin bindingFresh
    BY <1>4 DEF Binding
  <2> QED
    BY <1>3, <1>5, <2>1, Distinct
<1>6. ASSUME NEW c \in Claim, c.policy = p, p \in policyQueue', sync'[p].pc = "idle",
             BindingGuard(c.policy, c.id)
      PROVE  BindingGuard(c.policy, c.id)'
  BY <1>1, <1>6 DEF BindingGuard, PriorityMisMatch
<1>7. ASSUME template # None, Built, template.policy = p \/ binding' # binding
      PROVE  Built'
  <2>1. template.policy \in Policies
    BY <1>7, Types, Distinct DEF IInv
  <2>2. CASE binding' # binding /\ binding.claim = template
    <3>1. template = ClaimOf(p, copy)
      BY <1>3, <1>4, <2>2
    <3>2. template.policy = p /\ template.id = copy.id
      BY <1>2, <3>1, Claims
    <3> QED
      BY <1>1, <1>3, <2>2, <3>2 DEF Built
  <2>3. CASE ~(binding' # binding /\ binding.claim = template)
    BY <1>1, <1>3, <1>7, <2>1, <2>3 DEF Built
  <2> QED
    BY <2>2, <2>3
<1> HIDE DEF copy
<1> QED
  BY <1>1, <1>3, <1>5, <1>6, <1>7, SyncKeepsBinding

LEMMA EnqueueKeepsBinding ==
    ASSUME IInv, BInv, NEW p \in Policies, EnqueueTemplates(p) \/ Preempt(p)
    PROVE  BInv'
<1> DEFINE copy == sync[p].copy
<1>1. /\ sync[p].pc \in {"enqueue", "preempt"}
      /\ UNCHANGED <<policies, binding, policyCache, bindingFresh, worker>>
      /\ policyQueue \subseteq policyQueue'
      /\ Rewritten \/ UNCHANGED <<template, templateVersion, cacheVersion>>
  BY Rewrite
  DEF EnqueueTemplates, Preempt, KeepTemplate, templateVars, KeepBinding, PolicyUnchanged, IInv
<1>2. sync[p] # Idle /\ copy \in Policy
  BY <1>1, Types, Distinct DEF IInv
<1>3. /\ \A q \in Policies \ {p} : sync'[q] = sync[q]
      /\ sync'[p].pc \in {"idle", "preempt"}
  <2>1. \E s : sync' = [sync EXCEPT ![p] = s] /\ s.pc \in {"idle", "preempt"}
    <3>1. CASE EnqueueTemplates(p)
      <4>1. [pc |-> "preempt", copy |-> copy].pc = "preempt" /\ Idle.pc = "idle"
        BY Distinct
      <4> QED
        BY <3>1, <4>1 DEF EnqueueTemplates
    <3>2. CASE Preempt(p)
      BY <3>2, Distinct DEF Preempt
    <3> QED
      BY <3>1, <3>2
  <2>2. PICK s : sync' = [sync EXCEPT ![p] = s] /\ s.pc \in {"idle", "preempt"}
    BY <2>1
  <2>3. sync'[p] = s /\ \A q \in Policies \ {p} : sync'[q] = sync[q]
    BY <2>2 DEF IInv, TypeOK
  <2> QED
    BY <2>2, <2>3
<1>4. stale \subseteq stale' /\ (queued => queued')
  <2>1. CASE EnqueueTemplates(p)
    BY <2>1 DEF EnqueueTemplates, Overlooked
  <2>2. CASE Preempt(p)
    BY <2>2 DEF Preempt, Outdated
  <2> QED
    BY <2>1, <2>2
<1>5. ASSUME NEW c \in Claim, c.policy = p, BindingGuard(c.policy, c.id)
      PROVE  BindingGuard(c.policy, c.id)'
  BY <1>1, <1>3, <1>5 DEF BindingGuard, PriorityMisMatch
<1>6. ASSUME stale' = {}, ~queued', template # None, UNCHANGED <<template, templateVersion>>,
             template.policy = p, Built
      PROVE  Built'
  <2>1. CASE sync[p].pc = "enqueue" /\ copy.id = template.id
    <3>1. template = ClaimOf(p, copy)
      BY <1>2, <1>6, <2>1, Claims, Types DEF IInv
    <3>2. ~Derived(p, copy) /\ stale' = Overlooked(p, copy)
      BY <1>6, <2>1 DEF EnqueueTemplates, Preempt
    <3>3. "list" \in stale'
      BY <3>1, <3>2 DEF Overlooked
    <3> QED
      BY <1>6, <3>3
  <2>2. CASE ~(sync[p].pc = "enqueue" /\ copy.id = template.id)
    BY <1>1, <1>6, <2>2 DEF Built
  <2> QED
    BY <2>1, <2>2
<1> QED
  BY <1>1, <1>3, <1>4, <1>5, <1>6, SyncKeepsBinding

LEMMA FaultsKeepBinding ==
    ASSUME IInv, BInv,
           \/ WorkerFails \/ Restart
           \/ \E p \in Policies : PolicyFails(p) \/ WaitForOverrides(p)
    PROVE  BInv'
<1>1. ASSUME WorkerFails PROVE BInv'
  <2>1. /\ queued' = TRUE
        /\ UNCHANGED <<policies, template, binding, policyCache, bindingFresh, policyQueue, sync,
                       stale>>
    BY <1>1 DEF WorkerFails, apiVars, templateVars, cacheVars, policyVars
  <2>2. UnbindFits'
    BY <2>1 DEF BInv, UnbindFits, ClaimOf
  <2>3. BindingGuarded'
    BY <2>1, BindingLeft
  <2> QED
    BY <2>1, <2>2, <2>3 DEF BInv, BindingBuilt, Caught
<1>2. ASSUME Restart PROVE BInv'
  <2>1. /\ policyCache' = policies /\ queued' = TRUE
        /\ policyQueue' = {p \in Policies : policies[p] # None}
        /\ sync' = [p \in Policies |-> Idle]
        /\ UNCHANGED <<policies, binding, stale>>
    BY <1>2 DEF Restart, apiVars
  <2>2. \A p \in Policies : sync'[p].pc = "idle"
    BY <2>1, Distinct
  <2>3. UnbindFits'
    BY <2>2 DEF UnbindFits
  <2>4. \A c \in Claim : BindingGuard(c.policy, c.id) => BindingGuard(c.policy, c.id)'
    BY <2>1, <2>2, Distinct DEF BindingGuard, PriorityMisMatch
  <2>5. BindingGuarded'
    BY <2>1, <2>4 DEF BInv, BindingGuarded
  <2> QED
    BY <2>1, <2>3, <2>5 DEF BInv, BindingBuilt, Caught
<1>3. ASSUME NEW p \in Policies, PolicyFails(p) \/ WaitForOverrides(p) PROVE BInv'
  <2>1. /\ sync' = [sync EXCEPT ![p] = Idle] /\ policyQueue' = policyQueue \cup {p}
        /\ UNCHANGED <<policies, template, binding, policyCache, templateCache, bindingCache,
                       templateVersion, cacheVersion, bindingFresh, waiting, worker>>
    BY <1>3 DEF PolicyFails, WaitForOverrides, apiVars, templateVars, cacheVars, resourceVars
  <2>5. stale \subseteq stale' /\ (queued => queued')
    <3>1. CASE PolicyFails(p)
      BY <3>1 DEF PolicyFails, resourceVars
    <3>2. CASE WaitForOverrides(p)
      BY <3>2 DEF WaitForOverrides, Overlooked
    <3> QED
      BY <1>3, <3>1, <3>2
  <2>2. sync'[p].pc = "idle" /\ \A q \in Policies \ {p} : sync'[q] = sync[q]
    BY <2>1, Set, Distinct DEF IInv
  <2>3. ASSUME NEW c \in Claim, c.policy = p, BindingGuard(c.policy, c.id)
        PROVE  BindingGuard(c.policy, c.id)'
    BY <2>1, <2>2, <2>3 DEF BindingGuard, PriorityMisMatch
  <2>4. template.policy = p => Built'
    BY <2>1 DEF Built
  <2> QED
    BY <2>1, <2>2, <2>3, <2>4, <2>5, SyncKeepsBinding
<1> QED
  BY <1>1, <1>2, <1>3

LEMMA NextBinding ==
    ASSUME IInv, BInv, [Next]_vars
    PROVE  BInv'
<1>1. ASSUME Resource PROVE BInv'
  BY <1>1, ReconcileKeepsBinding, WorkerKeepsBinding, ClaimPolicyKeepsBinding,
     ApplyPolicyKeepsBinding DEF Resource
<1>2. ASSUME Observe PROVE BInv'
  BY <1>2, ObserveKeepsBinding, ObservePolicyKeepsBinding DEF Observe
<1>3. ASSUME NEW p \in Policies, PolicySync(p) PROVE BInv'
  BY <1>3, ReconcilePolicyKeepsBinding, PolicyCleansKeepsBinding, RemoveFinalizerKeepsBinding,
     CleanUnmatchedKeepsBinding, RemoveRBsKeepsBinding, EnqueueKeepsBinding DEF PolicySync
<1>4. ASSUME UNCHANGED vars PROVE BInv'
  <2>1. UNCHANGED <<policies, template, binding, policyCache, templateVersion, cacheVersion, bindingFresh, queued,
                    worker, policyQueue, sync, stale>>
    BY <1>4 DEF vars, apiVars, templateVars, cacheVars, resourceVars, policyVars
  <2>2. UnbindFits'
    BY <2>1 DEF BInv, UnbindFits, ClaimOf
  <2>3. BindingGuarded'
    BY <2>1, BindingLeft
  <2>4. BindingBuilt'
    BY <2>1 DEF BInv, BindingBuilt, Caught, Building, Built, ClaimOf
  <2> QED
    BY <2>2, <2>3, <2>4 DEF BInv
<1> QED
  BY <1>1, <1>2, <1>3, <1>4, UsersKeepBinding, FaultsKeepBinding DEF Next

\* BindingInvariant: what the binding carries is guarded, or about to be built.
THEOREM BindingInvariant == Spec => []BInv
<1>1. ASSUME Init PROVE BInv
  <2>1. binding = None /\ queued = TRUE /\ bindingFresh = {Cache}
    BY <1>1 DEF Init
  <2>2. Cache \notin Policies
    BY PoliciesAssumption DEF Cache
  <2> QED
    BY <2>1, <2>2 DEF BInv, UnbindFits, BindingGuarded, BindingBuilt, Caught
<1>2. IInv /\ BInv /\ [Next]_vars => BInv'
  BY NextBinding
<1> QED
  BY <1>1, <1>2, Invariant, PTL DEF Spec

\* BindingFollowsClaimAlways: when nothing was decided from an outdated copy, the binding
\* at rest carries the template's claim and is built from the latest edit of its policy,
\* whatever order the three kinds of worker wrote the two labels in.
THEOREM BindingFollowsClaimAlways == Spec => []BindingFollowsClaim
<1>1. ASSUME IInv, BInv PROVE BindingFollowsClaim
  <2> SUFFICES ASSUME Quiet, stale = {}
               PROVE  /\ binding # None => binding.claim = template
                      /\ template # None =>
                            /\ binding # None
                            /\ binding.version = policies[template.policy].version
                            /\ binding.rv = templateVersion
    BY DEF BindingFollowsClaim
  <2>1. /\ policyCache = policies /\ Caught /\ worker.pc = "idle" /\ policyQueue = {}
        /\ \A p \in Policies : sync[p].pc = "idle"
    BY Distinct DEF Quiet, CachesCurrent, Caught
  <2>2. CASE template # None
    <3>1. template.policy \in Policies
      BY <1>1, <2>2, Types, Distinct DEF IInv
    <3>2. Guarded
      BY <1>1, <2>2 DEF IInv, ClaimCurrent
    <3>3. Live(template.policy)
      BY <1>1, <2>2, <3>2, QuietGuard
    <3>4. Built
      BY <1>1, <2>1, <2>2 DEF BInv, BindingBuilt, Building
    <3> QED
      BY <2>1, <2>2, <3>1, <3>3, <3>4 DEF Built, Live
  <2>3. CASE template = None
    <3> SUFFICES ASSUME binding # None, binding.claim # None
                 PROVE  FALSE
      BY <2>3
    <3>1. binding.claim \in Claim
      BY <1>1, Types, Distinct DEF IInv
    <3>2. PICK c \in Claim : binding.claim = c
      BY <3>1
    <3>3. BindingGuard(c.policy, c.id) /\ c.policy \in Policies
      BY <1>1, <3>2, Distinct DEF BInv, BindingGuarded
    <3>4. /\ policies[c.policy] # None /\ ~policies[c.policy].deleting
          /\ policies[c.policy].match # PriorityMisMatch
      BY <2>1, <3>3 DEF BindingGuard
    <3>5. policies[c.policy].match \in Nat
      BY <1>1, <3>3, <3>4, Types, Distinct DEF IInv
    <3>6. Matching(c.policy)
      BY <2>1, <3>4, <3>5 DEF Matching, PriorityMisMatch
    <3> QED
      BY <1>1, <2>1, <2>3, <3>3, <3>6 DEF IInv, NothingMissed, Claiming, Coming
  <2> QED
    BY <2>2, <2>3
<1> QED
  BY <1>1, Invariant, BindingInvariant, PTL

=============================================================================
