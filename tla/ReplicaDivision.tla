--------------------------- MODULE ReplicaDivision ---------------------------
(***************************************************************************)
(* How karmada-scheduler divides the replicas of one workload: the part of *)
(* genericScheduler.Schedule after the filters.  The feasible clusters are *)
(* scored and sorted, some of them selected, and the replicas are divided  *)
(* among the selected ones, one overflow tier after another, seat by seat  *)
(* with the Webster method.                                                *)
(*                                                                         *)
(* The result of one call is the previous result of the next.  A call      *)
(* works on its own copy of the binding, so nothing interleaves with it;   *)
(* what the estimators report, the feasible clusters, the placement and    *)
(* spec.replicas are new in every call.                                    *)
(***************************************************************************)
EXTENDS Webster, FiniteSets, FiniteSetsExt, Functions

CONSTANTS
    Replicas,     \* the values of spec.replicas
    Estimators,   \* the replica estimators
    Reports,      \* what an estimator reports for a cluster
    Placements,   \* the placements of the binding
    MaxInt32      \* the largest int32

UnauthenticReplica == -1

Dynamic    == {"Aggregated", "DynamicWeight"}
Strategies == Dynamic \cup {"StaticWeight", "Duplicated"}

(***************************************************************************)
(* A placement: the strategy, the weights of the static rules (0: no rule  *)
(* matches the cluster), whether a WeightPreference is given that says     *)
(* nothing, the tier of each cluster under OverflowAffinities, and the     *)
(* spread constraint by cluster, if there is one (MaxGroups is optional;   *)
(* left out it is 0).                                                      *)
(***************************************************************************)
Placement ==
    [strategy : Strategies, weight : [Clusters -> Nat], emptyPreference : BOOLEAN,
     overflow : BOOLEAN, tier : [Clusters -> Nat],
     spread : BOOLEAN, minGroups : Nat, maxGroups : Nat]

ASSUME DivisionAssumption ==
    /\ IsFiniteSet(Clusters)
    /\ Replicas \subseteq Nat
    /\ Reports \subseteq Nat \cup {UnauthenticReplica}
    /\ Placements \subseteq Placement
    /\ MaxInt32 \in Nat

\* The webhook refuses other placements (ValidatePlacement).
ASSUME OverflowAssumption == \A p \in Placements : p.overflow => p.strategy \in Dynamic

\* The numbers of an instance are small enough for int32 sums over the clusters
\* to be exact.  A report of MaxInt32 stands for no report.
Fits(bound) ==
    /\ bound \in Nat
    /\ \A n \in Replicas : n <= bound
    /\ \A r \in Reports \ {MaxInt32} : r <= bound
    /\ 2 * bound * Cardinality(Clusters) <= MaxInt32

FitsInt32 == \E bound \in 0..MaxInt32 : Fits(bound)

VARIABLES
    clusters,  \* spec.clusters: the replicas of each cluster
    pc,        \* where Schedule is
    call,      \* its arguments
    todo,      \* the selected clusters of the tiers not yet divided
    left,      \* replicas not yet given to a tier
    result,    \* the result so far
    tier       \* the tier under way: what it keeps, what it takes in all

vars == <<clusters, pc, call, todo, left, result, tier, party>>

Nothing == [c \in Clusters |-> 0]

\* int32 arithmetic.
Wrap(n) == ((n + MaxInt32 + 1) % (2 * (MaxInt32 + 1))) - (MaxInt32 + 1)

Sum(f, S) == SumFunctionOnSet(f, S)

GetSumOfReplicas(f, S) == Wrap(Sum(f, S))

-----------------------------------------------------------------------------
(* Scoring and selection *)

\* The least of what the estimators know.
calAvailableReplicas(replicas, reports) ==
    [c \in Clusters |->
        LET known == {reports[e][c] : e \in Estimators} \ {UnauthenticReplica}
            least == Min(known \cup {MaxInt32})
        IN  IF replicas > 0 /\ least = MaxInt32 THEN replicas
            ELSE IF replicas > 0 THEN least ELSE MaxInt32]

\* ClusterDetailInfo.AvailableReplicas, an int64.
AvailableReplicas(allocatable) == [c \in Clusters |-> allocatable[c] + clusters[c]]

\* ClusterLocality: clusters that have the resource already come first.
Score(a, c) == IF a.assigned[c] > 0 THEN 100 ELSE 0

\* sortClusters
SortsBefore(a, b, c) ==
    LET order(x) == IF a.placement.overflow THEN a.placement.tier[x] ELSE 0
    IN  \/ order(b) < order(c)
        \/ order(b) = order(c)
           /\ \/ Score(a, b) > Score(a, c)
              \/ Score(a, b) = Score(a, c)
                 /\ \/ a.available[b] > a.available[c]
                    \/ a.available[b] = a.available[c] /\ b < c

Sorted(a) ==
    CHOOSE s \in [1..Cardinality(a.feasible) -> a.feasible] :
        \A i, j \in DOMAIN s : i < j => SortsBefore(a, s[i], s[j])

checkAvailableResource(a, S) == Sum(a.available, S) >= a.replicas

\* Mutant: only the cluster with the lowest score makes room.
selectClustersByAvailableResourceOnce(a, n) ==
    LET s == Sorted(a)
        rest == {i \in (n + 1)..Cardinality(a.feasible) :
                    a.available[s[i]] > a.available[s[n]]}
        first == {s[i] : i \in 1..n}
    IN  IF n = 0 \/ checkAvailableResource(a, first) \/ rest = {} THEN first
        ELSE {s[i] : i \in 1..(n - 1)} \cup {s[Min(rest)]}

First(s, n) == {s[i] : i \in 1..n}

\* The largest of the rest, if it is larger than the k-th.
GetClusterWithMaxAvailableResource(a, n, s, k) ==
    LET rest == (n + 1)..Cardinality(a.feasible)
    IN  {i \in rest : /\ a.available[s[i]] > a.available[s[k]]
                      /\ \A j \in rest : a.available[s[j]] <= a.available[s[i]]}

\* The k-th cluster makes room for it, unless there is enough.
Replaced(a, n, s, k) ==
    LET larger == GetClusterWithMaxAvailableResource(a, n, s, k)
    IN  IF checkAvailableResource(a, First(s, n)) \/ larger = {} THEN s
        ELSE [s EXCEPT ![k] = s[Min(larger)], ![Min(larger)] = s[k]]

\* The first n clusters; from the last of them on, each makes room for the
\* largest of the rest until there is enough.
selectClustersByAvailableResource(a, n) ==
    LET after[k \in 1..(n + 1)] ==
            IF k = n + 1 THEN Sorted(a) ELSE Replaced(a, n, after[k + 1], k)
    IN  First(after[1], n)

\* shouldIgnoreSpreadConstraint: a static division ignores the constraint, unless
\* it is one only because its WeightPreference is empty.
Spread(a) ==
    /\ a.placement.spread
    /\ a.placement.strategy = "StaticWeight" => a.placement.emptyPreference

needCnt(a) == Min({Cardinality(a.feasible), a.placement.maxGroups})

\* The clusters selected, {} for an error.
SelectBestClusters(a) ==
    IF ~Spread(a) THEN a.feasible
    ELSE IF Cardinality(a.feasible) < a.placement.minGroups THEN {}
    ELSE IF a.placement.strategy = "Duplicated"
         THEN First(Sorted(a), needCnt(a))
    ELSE LET S == selectClustersByAvailableResource(a, needCnt(a))
         IN  IF checkAvailableResource(a, S) THEN S ELSE {}

Arguments ==
    [placement : Placements, replicas : Replicas, fresh : BOOLEAN,
     feasible : SUBSET Clusters, assigned : [Clusters -> Nat],
     allocatable : [Clusters -> Nat], available : [Clusters -> Nat]]

\* Schedule up to selectClusters; AssignReplicas refuses an empty selection.  A fresh
\* call follows RescheduleTriggeredAt.
Schedule(placement, replicas, fresh, feasible, reports) ==
    LET room == calAvailableReplicas(replicas, reports)
    IN  /\ pc = "idle"
        /\ call' = [placement |-> placement, replicas |-> replicas, fresh |-> fresh,
                    feasible |-> feasible, assigned |-> clusters,
                    allocatable |-> room, available |-> AvailableReplicas(room)]
        /\ todo' = SelectBestClusters(call')
        /\ pc' = IF todo' = {} THEN "failed" ELSE "assign"
        /\ left' = replicas
        /\ result' = Nothing
        /\ UNCHANGED <<clusters, tier, party>>

-----------------------------------------------------------------------------
(* Assignment of one tier *)

\* The clusters of the next tier, and the replicas it is to take.
Tier ==
    IF call.placement.overflow
    THEN {c \in todo : \A d \in todo : call.placement.tier[c] <= call.placement.tier[d]}
    ELSE todo

\* Mutant: what the tier holds already is forgotten.
TierReplicasAllocatable ==
    IF call.placement.overflow THEN Min({left, Sum(call.allocatable, Tier)})
    ELSE call.replicas

TierReplicas ==
    IF call.placement.overflow THEN Min({left, Sum(call.available, Tier)})
    ELSE call.replicas

\* buildScheduledClusters
scheduledClusters == [c \in Clusters |-> IF c \in Tier THEN clusters[c] ELSE 0]

assignedReplicas == GetSumOfReplicas(clusters, Tier)

\* AllocateByWeight, up to its loop: nothing is divided when there is no weight.
\* The seats are added to base, the replicas the tier keeps.
Dispense(target, votes, base) ==
    /\ party' = Division(votes, IF Sum(votes, DOMAIN votes) = 0 THEN 0 ELSE target)
    /\ tier' = [base |-> base, share |-> TierReplicas]
    /\ pc' = "divide"
    /\ UNCHANGED <<clusters, call, todo, left, result>>

\* Mutant: the clusters that have replicas are not moved ahead.
AggregateBySize(target, votes, prior) ==
    {K \in SUBSET DOMAIN votes :
        /\ \A b \in K, c \in DOMAIN votes \ K : votes[c] <= votes[b]
        /\ GetSumOfReplicas(votes, K) >= target
        /\ \E last \in K :
              /\ \A b \in K : votes[last] <= votes[b]
              /\ K = {last} \/ GetSumOfReplicas(votes, K \ {last}) < target}

\* The prefix of the available clusters that is enough, those in prior first.
\* The order among equal clusters is the sort's choice.
Aggregate(target, votes, prior) ==
    LET ahead(b, c) == \/ b \in prior /\ c \notin prior
                       \/ (b \in prior <=> c \in prior) /\ votes[b] > votes[c]
    IN  {K \in SUBSET DOMAIN votes :
            /\ \A b \in K, c \in DOMAIN votes \ K : ~ahead(c, b)
            /\ GetSumOfReplicas(votes, K) >= target
            /\ \E last \in K :
                  /\ \A b \in K \ {last} : ~ahead(last, b)
                  /\ K = {last} \/ GetSumOfReplicas(votes, K \ {last}) < target}

\* The clusters among which the target is divided.
Kept(target, votes, base) ==
    IF call.placement.strategy = "Aggregated"
    THEN Aggregate(target, votes, {c \in DOMAIN votes : base[c] > 0})
    ELSE {DOMAIN votes}

dynamicDivideReplicas(target, votes, base) ==
    IF GetSumOfReplicas(votes, DOMAIN votes) < target
    THEN pc' = "failed" /\ UNCHANGED <<clusters, call, todo, left, result, tier, party>>
    ELSE \E K \in Kept(target, votes, base) : Dispense(target, Restrict(votes, K), base)

\* What there is room for counts for the weights, what is there already too.
dynamicFreshScale ==
    /\ pc = "assign" /\ call.placement.strategy \in Dynamic
    /\ call.fresh
    /\ dynamicDivideReplicas(TierReplicas,
                             [c \in Tier |-> Wrap(call.allocatable[c] + clusters[c])],
                             Nothing)

\* Mutant: scaling down by the room there is.
dynamicScaleDownByRoom ==
    /\ pc = "assign" /\ call.placement.strategy \in Dynamic
    /\ ~call.fresh
    /\ assignedReplicas > TierReplicas
    /\ dynamicDivideReplicas(TierReplicas, Restrict(call.available, Tier), Nothing)

dynamicScaleDown ==
    /\ pc = "assign" /\ call.placement.strategy \in Dynamic
    /\ ~call.fresh
    /\ assignedReplicas > TierReplicas
    /\ dynamicDivideReplicas(TierReplicas, Restrict(clusters, Tier), Nothing)

dynamicScaleUp ==
    /\ pc = "assign" /\ call.placement.strategy \in Dynamic
    /\ ~call.fresh
    /\ assignedReplicas < TierReplicas
    /\ dynamicDivideReplicas(Wrap(TierReplicas - assignedReplicas),
                             Restrict(call.allocatable, Tier), scheduledClusters)

unchanged ==
    /\ pc = "assign" /\ call.placement.strategy \in Dynamic
    /\ ~call.fresh
    /\ assignedReplicas = TierReplicas
    /\ Dispense(0, <<>>, scheduledClusters)

\* The clusters some rule matches; if there is none, all of them alike.
getStaticWeightInfoList ==
    LET ruled == {c \in Tier : call.placement.weight[c] > 0}
    IN  IF ruled = {} THEN [c \in Tier |-> 1] ELSE Restrict(call.placement.weight, ruled)

assignByStaticWeightStrategy ==
    /\ pc = "assign" /\ call.placement.strategy = "StaticWeight"
    /\ Dispense(TierReplicas, getStaticWeightInfoList, Nothing)

assignByDuplicatedStrategy ==
    /\ pc = "assign" /\ call.placement.strategy = "Duplicated"
    /\ Dispense(0, <<>>, [c \in Clusters |-> IF c \in Tier THEN TierReplicas ELSE 0])

\* AssignReplicas for a workload of no replicas whose replicaRequirements are nil
\* (whether they are is the choice of this action over the others): it goes to
\* the selected clusters, without replicas.
propagateToAll ==
    /\ pc = "assign" /\ call.replicas = 0
    /\ pc' = "done"
    /\ UNCHANGED <<clusters, call, todo, left, result, tier, party>>

\* AllocateWebsterSeats
DivideTier ==
    /\ pc = "divide"
    /\ AllocateSeat
    /\ UNCHANGED <<clusters, pc, call, todo, left, result, tier>>

\* Mutant: the next tier is not counted against what is left.
FinishTierUncounted ==
    LET seats(c) == IF c \in DOMAIN party.seats THEN party.seats[c] ELSE 0
    IN  /\ pc = "divide" /\ party.left = 0
        /\ result' = [c \in Clusters |-> result[c] + tier.base[c] + seats(c)]
        /\ left' = left
        /\ todo' = todo \ Tier
        /\ pc' = IF ~call.placement.overflow \/ todo' = {} THEN "done" ELSE "assign"
        /\ UNCHANGED <<clusters, call, tier, party>>

\* MergeTargetClusters, removeZeroReplicasCluster and the end of the round over
\* the tiers.  attachZeroReplicasCluster adds the selected clusters that got
\* nothing again, with the 0 replicas they have in result.
FinishTier ==
    LET seats(c) == IF c \in DOMAIN party.seats THEN party.seats[c] ELSE 0
    IN  /\ pc = "divide" /\ party.left = 0
        /\ result' = [c \in Clusters |-> result[c] + tier.base[c] + seats(c)]
        /\ left' = left - tier.share
        /\ todo' = todo \ Tier
        /\ pc' = IF ~call.placement.overflow \/ left' <= 0 THEN "done"
                 ELSE IF todo' = {} THEN "failed" ELSE "assign"
        /\ UNCHANGED <<clusters, call, tier, party>>

\* patchScheduleResultForResourceBinding; the call's own data are forgotten.
NoCall == [replicas |-> 0]

Recorded ==
    /\ pc = "done"
    /\ clusters' = result

\* Only a FitError clears the previous result.
Failed ==
    /\ pc = "failed"
    /\ clusters' = IF call.feasible = {} THEN Nothing ELSE clusters

Return ==
    /\ Recorded \/ Failed
    /\ pc' = "idle"
    /\ call' = NoCall /\ todo' = {} /\ left' = 0 /\ result' = Nothing
    /\ tier' = NoCall /\ party' = NoDivision

Init ==
    /\ clusters = Nothing
    /\ pc = "idle"
    /\ call = NoCall /\ todo = {} /\ left = 0 /\ result = Nothing
    /\ tier = NoCall /\ party = NoDivision

\* The guard of Schedule comes first: it does not depend on what is chosen.
Next ==
    \/ /\ pc = "idle"
       /\ \E placement \in Placements, replicas \in Replicas, fresh \in BOOLEAN,
             feasible \in SUBSET Clusters :
             \E reports \in [Estimators -> [feasible -> Reports]] :
                Schedule(placement, replicas, fresh, feasible,
                         [e \in Estimators |->
                             [c \in Clusters |-> IF c \in feasible THEN reports[e][c]
                                                 ELSE UnauthenticReplica]])
    \/ dynamicFreshScale \/ dynamicScaleDown \/ dynamicScaleUp \/ unchanged
    \/ assignByStaticWeightStrategy \/ assignByDuplicatedStrategy \/ propagateToAll
    \/ DivideTier \/ FinishTier
    \/ Return

Spec == Init /\ [][Next]_vars

-----------------------------------------------------------------------------
(* Properties *)

\* The variables keep their types; a tier is only divided within a call.
TypeOK ==
    /\ clusters \in [Clusters -> Nat]
    /\ pc \in {"idle", "assign", "divide", "failed", "done"}
    /\ IF pc = "idle" THEN call = NoCall ELSE call \in Arguments
    /\ todo \in SUBSET Clusters
    /\ left \in Nat
    /\ result \in [Clusters -> Nat]
    /\ IsDivision(party)
    /\ pc = "divide" => tier \in [base : [Clusters -> Nat], share : Nat]

Succeeded(strategies) == pc = "done" /\ call.placement.strategy \in strategies

Used == {c \in Clusters : result[c] > 0}

\* A division gives out every replica of the workload, no more and no less, and
\* only to clusters that passed the filters, whatever the tiers, the weights and
\* the previous result (assignWorkloadReplicas).
ExactlyDivided ==
    Succeeded(Strategies \ {"Duplicated"}) =>
        Sum(result, Clusters) = call.replicas /\ Used \subseteq call.feasible

\* A dynamic division never gives a cluster more than it holds already and its
\* estimators have room for, though the Webster method knows of no limit but the
\* weights (dynamicDivideReplicas).
WithinCapacity ==
    Succeeded(Dynamic) => \A c \in Used : result[c] <= call.available[c]

\* Unless a reschedule is asked for, a dynamic division only adds replicas when
\* there are too few and only takes away when there are too many: no replica
\* moves from one cluster to another ("minimal adjustments", assignmentMode Steady).
Undisturbed ==
    Succeeded(Dynamic) /\ ~call.fresh /\ ~call.placement.overflow =>
        LET kept == {c \in SelectBestClusters(call) : clusters[c] > 0}
        IN  \/ \A c \in kept : result[c] >= clusters[c]
            \/ \A c \in Clusters : result[c] <= clusters[c]

\* Overflow tiers fill in order and empty in reverse: a tier has replicas only
\* when every selected cluster of the tiers before it is full.
TiersInOrder ==
    pc = "done" /\ call.placement.overflow =>
        \A c \in Used, d \in SelectBestClusters(call) :
            call.placement.tier[d] < call.placement.tier[c] =>
                result[d] = call.available[d]

\* An aggregated division uses as few clusters as it can: when it is fresh or no
\* selected cluster has replicas yet, no smaller set of the selected ones has
\* room; otherwise a cluster without replicas gets some only when those that have
\* replicas cannot take the extra ones.
FewestClusters ==
    Succeeded({"Aggregated"}) /\ ~call.placement.overflow =>
        LET S     == SelectBestClusters(call)
            prior == {c \in S : clusters[c] > 0}
            extra == call.replicas - Sum(clusters, S)
        IN  IF call.fresh \/ prior = {}
            THEN \A K \in SUBSET S : Sum(call.available, K) >= call.replicas
                                        => Cardinality(Used) <= Cardinality(K)
            ELSE Used \ prior # {} => Sum(call.allocatable, prior) < extra

\* A workload with replicas is refused only for one of these reasons: no cluster
\* passed the filters; the spread constraint asks for more clusters than there
\* are, or leaves MaxGroups out (selectBestClustersByCluster takes that for 0
\* clusters); or no choice of as many clusters as it allows has room for the
\* replicas, which does not matter to a workload that is duplicated or divided by
\* static weights alone.  In particular clusters that were selected are never
\* found too small afterwards.
PlacedWhenPossible ==
    pc = "failed" /\ call.replicas > 0 =>
        LET n == IF Spread(call) THEN needCnt(call) ELSE Cardinality(call.feasible)
        IN  \/ call.feasible = {}
            \/ Spread(call) /\ Cardinality(call.feasible) < call.placement.minGroups
            \/ Spread(call) /\ call.placement.maxGroups = 0
            \/ /\ \/ call.placement.strategy \in Dynamic
                  \/ call.placement.strategy = "StaticWeight" /\ Spread(call)
               /\ \A K \in SUBSET call.feasible :
                     Cardinality(K) = n => Sum(call.available, K) < call.replicas

\* As PlacedWhenPossible, and a constraint without MaxGroups refuses nothing.
UnlimitedIsPlaced ==
    (pc = "failed" /\ call.replicas > 0 /\ call.placement.spread
        /\ call.placement.maxGroups = 0) =>
        \/ Cardinality(call.feasible) < Max({1, call.placement.minGroups})
        \/ Sum(call.available, call.feasible) < call.replicas

\* As PlacedWhenPossible, for workloads scaled to zero too.
ZeroIsPlaced ==
    pc = "failed" /\ call.replicas = 0 /\ ~Spread(call) => call.feasible = {}
=============================================================================
