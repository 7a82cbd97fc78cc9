-------------------------- MODULE MCReplicaDivision --------------------------
(***************************************************************************)
(* Instances of ReplicaDivision for TLC: the placements.                   *)
(***************************************************************************)
EXTENDS ReplicaDivision

Plain ==
    [strategy |-> "DynamicWeight", weight |-> Nothing, emptyPreference |-> FALSE,
     overflow |-> FALSE, tier |-> Nothing,
     spread |-> FALSE, minGroups |-> 0, maxGroups |-> 0]

\* The first cluster is primary, the others take what it has no room for.
Overflowing(p) == [p EXCEPT !.overflow = TRUE, !.tier = [c \in Clusters |-> IF c = 1 THEN 0 ELSE 1]]

Spreading(p) == [p EXCEPT !.spread = TRUE, !.minGroups = 2, !.maxGroups = 2]

\* A spread constraint that leaves MaxGroups out.
Unlimited(p) == [p EXCEPT !.spread = TRUE, !.minGroups = 1]

Aggregating(p) == [p EXCEPT !.strategy = "Aggregated"]

FewReports == {UnauthenticReplica, 0, 1, 3}

Several ==
    {Plain, Aggregating(Plain),
     Overflowing(Plain), Overflowing(Aggregating(Plain)),
     Spreading(Plain), Spreading(Overflowing(Plain)),
     [Plain EXCEPT !.strategy = "StaticWeight"],
     [Plain EXCEPT !.strategy = "StaticWeight", !.weight = [c \in Clusters |-> c - 1]],
     [Spreading(Plain) EXCEPT !.strategy = "StaticWeight", !.emptyPreference = TRUE],
     [Spreading(Plain) EXCEPT !.strategy = "Duplicated"],
     Unlimited(Plain), [Unlimited(Plain) EXCEPT !.strategy = "Duplicated"]}

\* The hypothesis of the theorems about ReplicaDivision.
ASSUME InstanceFits == FitsInt32
=============================================================================
