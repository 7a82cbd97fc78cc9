---------------------------- MODULE MCPolicyClaim ----------------------------
(***************************************************************************)
(* Instances of PolicyClaim for TLC: what users write into policies.       *)
(***************************************************************************)
EXTENDS PolicyClaim

Written(match, kind, priority) == [match |-> match, kind |-> kind, priority |-> priority]

\* The first policy selects templates of another kind, or this one with a priority
\* below or above that of the second.
Competing ==
    [p \in Policies |->
        IF p = 1 THEN {Written(0, FALSE, 0), Written(1, TRUE, 0), Written(1, TRUE, 2)}
        ELSE {Written(1, TRUE, 1)}]

\* Either policy may also select other templates of the kind.
Anything ==
    [p \in Policies |-> {Written(0, FALSE, 0), Written(0, TRUE, 0), Written(1, TRUE, 0),
                         Written(1, TRUE, 1)}]

\* The least it takes for each of the findings.
OtherKind == [p \in Policies |-> {Written(1, TRUE, 0), Written(0, FALSE, 0)}]
Priorities == [p \in Policies |-> {Written(1, TRUE, 0), Written(1, TRUE, 1)}]
=============================================================================
