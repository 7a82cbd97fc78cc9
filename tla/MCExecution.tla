----------------------------- MODULE MCExecution -----------------------------
(***************************************************************************)
(* Instances of Execution for TLC: what the outside may do in each.        *)
(***************************************************************************)
EXTENDS Execution, TLC

CONSTANTS m1, m2

\* Manifests are only compared.
Alike == Permutations({m1, m2})

None == [k \in Kinds |-> 0]

\* Updates of the Work, edits, deletions and foreign objects in the member,
\* against a controller that restarts and whose calls fail.
Shared == {[None EXCEPT !["update"] = 2, !["edit"] = 1],
           [None EXCEPT !["update"] = 1, !["delete"] = 2, !["foreign"] = 1],
           [None EXCEPT !["update"] = 1, !["edit"] = 1, !["restart"] = 1],
           [None EXCEPT !["delete"] = 1, !["foreign"] = 1, !["restart"] = 1],
           [None EXCEPT !["update"] = 1, !["edit"] = 1, !["delete"] = 1,
                        !["foreign"] = 1, !["fail"] = 1],
           [None EXCEPT !["remove"] = 1, !["edit"] = 1, !["foreign"] = 1,
                        !["restart"] = 1, !["fail"] = 1]}

\* A Work is removed while its object changes, or stays while the status of the
\* object changes back and forth.
Removed == {[None EXCEPT !["remove"] = 1, !["restart"] = 1, !["fail"] = 1, !["unready"] = 1],
            [None EXCEPT !["remove"] = 1, !["restart"] = 1, !["health"] = 1],
            [None EXCEPT !["remove"] = 1, !["delete"] = 1],
            [None EXCEPT !["health"] = 2, !["restart"] = 1],
            [None EXCEPT !["health"] = 2, !["delete"] = 1]}

\* The least it takes for each of the findings.
OneUpdate   == {[None EXCEPT !["update"] = 1]}
OneEdit     == {[None EXCEPT !["edit"] = 1]}
OneDeletion == {[None EXCEPT !["delete"] = 1]}
OneForeign  == {[None EXCEPT !["foreign"] = 1]}
OneRemoval  == {[None EXCEPT !["remove"] = 1]}
Replaced    == {[None EXCEPT !["remove"] = 1, !["delete"] = 1, !["foreign"] = 1]}
Flapping    == {[None EXCEPT !["health"] = 2]}
Reported    == {[None EXCEPT !["remove"] = 1, !["health"] = 1]}
=============================================================================
