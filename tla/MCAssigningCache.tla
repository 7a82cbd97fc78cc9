-------------------------- MODULE MCAssigningCache --------------------------
(***************************************************************************)
(* AssigningCache for TLC.  Bindings and clusters are interchangeable.     *)
(***************************************************************************)
EXTENDS AssigningCache, TLC

CONSTANTS b1, b2, c1, c2

Symmetry == Permutations(Bindings) \cup Permutations(Clusters)
=============================================================================
