--------------------------- MODULE MCSchedulingQueue ---------------------------
(***************************************************************************)
(* Instances of SchedulingQueue for TLC.                                   *)
(***************************************************************************)
EXTENDS SchedulingQueue, TLC

CONSTANTS b1, b2, w1, w2

Symmetry == Permutations({b1, b2}) \cup Permutations({w1, w2})
=============================================================================
