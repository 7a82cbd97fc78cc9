---------------------------- MODULE MCPropagation ----------------------------
(***************************************************************************)
(* Instances of Propagation for TLC.                                       *)
(***************************************************************************)
EXTENDS Propagation

CONSTANTS c1, c2, t1, t2

\* A binding that needs this one may be in the first cluster.
OneDependent == {{}, {c1}}
=============================================================================
