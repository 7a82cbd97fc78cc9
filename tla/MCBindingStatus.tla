-------------------------- MODULE MCBindingStatus --------------------------
(***************************************************************************)
(* BindingStatus for TLC.  Clusters are interchangeable.                   *)
(***************************************************************************)
EXTENDS BindingStatus

CONSTANTS c1, c2
=============================================================================
