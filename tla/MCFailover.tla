------------------------------ MODULE MCFailover ------------------------------
(***************************************************************************)
(* Instances of Failover for TLC.                                          *)
(***************************************************************************)
EXTENDS Failover

CONSTANTS c1, c2

Anywhere == {{c1, c2}}
Grows    == {{c1}, {c1, c2}}
Moves    == {{c1}, {c2}}
=============================================================================
