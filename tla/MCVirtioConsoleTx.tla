-------------------------- MODULE MCVirtioConsoleTx --------------------------
(* Model values for VirtioConsoleTx.                                       *)
EXTENDS VirtioConsoleTx

CONSTANTS c1, c2, k1, k2
=============================================================================
