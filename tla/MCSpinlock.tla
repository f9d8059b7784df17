----------------------------- MODULE MCSpinlock -----------------------------
(* Model values for Spinlock.                                              *)
EXTENDS Spinlock

CONSTANTS c1, c2, c3
=============================================================================
