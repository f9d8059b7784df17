-------------------------------- MODULE Lock --------------------------------
(***************************************************************************)
(* What a spinlock_t promises, and how the other modules use it: at most   *)
(* one CPU owns the lock, and what the owner did to the protected data is  *)
(* what the next owner finds.  The data is a counter that every critical   *)
(* section increments.                                                     *)
(***************************************************************************)
EXTENDS Naturals

CONSTANTS Cpus, Nobody

VARIABLES
  owner,   \* Nobody, or the CPU between spin_lock and spin_unlock
  data     \* the protected data

lockVars == <<owner, data>>

LInit == owner = Nobody /\ data = 0

Acquire(c) ==
  /\ owner = Nobody
  /\ owner' = c
  /\ UNCHANGED data

Release(c) ==
  /\ owner = c
  /\ owner' = Nobody
  /\ data' = data + 1

LNext == \E c \in Cpus : Acquire(c) \/ Release(c)

LSpec == LInit /\ [][LNext]_lockVars
=============================================================================
