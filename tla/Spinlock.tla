------------------------------ MODULE Spinlock ------------------------------
(***************************************************************************)
(* The spinlock of the three architectures: spin_lock is a load-exclusive  *)
(* / store-exclusive loop (ldaxr/stxr, ldaex/strex, lr.w.aq/sc.w.rl),      *)
(* spin_unlock a store of zero.  On Arm it is a store-release, visible     *)
(* after the stores of the critical section; on RISC-V a plain store       *)
(* followed by a fence, which may become visible before them.              *)
(*                                                                         *)
(* Every CPU takes the lock, increments a shared counter and releases the  *)
(* lock.  Its store to the counter waits in a store buffer of its own      *)
(* until it reaches memory.                                                *)
(***************************************************************************)
EXTENDS Naturals

CONSTANTS
  Cpus,
  Nobody,     \* not a CPU
  Empty,      \* an empty store buffer, not a number
  Unlocks,    \* the spin_unlocks: "release" (Arm), "store_fence" (RISC-V)
  MaxRounds   \* bound: critical sections in all

ASSUME SpinlockAssumption ==
  /\ Nobody \notin Cpus
  /\ Empty \notin Nat
  /\ Unlocks \subseteq {"release", "store_fence"}
  /\ MaxRounds \in Nat

VARIABLES
  unlock,     \* the spin_unlock of this build
  lock,       \* the lock word
  reserved,   \* CPUs whose exclusive monitor is set
  counter,    \* the shared counter in memory
  buffer,     \* per CPU, the store to the counter not yet in memory
  reg,        \* per CPU, the value loaded
  pc,         \* per CPU, the next instruction
  done        \* history: critical sections ended

vars == <<unlock, lock, reserved, counter, buffer, reg, pc, done>>

Init ==
  /\ unlock \in Unlocks
  /\ lock = 0          \* SPINLOCK_INITVAL
  /\ reserved = {}
  /\ counter = 0
  /\ buffer = [c \in Cpus |-> Empty]
  /\ reg = [c \in Cpus |-> 0]
  /\ pc = [c \in Cpus |-> "load"]
  /\ done = 0

-----------------------------------------------------------------------------
LoadAnyway(c) ==
  /\ pc[c] = "load"
  /\ reserved' = reserved \cup {c}
  /\ pc' = [pc EXCEPT ![c] = "store"]
  /\ UNCHANGED <<unlock, lock, counter, buffer, reg, done>>

(* spin_lock: the load-exclusive finds the lock free; otherwise it loops.  *)
LoadExclusive(c) ==
  /\ pc[c] = "load"
  /\ lock = 0
  /\ reserved' = reserved \cup {c}
  /\ pc' = [pc EXCEPT ![c] = "store"]
  /\ UNCHANGED <<unlock, lock, counter, buffer, reg, done>>

StoreUnconditional(c) ==
  /\ pc[c] = "store"
  /\ lock' = 1
  /\ reserved' = {}
  /\ pc' = [pc EXCEPT ![c] = "read"]
  /\ UNCHANGED <<unlock, counter, buffer, reg, done>>

(* The store-exclusive succeeds while the monitor is set, and clears the   *)
(* monitors of all CPUs on the lock word ...                               *)
StoreExclusive(c) ==
  /\ pc[c] = "store"
  /\ c \in reserved
  /\ lock' = 1
  /\ reserved' = {}
  /\ pc' = [pc EXCEPT ![c] = "read"]
  /\ UNCHANGED <<unlock, counter, buffer, reg, done>>

(* ... or fails, for a cleared monitor or for no visible reason.           *)
StoreFails(c) ==
  /\ pc[c] = "store"
  /\ reserved' = reserved \ {c}
  /\ pc' = [pc EXCEPT ![c] = "load"]
  /\ UNCHANGED <<unlock, lock, counter, buffer, reg, done>>

(* The critical section: load, increment, store.                           *)
Read(c) ==
  /\ pc[c] = "read"
  /\ reg' = [reg EXCEPT ![c] = counter]
  /\ pc' = [pc EXCEPT ![c] = "write"]
  /\ UNCHANGED <<unlock, lock, reserved, counter, buffer, done>>

Write(c) ==
  /\ pc[c] = "write"
  /\ buffer' = [buffer EXCEPT ![c] = reg[c] + 1]
  /\ pc' = [pc EXCEPT ![c] = "unlock"]
  /\ UNCHANGED <<unlock, lock, reserved, counter, reg, done>>

(* The store reaches memory.                                               *)
Drain(c) ==
  /\ buffer[c] # Empty
  /\ counter' = buffer[c]
  /\ buffer' = [buffer EXCEPT ![c] = Empty]
  /\ UNCHANGED <<unlock, lock, reserved, reg, pc, done>>

UnlockEarly(c) ==
  /\ pc[c] = "unlock"
  /\ done < MaxRounds
  /\ lock' = 0
  /\ reserved' = {}
  /\ done' = done + 1
  /\ pc' = [pc EXCEPT ![c] = "load"]
  /\ UNCHANGED <<unlock, counter, buffer, reg>>

UnlockForgotten(c) ==
  /\ pc[c] = "unlock"
  /\ done < MaxRounds
  /\ done' = done + 1
  /\ pc' = [pc EXCEPT ![c] = "load"]
  /\ UNCHANGED <<unlock, lock, reserved, counter, buffer, reg>>

(* spin_unlock.                                                            *)
SpinUnlock(c) ==
  /\ pc[c] = "unlock"
  /\ done < MaxRounds
  /\ unlock = "release" => buffer[c] = Empty
  /\ lock' = 0
  /\ reserved' = {}
  /\ done' = done + 1
  /\ pc' = [pc EXCEPT ![c] = IF unlock = "release" THEN "load" ELSE "fence"]
  /\ UNCHANGED <<unlock, counter, buffer, reg>>

(* fence rw, rw: the CPU goes on when its stores are visible.              *)
Fence(c) ==
  /\ pc[c] = "fence"
  /\ buffer[c] = Empty
  /\ pc' = [pc EXCEPT ![c] = "load"]
  /\ UNCHANGED <<unlock, lock, reserved, counter, buffer, reg, done>>

Step(c) ==
  \/ LoadExclusive(c) \/ StoreExclusive(c) \/ StoreFails(c)
  \/ Read(c) \/ Write(c) \/ Drain(c) \/ SpinUnlock(c) \/ Fence(c)

Next == \E c \in Cpus : Step(c)

Spec == Init /\ [][Next]_vars

(***************************************************************************)
(* Fairness: CPUs run and stores drain; a store-exclusive tried again and  *)
(* again with its monitor set succeeds at last on some CPU.  No CPU is     *)
(* promised that it is the one.                                            *)
(***************************************************************************)
Fairness ==
  /\ \A c \in Cpus : WF_vars(Step(c)) /\ WF_vars(Drain(c))
  /\ SF_vars(\E c \in Cpus : StoreExclusive(c))

FairSpec == Spec /\ Fairness

-----------------------------------------------------------------------------
Holding(c) == pc[c] \in {"read", "write", "unlock"}

(* The lock word is zero or one and every other field has its type.        *)
TypeOK ==
  /\ unlock \in Unlocks
  /\ lock \in {0, 1}
  /\ reserved \subseteq Cpus
  /\ counter \in Nat
  /\ buffer \in [Cpus -> Nat \cup {Empty}]
  /\ reg \in [Cpus -> Nat]
  /\ pc \in [Cpus -> {"load", "store", "read", "write", "unlock", "fence"}]
  /\ done \in Nat

(* At most one CPU is between spin_lock and spin_unlock, whichever order   *)
(* the exclusives of several CPUs interleave in.                           *)
MutualExclusion == \A c, d \in Cpus : Holding(c) /\ Holding(d) => c = d

(* No critical section is lost: with a store-release every CPU that finds  *)
(* the lock free also finds the counter its predecessors left.  A plain    *)
(* store before the fence does not give that.                              *)
NoLostUpdate == unlock = "release" /\ lock = 0 => counter = done

Owner == IF \E c \in Cpus : Holding(c) THEN CHOOSE c \in Cpus : Holding(c) ELSE Nobody

(* While the lock is free its data is what memory holds, while it is owned *)
(* what the owner found.  Without the store-release memory lags behind,    *)
(* and only the order of the critical sections is left.                    *)
Data == IF unlock = "release" /\ lock = 0 THEN counter ELSE done

Abstract == INSTANCE Lock WITH owner <- Owner, data <- Data

(* spin_lock and spin_unlock implement Lock: an acquire and a release are  *)
(* each one atomic step, and a store-release publishes the data.           *)
ImplementsLock == Abstract!LSpec

(* Somebody always gets the lock: critical sections keep ending.           *)
Progress == \A n \in 0 .. MaxRounds - 1 : done = n ~> done = n + 1
=============================================================================
