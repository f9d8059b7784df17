----------------------------- MODULE LockProofs -----------------------------
(***************************************************************************)
(* Spinlock, for any number of CPUs and critical sections, and the GIC     *)
(* drivers that use it, for any number of CPUs, interrupts and calls.      *)
(*                                                                         *)
(* Mutual exclusion rests on two facts: a set monitor means that the lock  *)
(* word is zero, because every store to the word clears the monitors, and  *)
(* the word is not zero while a CPU holds the lock.  That no update is     *)
(* lost needs the store-release: the store of a critical section has       *)
(* drained when the word becomes zero.                                     *)
(*                                                                         *)
(* The GIC drivers lose no update of a field because the copy of the       *)
(* register that a CPU has loaded is as good as the register until the     *)
(* store (LoadedOK): a CPU past spin_lock holds the lock of the bank       *)
(* (LocksOK), and the code without a lock, the loops of gicd_init, only    *)
(* takes back what was asked.  What the loops fill stays filled when they  *)
(* run before any other CPU is up (EarlyOK).                               *)
(***************************************************************************)
EXTENDS Spinlock, Gic, Functions, FiniteSetTheorems, SequenceTheorems, TLAPS

MonitorsOK == \A c \in reserved : lock = 0 /\ pc[c] = "store"

WordOK == lock = 0 => \A c \in Cpus : ~Holding(c)

MutexInv == TypeOK /\ MutualExclusion /\ MonitorsOK /\ WordOK

-----------------------------------------------------------------------------
(* SPINLOCK_INITVAL and idle CPUs satisfy the invariant.                   *)
LEMMA InitMutex == Init => MutexInv
  BY SpinlockAssumption DEF Init, MutexInv, TypeOK, MutualExclusion, MonitorsOK, WordOK, Holding

(* A load-exclusive, a failed store-exclusive and the steps outside the    *)
(* lock word keep the set of holders.                                      *)
LEMMA OtherSteps ==
  ASSUME MutexInv, NEW c \in Cpus,
         \/ LoadExclusive(c) \/ StoreFails(c) \/ Read(c) \/ Write(c)
         \/ Drain(c) \/ Fence(c)
  PROVE  MutexInv'
<1> USE DEF MutexInv, TypeOK, MutualExclusion, MonitorsOK, WordOK, Holding
<1>1. CASE LoadExclusive(c)
  BY <1>1 DEF LoadExclusive
<1>2. CASE StoreFails(c)
  BY <1>2 DEF StoreFails
<1>3. CASE Read(c)
  BY <1>3 DEF Read
<1>4. CASE Write(c)
  BY <1>4 DEF Write
<1>5. CASE Drain(c)
  BY <1>5 DEF Drain
<1>6. CASE Fence(c)
  BY <1>6 DEF Fence
<1> QED
  BY <1>1, <1>2, <1>3, <1>4, <1>5, <1>6

(* A successful store-exclusive finds no holder.                           *)
LEMMA AcquireStep ==
  ASSUME MutexInv, NEW c \in Cpus, StoreExclusive(c)
  PROVE  MutexInv'
  BY DEF StoreExclusive, MutexInv, TypeOK, MutualExclusion, MonitorsOK, WordOK, Holding

(* spin_unlock leaves no holder.                                           *)
LEMMA ReleaseStep ==
  ASSUME MutexInv, NEW c \in Cpus, SpinUnlock(c)
  PROVE  MutexInv'
<1>1. TypeOK'
  BY DEF SpinUnlock, MutexInv, TypeOK
<1>2. \A d \in Cpus : ~Holding(d)'
  BY DEF SpinUnlock, MutexInv, TypeOK, MutualExclusion, Holding
<1>3. MonitorsOK'
  BY DEF SpinUnlock, MonitorsOK
<1> QED
  BY <1>1, <1>2, <1>3 DEF MutexInv, MutualExclusion, WordOK

(* Every step keeps the invariant.                                         *)
LEMMA NextMutex == MutexInv /\ [Next]_vars => MutexInv'
<1> SUFFICES ASSUME MutexInv, [Next]_vars PROVE MutexInv'
  OBVIOUS
<1>1. CASE Next
  BY <1>1, OtherSteps, AcquireStep, ReleaseStep DEF Next, Step
<1>2. CASE UNCHANGED vars
  BY <1>2 DEF vars, MutexInv, TypeOK, MutualExclusion, MonitorsOK, WordOK, Holding
<1> QED
  BY <1>1, <1>2

(* The inductive invariant holds in every reachable state.                 *)
THEOREM MutexInvariance == Spec => []MutexInv
  BY InitMutex, NextMutex, PTL DEF Spec

(* spin_lock excludes: never two CPUs in the critical section, with either *)
(* spin_unlock.                                                            *)
THEOREM Excludes == Spec => []MutualExclusion
<1>1. MutexInv => MutualExclusion
  BY DEF MutexInv
<1> QED
  BY <1>1, MutexInvariance, PTL

(* The fields of the lock model keep their types.                          *)
THEOREM TypeCorrect == Spec => []TypeOK
<1>1. MutexInv => TypeOK
  BY DEF MutexInv
<1> QED
  BY <1>1, MutexInvariance, PTL

-----------------------------------------------------------------------------
(* Where the counter stands while CPU c runs: outside the critical section *)
(* nothing of its waits in the buffer; inside, memory holds what the last  *)
(* owner left until its own store drains.                                  *)
CpuData(c) ==
  /\ pc[c] # "fence"
  /\ pc[c] # "unlock" => buffer[c] = Empty
  /\ pc[c] = "read" => counter = done
  /\ pc[c] = "write" => counter = done /\ reg[c] = done
  /\ pc[c] = "unlock" => \/ buffer[c] = done + 1 /\ counter = done
                         \/ buffer[c] = Empty /\ counter = done + 1

DataInv == MutexInv /\ (unlock = "release" => \A c \in Cpus : CpuData(c)) /\ NoLostUpdate

(* The initial counter is the number of ended critical sections.           *)
LEMMA InitData == Init => DataInv
  BY InitMutex, SpinlockAssumption DEF Init, DataInv, NoLostUpdate, CpuData

(* With a store-release every step keeps it.                               *)
LEMMA StepData ==
  ASSUME unlock = "release", DataInv, NEW c \in Cpus, Step(c)
  PROVE  DataInv'
<1>1. MutexInv'
  BY NextMutex DEF DataInv, Next
<1> USE DEF DataInv, MutexInv, TypeOK, NoLostUpdate, CpuData
<1>2. CASE LoadExclusive(c)
  BY <1>1, <1>2 DEF LoadExclusive
<1>3. CASE StoreExclusive(c)
  <2>1. lock = 0 /\ counter = done
    BY <1>3 DEF StoreExclusive, MonitorsOK
  <2>2. \A d \in Cpus : CpuData(d)'
    BY <1>3, <2>1 DEF StoreExclusive
  <2> QED
    BY <1>1, <1>3, <2>2 DEF StoreExclusive
<1>4. CASE StoreFails(c)
  BY <1>1, <1>4 DEF StoreFails
<1>5. CASE Read(c)
  <2>1. \A d \in Cpus : CpuData(d)'
    BY <1>5 DEF Read
  <2> QED
    BY <1>1, <1>5, <2>1 DEF Read
<1>6. CASE Write(c)
  <2>1. \A d \in Cpus : CpuData(d)'
    BY <1>6, SpinlockAssumption DEF Write
  <2> QED
    BY <1>1, <1>6, <2>1 DEF Write
<1>7. CASE Drain(c)
  <2>1. pc[c] = "unlock" /\ buffer[c] = done + 1 /\ lock = 1
    BY <1>7 DEF Drain, WordOK, Holding
  <2>2. \A d \in Cpus : d # c => ~Holding(d)
    BY <2>1 DEF MutualExclusion, Holding
  <2>3. \A d \in Cpus : CpuData(d)'
    BY <1>7, <2>1, <2>2 DEF Drain, Holding
  <2> QED
    BY <1>1, <1>7, <2>1, <2>3 DEF Drain
<1>8. CASE SpinUnlock(c)
  <2>1. counter = done + 1 /\ buffer[c] = Empty
    BY <1>8, SpinlockAssumption DEF SpinUnlock
  <2>2. \A d \in Cpus : d # c => ~Holding(d)
    BY <1>8 DEF SpinUnlock, MutualExclusion, Holding
  <2>3. \A d \in Cpus : CpuData(d)'
    BY <1>8, <2>1, <2>2 DEF SpinUnlock, Holding
  <2> QED
    BY <1>1, <1>8, <2>1, <2>3 DEF SpinUnlock
<1>9. CASE Fence(c)
  BY <1>9 DEF Fence
<1> QED
  BY <1>2, <1>3, <1>4, <1>5, <1>6, <1>7, <1>8, <1>9 DEF Step

(* The build does not change while it runs.                                *)
LEMMA BuildConstant == [Next]_vars => unlock' = unlock
  BY DEF Next, Step, vars, LoadExclusive, StoreExclusive, StoreFails, Read,
         Write, Drain, SpinUnlock, Fence

(* Every step keeps the data invariant: with the other spin_unlock it says *)
(* nothing but MutexInv.                                                   *)
LEMMA NextData == DataInv /\ [Next]_vars => DataInv'
<1> SUFFICES ASSUME DataInv, [Next]_vars PROVE DataInv'
  OBVIOUS
<1>1. CASE Next /\ unlock = "release"
  BY <1>1, StepData DEF Next
<1>3. CASE unlock # "release"
  <2>1. MutexInv' /\ unlock' # "release"
    BY <1>3, NextMutex, BuildConstant DEF DataInv
  <2> QED
    BY <2>1 DEF DataInv, NoLostUpdate
<1>2. CASE UNCHANGED vars
  <2>1. MutexInv'
    BY <1>2, NextMutex DEF DataInv
  <2> QED
    BY <1>2, <2>1 DEF vars, DataInv, NoLostUpdate, CpuData
<1> QED
  BY <1>1, <1>2, <1>3

(* With the store-release of the Arm spin_unlock a CPU that finds the lock *)
(* free finds the data its predecessor left in the critical section.       *)
THEOREM KeepsUpdates == Spec => []NoLostUpdate
<1>1. DataInv => NoLostUpdate
  BY DEF DataInv
<1> QED
  BY <1>1, InitData, NextData, PTL DEF Spec

-----------------------------------------------------------------------------
(* The owner of the refinement is the CPU that holds the lock ...          *)
LEMMA OwnerHolds ==
  ASSUME MutualExclusion, NEW c \in Cpus, Holding(c)
  PROVE  Owner = c
<1>1. \A d \in Cpus : Holding(d) => d = c
  BY DEF MutualExclusion
<1> QED
  BY <1>1 DEF Owner

(* ... and nobody when no CPU does.                                        *)
LEMMA OwnerNobody ==
  ASSUME \A c \in Cpus : ~Holding(c)
  PROVE  Owner = Nobody
  BY DEF Owner

(* The same two facts about the next state.                                *)
LEMMA OwnerHoldsNext ==
  ASSUME MutualExclusion', NEW c \in Cpus, Holding(c)'
  PROVE  Owner' = c
<1>1. \A d \in Cpus : Holding(d)' => d = c
  BY DEF MutualExclusion
<1> QED
  BY <1>1 DEF Owner

LEMMA OwnerNobodyNext ==
  ASSUME \A c \in Cpus : ~Holding(c)'
  PROVE  Owner' = Nobody
  BY DEF Owner

(* SPINLOCK_INITVAL is a lock that nobody owns.                            *)
LEMMA InitLock == Init => Abstract!LInit
<1> SUFFICES ASSUME Init PROVE Abstract!LInit
  OBVIOUS
<1>1. \A c \in Cpus : ~Holding(c)
  BY DEF Init, Holding
<1>2. Owner = Nobody
  BY <1>1, OwnerNobody
<1>3. Data = 0
  BY DEF Init, Data
<1> QED
  BY <1>2, <1>3 DEF Abstract!LInit

(* A step that changes no program counter in or out of the critical        *)
(* section and neither the word nor the data leaves the lock as it is.     *)
LEMMA QuietStep ==
  ASSUME DataInv, DataInv', \A c \in Cpus : Holding(c)' <=> Holding(c), Data' = Data
  PROVE  UNCHANGED Abstract!lockVars
<1> USE DEF DataInv, MutexInv
<1>1. CASE \E c \in Cpus : Holding(c)
  <2>1. PICK c \in Cpus : Holding(c)
    BY <1>1
  <2>2. Owner = c /\ Owner' = c
    BY <2>1, OwnerHolds, OwnerHoldsNext
  <2> QED
    BY <2>2 DEF Abstract!lockVars
<1>2. CASE \A c \in Cpus : ~Holding(c)
  <2>1. Owner = Nobody /\ Owner' = Nobody
    BY <1>2, OwnerNobody, OwnerNobodyNext
  <2> QED
    BY <2>1 DEF Abstract!lockVars
<1> QED
  BY <1>1, <1>2

(* A successful store-exclusive acquires.                                  *)
LEMMA AcquireImplemented ==
  ASSUME DataInv, DataInv', NEW c \in Cpus, StoreExclusive(c)
  PROVE  Abstract!Acquire(c)
<1> USE DEF DataInv, MutexInv
<1>1. lock = 0
  BY DEF StoreExclusive, MonitorsOK
<1>2. Owner = Nobody
  BY <1>1, OwnerNobody DEF WordOK
<1>3. Holding(c)'
  BY DEF StoreExclusive, Holding, TypeOK
<1>4. Owner' = c
  BY <1>3, OwnerHoldsNext
<1>5. Data' = Data
  BY <1>1 DEF StoreExclusive, Data, NoLostUpdate
<1> QED
  BY <1>2, <1>4, <1>5 DEF Abstract!Acquire

(* spin_unlock releases, and publishes the data.                           *)
LEMMA ReleaseImplemented ==
  ASSUME DataInv, DataInv', NEW c \in Cpus, SpinUnlock(c)
  PROVE  Abstract!Release(c)
<1> USE DEF DataInv, MutexInv
<1>1. Holding(c) /\ lock = 1
  BY DEF SpinUnlock, WordOK, Holding, TypeOK
<1>2. Owner = c
  BY <1>1, OwnerHolds
<1>3. \A d \in Cpus : ~Holding(d)'
  BY <1>1 DEF SpinUnlock, MutualExclusion, Holding, TypeOK
<1>4. Owner' = Nobody
  BY <1>3, OwnerNobodyNext
<1>5. Data = done
  BY <1>1 DEF Data
<1>6. Data' = done + 1
  BY DEF SpinUnlock, Data, NoLostUpdate
<1> QED
  BY <1>2, <1>4, <1>5, <1>6 DEF Abstract!Release

(* Every step of the exclusives is a step of the lock or none.             *)
LEMMA NextLock ==
  ASSUME DataInv, DataInv', [Next]_vars
  PROVE  [Abstract!LNext]_(Abstract!lockVars)
<1>1. CASE UNCHANGED vars
  <2>1. (\A c \in Cpus : Holding(c)' <=> Holding(c)) /\ Data' = Data
    BY <1>1 DEF vars, Holding, Data
  <2> QED
    BY <2>1, QuietStep
<1>2. ASSUME NEW c \in Cpus, StoreExclusive(c)
      PROVE  Abstract!LNext
  BY <1>2, AcquireImplemented DEF Abstract!LNext
<1>3. ASSUME NEW c \in Cpus, SpinUnlock(c)
      PROVE  Abstract!LNext
  BY <1>3, ReleaseImplemented DEF Abstract!LNext
<1>4. ASSUME NEW c \in Cpus,
             LoadExclusive(c) \/ StoreFails(c) \/ Read(c) \/ Write(c) \/ Fence(c)
      PROVE  UNCHANGED Abstract!lockVars
  <2>1. \A d \in Cpus : Holding(d)' <=> Holding(d)
    BY <1>4 DEF LoadExclusive, StoreFails, Read, Write, Fence, Holding,
                DataInv, MutexInv, TypeOK
  <2>2. Data' = Data
    BY <1>4 DEF LoadExclusive, StoreFails, Read, Write, Fence, Data
  <2> QED
    BY <2>1, <2>2, QuietStep
<1>5. ASSUME NEW c \in Cpus, Drain(c)
      PROVE  UNCHANGED Abstract!lockVars
  <2>1. \A d \in Cpus : Holding(d)' <=> Holding(d)
    BY <1>5 DEF Drain, Holding
  <2>2. Data' = Data
    BY <1>5 DEF Drain, Data, DataInv, NoLostUpdate
  <2> QED
    BY <2>1, <2>2, QuietStep
<1> QED
  BY <1>1, <1>2, <1>3, <1>4, <1>5 DEF Next, Step

(* The exclusive-monitor spinlock implements the atomic lock that the      *)
(* other modules use, for any number of CPUs: spin_lock and spin_unlock    *)
(* are each one step that nobody sees a half of.                           *)
THEOREM LockRefined == Spec => ImplementsLock
<1>1. DataInv /\ DataInv' /\ [Next]_vars => [Abstract!LNext]_(Abstract!lockVars)
  BY NextLock
<1> QED
  BY <1>1, InitLock, InitData, NextData, PTL DEF Spec, ImplementsLock, Abstract!LSpec

-----------------------------------------------------------------------------
(***************************************************************************)
(* The GIC drivers.                                                        *)
(*                                                                         *)
(* A list of steps is reasoned about as the set of its elements: a step of *)
(* gic_init is passed when the CPU has started and the step is no longer   *)
(* in the list.  A step of a CPU finishes the first element, stays in it   *)
(* or begins a new list, and leaves the other CPUs alone (Frame).          *)
(***************************************************************************)
GicOps == InitOps \cup LockedOps \cup {"get_trgt", "route", "sgi"}
DistOps == {"clear_spis", "lowest_prio", "no_targets", "config"}
Bits == {"EN", "ENA", "ARE_NS", "DS"}
On == {"EN", "ENA"}
Kinds == Flags \cup Fields \cup {"route"}
SharedLines == {x \in Lines : x[1] = NoCpu}

FieldVals(k) ==
  IF k = "prio" THEN 0 .. LOWEST ELSE IF k = "trgt" THEN SUBSET Cores ELSE 0 .. 3

(* What the steps of a function carry.                                     *)
Args(op) ==
  IF op \in Flags THEN BOOLEAN
  ELSE IF op \in Fields THEN FieldVals(op)
  ELSE IF op = "ctlr" THEN SUBSET Bits
  ELSE IF op \in {"route", "sgi", "get_trgt"} THEN Cores
  ELSE {0}

GicStep ==
  {s \in [op : GicOps, id : 0 .. 1023, val : UNION {Args(op) : op \in GicOps}] :
     s.val \in Args(s.op) /\ (s.op \notin InitOps => s.id \in CALL_IDS)}

(* The steps CPU c has left; its list is part of gic_init or of a call.    *)
Steps(c) == Range(todo[c])

(* Only CPU 0 runs gicd_init, and a list is of one kind.                   *)
ListOK(c) ==
  /\ todo[c] \in Seq(GicStep)
  /\ c \notin up => todo[c] = << >>
  /\ c # 0 => \A s \in Steps(c) : s.op \notin DistOps
  /\ (\A s \in Steps(c) : s.op \in InitOps) \/ (\A s \in Steps(c) : s.op \notin InitOps)

(* Where CPU c is in the first step, and the register it has loaded.       *)
PhaseOK(c) ==
  /\ phase[c] \in {"out", "in", "loaded", "done", "low"}
  /\ phase[c] \in {"in", "done"} => Doing(c, LockedOps)
  /\ phase[c] = "loaded" => Doing(c, Fields \cup {"get_state", "ctlr"})
  /\ phase[c] = "low" => Doing(c, {"route"}) /\ ~gic_is_priv(Head(todo[c]).id)

TmpOK(c) ==
  phase[c] = "loaded" =>
    LET op == Head(todo[c]).op
    IN /\ op = "ctlr" => tmp[c] \subseteq Bits
       /\ op \in Fields => \A l \in Lines : l \in DOMAIN tmp[c] => tmp[c][l] \in FieldVals(op)

ListsOK == \A c \in Cores : ListOK(c) /\ PhaseOK(c) /\ TmpOK(c)

RegsOK ==
  /\ version \in {2, 3} /\ ctlr \subseteq Bits
  /\ asleep \subseteq Cores /\ iface \subseteq Cores /\ up \subseteq Cores
  /\ flags \in [Flags -> SUBSET Lines]
  /\ fields = [k \in Fields |-> fields[k]]
  /\ \A k \in Fields : fields[k] \in [Lines -> FieldVals(k)]
  /\ route \in [SharedLines -> [lo : Cores \cup {NoCpu}, hi : {0, 1}]]
  /\ locks \in [{"gicd", "gicr"} -> Cores \cup {NoCpu}]
  /\ ret \in [Cores -> Nat] /\ calls \in 0 .. MAX_CALLS
  /\ DOMAIN asked \subseteq Kinds \X Lines

GicTypeOK ==
  /\ RegsOK /\ ListsOK
  /\ todo = [c \in Cores |-> todo[c]] /\ phase = [c \in Cores |-> phase[c]]
  /\ tmp = [c \in Cores |-> tmp[c]]
  /\ early \in BOOLEAN /\ behind \in BOOLEAN

-----------------------------------------------------------------------------
(* Unless a CPU came early, CPU 0 is alone until it leaves gic_init.       *)
EarlyOK == ~early /\ ~Ready(0) => up \subseteq {0}

(* GICD_CTLR is on unless CPU 0 is still going to turn it on; the same for *)
(* the copy of a CPU between its load and its store, unless it fell behind.*)
TurnsOn(s) == s.op = "ctlr" /\ s.val \cap On # {}
CtlrOK ==
  /\ behind => early
  /\ 0 \in up /\ ~behind /\ (\A s \in Steps(0) : ~TurnsOn(s)) =>
       /\ ctlr \cap On # {}
       /\ \A c \in Cores : phase[c] = "loaded" /\ Doing(c, {"ctlr"}) => tmp[c] \cap On # {}

(* The step of gicv2.c that has cleared the bits of a line is behind.      *)
Passed(c, op) == c \in up /\ \A s \in Steps(c) : s.op # op
FlagsCleared(l) ==
  version = 2 /\ IF l[1] # NoCpu THEN Passed(l[1], "clear_private") ELSE Passed(0, "clear_spis")

(* FlagsAsAsked, and ResetV2 with the step that cleared a line in place of *)
(* Initialised.                                                            *)
FlagOK(k, l) ==
  /\ AsAsked(k, l, l \in flags[k])
  /\ FlagsCleared(l) /\ <<k, l>> \notin DOMAIN asked => l \notin flags[k]
FlagsOK == \A k \in Flags, l \in Lines : FlagOK(k, l)

(* The CPU that executes a locked step past spin_lock holds the lock.      *)
Inside(c) == phase[c] \in {"in", "loaded", "done"} /\ Doing(c, LockedOps)
LocksOK == \A c \in Cores : Inside(c) => locks[LockOf(Head(todo[c]).id)] = c

(* The same for the fields, which the loops of gicd_init fill; v is a      *)
(* value that the line holds, or will hold after a store.                  *)
FillOp(k) == IF k = "prio" THEN "lowest_prio" ELSE IF k = "trgt" THEN "no_targets" ELSE "config"
Default(k) == IF k = "prio" THEN LOWEST ELSE IF k = "trgt" THEN {} ELSE 2
FieldsFilled(k, l) ==
  /\ version = 2 /\ ~early
  /\ IF l[1] # NoCpu THEN k = "prio" /\ Passed(l[1], "clear_private") ELSE Passed(0, FillOp(k))
ValueOK(k, l, v) ==
  /\ AsAsked(k, l, v)
  /\ FieldsFilled(k, l) /\ <<k, l>> \notin DOMAIN asked => v = Default(k)

(* FieldsAsAsked in two parts, the fields and the routes.                  *)
FieldsOK == \A k \in Fields, l \in Lines : ValueOK(k, l, fields[k][l])
RouteOK ==
  \A l \in SharedLines :
    <<"route", l>> \in DOMAIN asked =>
      /\ route[l].lo = asked[<<"route", l>>]
      /\ route[l].hi = 0 \/ \E c \in Cores : phase[c] = "low" /\ Head(todo[c]).id = l[2]

(* The loaded register is of the bank of the field, and as good as what    *)
(* the register holds.                                                     *)
LoadedOK ==
  \A c \in Cores :
    phase[c] = "loaded" /\ Doing(c, Fields) =>
      LET op == Head(todo[c])
      IN \A l \in Lines : l \in DOMAIN tmp[c] =>
           l[1] = Cell(c, op.op, op.id)[1] /\ ValueOK(op.op, l, tmp[c][l])

-----------------------------------------------------------------------------
(* Lists of steps, as the sets of their elements.                          *)

LEMMA RangeTail ==
  ASSUME NEW S, NEW s \in Seq(S), s # << >>
  PROVE  /\ Head(s) \in S /\ Head(s) \in Range(s)
         /\ Tail(s) \in Seq(S)
         /\ Range(Tail(s)) \subseteq Range(s)
         /\ Range(s) \subseteq Range(Tail(s)) \cup {Head(s)}
<1>1. /\ Len(s) \in Nat /\ Len(s) >= 1 /\ DOMAIN s = 1 .. Len(s) /\ Head(s) = s[1]
      /\ Tail(s) \in Seq(S) /\ DOMAIN Tail(s) = 1 .. Len(s) - 1
      /\ \A i \in 1 .. Len(s) - 1 : Tail(s)[i] = s[i + 1]
  OBVIOUS
<1>2. Head(s) \in S /\ Head(s) \in Range(s)
  BY <1>1 DEF Range
<1>3. Range(Tail(s)) \subseteq Range(s)
  <2>1. ASSUME NEW i \in 1 .. Len(s) - 1 PROVE Tail(s)[i] \in Range(s)
    <3>1. i + 1 \in 1 .. Len(s)
      BY <1>1
    <3> QED  BY <1>1, <3>1 DEF Range
  <2> QED  BY <1>1, <2>1 DEF Range
<1>4. Range(s) \subseteq Range(Tail(s)) \cup {Head(s)}
  <2>1. ASSUME NEW j \in 1 .. Len(s), j # 1 PROVE s[j] \in Range(Tail(s))
    <3>1. j - 1 \in 1 .. Len(s) - 1 /\ (j - 1) + 1 = j
      BY <1>1, <2>1
    <3>2. Tail(s)[j - 1] = s[j]
      BY <1>1, <3>1
    <3> QED  BY <1>1, <3>1, <3>2 DEF Range
  <2> QED  BY <1>1, <2>1 DEF Range
<1> QED  BY <1>1, <1>2, <1>3, <1>4

LEMMA RangeConcat ==
  ASSUME NEW S, NEW s \in Seq(S), NEW t \in Seq(S)
  PROVE  s \o t \in Seq(S) /\ Range(s \o t) = Range(s) \cup Range(t)
<1> DEFINE u == s \o t
<1>1. /\ u \in Seq(S) /\ Len(u) = Len(s) + Len(t)
      /\ \A i \in 1 .. Len(s) + Len(t) : u[i] = IF i <= Len(s) THEN s[i] ELSE t[i - Len(s)]
  BY ConcatProperties, Zenon
<1>2. /\ Len(s) \in Nat /\ DOMAIN s = 1 .. Len(s) /\ Len(t) \in Nat /\ DOMAIN t = 1 .. Len(t)
      /\ DOMAIN u = 1 .. Len(s) + Len(t)
  BY <1>1, LenProperties
<1> HIDE DEF u
<1>3. ASSUME NEW i \in 1 .. Len(s) + Len(t) PROVE u[i] \in Range(s) \cup Range(t)
  <2>1. CASE i <= Len(s)
    BY <1>1, <1>2, <2>1 DEF Range
  <2>2. CASE ~(i <= Len(s))
    <3>1. i - Len(s) \in 1 .. Len(t)
      BY <1>2, <2>2
    <3> QED  BY <1>1, <1>2, <2>2, <3>1 DEF Range
  <2> QED  BY <2>1, <2>2
<1>4. ASSUME NEW i \in 1 .. Len(s) PROVE s[i] \in Range(u)
  <2>1. i \in 1 .. Len(s) + Len(t) /\ i <= Len(s)
    BY <1>2
  <2> QED  BY <1>1, <1>2, <2>1 DEF Range
<1>5. ASSUME NEW i \in 1 .. Len(t) PROVE t[i] \in Range(u)
  <2>1. i + Len(s) \in 1 .. Len(s) + Len(t) /\ ~(i + Len(s) <= Len(s)) /\ (i + Len(s)) - Len(s) = i
    BY <1>2
  <2>2. u[i + Len(s)] = t[i]
    BY <1>1, <2>1
  <2> QED  BY <1>2, <2>1, <2>2 DEF Range
<1>6. Range(u) \subseteq Range(s) \cup Range(t)
  BY <1>2, <1>3 DEF Range
<1>7. Range(s) \subseteq Range(u) /\ Range(t) \subseteq Range(u)
  BY <1>2, <1>4, <1>5 DEF Range
<1> QED  BY <1>1, <1>6, <1>7 DEF u

LEMMA RangeTuple ==
  ASSUME NEW S
  PROVE  /\ << >> \in Seq(S) /\ Range(<< >>) = {}
         /\ \A a \in S : <<a>> \in Seq(S) /\ Range(<<a>>) = {a} /\ <<a>> # << >>
         /\ \A a, b \in S : <<a, b>> \in Seq(S) /\ Range(<<a, b>>) = {a, b} /\ <<a, b>> # << >>
  BY DEF Range

-----------------------------------------------------------------------------
(* The lines: a private interrupt has one per CPU, a shared one only one.  *)

LEMMA LineFacts ==
  ASSUME NEW c \in Cores, NEW id \in IDS
  PROVE  /\ id \in Nat /\ id \in 0 .. 1023
         /\ Line(c, id) \in Lines /\ Line(c, id)[2] = id
         /\ Line(c, id) = <<IF id < 32 THEN c ELSE NoCpu, id>>
         /\ Line(c, id)[1] = IF id < 32 THEN c ELSE NoCpu
<1>1. id \in Nat /\ id \in 0 .. 1023
  BY GicAssumption
<1> QED  BY <1>1 DEF Line, Lines, gic_is_priv, GIC_CPU_PRIV

LEMMA LinesFacts ==
  ASSUME NEW l \in Lines
  PROVE  /\ l = <<l[1], l[2]>> /\ l[2] \in IDS /\ l[2] \in Nat /\ l[2] < 32 * (ITLN + 1)
         /\ l[1] \in Cores \cup {NoCpu} /\ (l[1] = NoCpu <=> l[2] >= 32)
         /\ NoCpu \notin Cores
<1>1. PICK c \in Cores, id \in IDS : l = Line(c, id)
  BY DEF Lines
<1>2. id \in Nat /\ id < 32 * (ITLN + 1) /\ c # NoCpu
  BY GicAssumption DEF Cores, NoCpu
<1>3. NoCpu \notin Cores
  BY GicAssumption DEF Cores, NoCpu
<1> QED  BY <1>1, <1>2, <1>3, LineFacts

(* Where a field lands: on the line of the interrupt, except for interrupt *)
(* 32 of a GICv3; and the bank tells which lock guards it.                 *)
LEMMA CellFacts ==
  ASSUME version \in {2, 3}, NEW c \in Cores, NEW id \in IDS, NEW k \in Flags \cup Fields
  PROVE  /\ ~(version = 3 /\ id = 32) => Cell(c, k, id) = Line(c, id)
         /\ version = 3 /\ id = 32 => Cell(c, k, id) \in {<<c, 0>>, <<c, 16>>, <<c, 32>>}
         /\ Cell(c, k, id)[1] \in {c, NoCpu}
         /\ version = 3 => (Cell(c, k, id)[1] = NoCpu <=> LockOf(id) = "gicd")
         /\ version = 2 => LockOf(id) = "gicd"
         /\ LockOf(id) \in {"gicd", "gicr"}
<1>1. id \in 0 .. 1023
  BY LineFacts
<1>2. c # NoCpu
  BY GicAssumption DEF Cores, NoCpu
<1>3. id < 32 => id % 32 = id
  BY <1>1
<1>4. RegOf("cfg", id) = id \div 16
  BY <1>1 DEF RegOf, Width
<1>5. id < 32 => (IF id \div 16 = 0 THEN 0 ELSE 16) + (id % 16) = id
  BY <1>1
<1>6. Line(c, id) = <<IF id < 32 THEN c ELSE NoCpu, id>>
  BY LineFacts
<1>7. irq_in_gicd(id) <=> id > 32
  BY <1>1 DEF irq_in_gicd
<1>8. CASE version = 2
  BY <1>2, <1>6, <1>8 DEF Cell, LockOf
<1>9. CASE version = 3 /\ id > 32
  BY <1>1, <1>2, <1>6, <1>7, <1>9 DEF Cell, LockOf
<1>10. CASE version = 3 /\ id < 32
  <2>1. Cell(c, k, id) = <<c, id>>
    BY <1>1, <1>3, <1>4, <1>5, <1>7, <1>10 DEF Cell
  <2> QED  BY <1>1, <1>2, <1>6, <1>7, <1>10, <2>1 DEF LockOf
<1>11. CASE version = 3 /\ id = 32
  <2>1. 32 % 32 = 0 /\ 32 % 16 = 0 /\ 32 \div 16 = 2
    OBVIOUS
  <2>2. Cell(c, k, id) = IF k = "cfg" THEN <<c, 16>> ELSE IF k \in Flags THEN <<c, 0>> ELSE <<c, 32>>
    BY <1>4, <1>7, <1>11, <2>1 DEF Cell
  <2> QED  BY <1>2, <1>7, <1>11, <2>2 DEF LockOf
<1> QED  BY <1>1, <1>8, <1>9, <1>10, <1>11

-----------------------------------------------------------------------------
(* The lists: what gic_init and the calls are made of.                     *)

LEMMA InitSteps ==
  /\ \A op \in InitOps \ {"ctlr"} : PlainStep(op) \in GicStep /\ PlainStep(op).op = op
  /\ \A b \in SUBSET Bits : /\ OpStep("ctlr", 0, b) \in GicStep /\ OpStep("ctlr", 0, b).op = "ctlr"
                            /\ OpStep("ctlr", 0, b).val = b
<1>1. ASSUME NEW op \in GicOps, NEW v \in Args(op), op \in InitOps
      PROVE  OpStep(op, 0, v) \in GicStep /\ OpStep(op, 0, v).op = op /\ OpStep(op, 0, v).val = v
  <2>1. v \in UNION {Args(x) : x \in GicOps}
    OBVIOUS
  <2> QED  BY <1>1, <2>1 DEF OpStep, GicStep
<1>2. \A op \in InitOps \ {"ctlr"} : 0 \in Args(op)
  BY DEF Args, InitOps, Flags, Fields
<1>3. Args("ctlr") = SUBSET Bits
  BY DEF Args, Flags, Fields
<1>4. "ctlr" \in InitOps /\ InitOps \subseteq GicOps
  BY DEF InitOps, GicOps
<1>5. \A op : PlainStep(op) = OpStep(op, 0, 0)
  BY DEF PlainStep, OpStep
<1> HIDE DEF Args, InitOps, GicOps
<1> QED  BY <1>1, <1>2, <1>3, <1>4, <1>5

(* The same for lists of steps, up to four.                                *)
LEMMA StepTuples ==
  /\ << >> \in Seq(GicStep) /\ Range(<< >>) = {}
  /\ \A a \in GicStep : <<a>> \in Seq(GicStep) /\ Range(<<a>>) = {a}
  /\ \A a, b \in GicStep : <<a, b>> \in Seq(GicStep) /\ Range(<<a, b>>) = {a, b}
  /\ \A a, b, d \in GicStep : <<a, b, d>> \in Seq(GicStep) /\ Range(<<a, b, d>>) = {a, b, d}
  /\ \A a, b, d, e \in GicStep : <<a, b, d, e>> \in Seq(GicStep) /\ Range(<<a, b, d, e>>) = {a, b, d, e}
<1>1. << >> \in Seq(GicStep) /\ Range(<< >>) = {}
  BY DEF Range
<1>2. ASSUME NEW a \in GicStep PROVE <<a>> \in Seq(GicStep) /\ Range(<<a>>) = {a}
  BY DEF Range
<1>3. ASSUME NEW a \in GicStep, NEW b \in GicStep
      PROVE  <<a, b>> \in Seq(GicStep) /\ Range(<<a, b>>) = {a, b}
  BY DEF Range
<1>4. ASSUME NEW a \in GicStep, NEW b \in GicStep, NEW d \in GicStep
      PROVE  <<a, b, d>> \in Seq(GicStep) /\ Range(<<a, b, d>>) = {a, b, d}
  BY DEF Range
<1>5. ASSUME NEW a \in GicStep, NEW b \in GicStep, NEW d \in GicStep, NEW e \in GicStep
      PROVE  <<a, b, d, e>> \in Seq(GicStep) /\ Range(<<a, b, d, e>>) = {a, b, d, e}
  BY DEF Range
<1> QED  BY <1>1, <1>2, <1>3, <1>4, <1>5, Zenon

(* What gic_init consists of, on CPU 0 and on the others.                  *)
LEMMA gic_initFacts ==
  ASSUME version \in {2, 3}, NEW c \in Cores
  PROVE  /\ gic_init(c) \in Seq(GicStep)
         /\ \A s \in Range(gic_init(c)) : s.op \in InitOps /\ (c # 0 => s.op \notin DistOps)
         /\ \E s \in Range(gic_init(c)) : s.op = "clear_private"
         /\ c = 0 => /\ \E s \in Range(gic_init(c)) : TurnsOn(s)
                     /\ \A op \in DistOps : op # "config" \/ version = 2 =>
                          \E s \in Range(gic_init(c)) : s.op = op
<1> DEFINE P(op) == PlainStep(op)
           C(b) == OpStep("ctlr", 0, b)
           on == IF version = 2 THEN {"EN"} ELSE {"ARE_NS", "ENA"}
           three == <<P("clear_spis"), P("lowest_prio"), P("no_targets")>>
           cfg == IF version = 2 THEN <<P("config")>> ELSE << >>
           priv == <<P("clear_private"), P("gicc_init")>>
           cpu == <<C({"DS"}), P("wake"), P("clear_private"), P("gicc_init")>>
<1>1. \A op \in InitOps \ {"ctlr"} : P(op) \in GicStep /\ P(op).op = op
  BY InitSteps
<1>2. \A b \in SUBSET Bits : C(b) \in GicStep /\ C(b).op = "ctlr" /\ C(b).val = b
  BY InitSteps
<1>3. on \in SUBSET Bits /\ on \cap On # {} /\ {"DS"} \in SUBSET Bits
  BY DEF Bits, On
<1>4. {"clear_spis", "lowest_prio", "no_targets", "config", "clear_private", "gicc_init", "wake"}
         \subseteq InitOps \ {"ctlr"}
  BY DEF InitOps
<1> HIDE DEF P, C, on
<1>a. /\ P("clear_spis") \in GicStep /\ P("lowest_prio") \in GicStep /\ P("no_targets") \in GicStep
      /\ P("config") \in GicStep /\ P("clear_private") \in GicStep /\ P("gicc_init") \in GicStep
      /\ P("wake") \in GicStep /\ C({"DS"}) \in GicStep /\ C(on) \in GicStep
  BY <1>1, <1>2, <1>3, <1>4
<1>b. /\ << >> \in Seq(GicStep) /\ Range(<< >>) = {}
      /\ \A a \in GicStep : <<a>> \in Seq(GicStep) /\ Range(<<a>>) = {a}
      /\ \A a, b \in GicStep : <<a, b>> \in Seq(GicStep) /\ Range(<<a, b>>) = {a, b}
      /\ \A a, b, d \in GicStep : <<a, b, d>> \in Seq(GicStep) /\ Range(<<a, b, d>>) = {a, b, d}
      /\ \A a, b, d, e \in GicStep : <<a, b, d, e>> \in Seq(GicStep) /\ Range(<<a, b, d, e>>) = {a, b, d, e}
  BY StepTuples, Zenon
<1>5. three \in Seq(GicStep) /\ Range(three) = {P("clear_spis"), P("lowest_prio"), P("no_targets")}
  BY <1>a, <1>b
<1>6. cfg \in Seq(GicStep) /\ Range(cfg) = IF version = 2 THEN {P("config")} ELSE {}
  BY <1>a, <1>b
<1>7. priv \in Seq(GicStep) /\ Range(priv) = {P("clear_private"), P("gicc_init")}
  BY <1>a, <1>b
<1>8. cpu \in Seq(GicStep) /\ Range(cpu) = {C({"DS"}), P("wake"), P("clear_private"), P("gicc_init")}
  BY <1>a, <1>b
<1>9. <<C(on)>> \in Seq(GicStep) /\ Range(<<C(on)>>) = {C(on)}
  BY <1>a, <1>b
<1>10. gicd_init = (three \o cfg) \o <<C(on)>>
  BY DEF gicd_init, P, C, on
<1>11. gic_init(c) = IF version = 2 THEN (IF c = 0 THEN gicd_init ELSE << >>) \o priv
                     ELSE cpu \o (IF c = 0 THEN gicd_init ELSE << >>)
  BY DEF gic_init, gic_cpu_init, P, C
<1> HIDE DEF three, cfg, priv, cpu
<1>12. three \o cfg \in Seq(GicStep) /\ Range(three \o cfg) = Range(three) \cup Range(cfg)
  BY <1>5, <1>6, RangeConcat
<1>13. gicd_init \in Seq(GicStep) /\ Range(gicd_init) = Range(three) \cup Range(cfg) \cup {C(on)}
  <2> DEFINE first == three \o cfg
             last == <<C(on)>>
  <2>1. first \in Seq(GicStep) /\ last \in Seq(GicStep) /\ gicd_init = first \o last
    BY <1>9, <1>10, <1>12
  <2>2. Range(first) = Range(three) \cup Range(cfg) /\ Range(last) = {C(on)}
    BY <1>9, <1>12
  <2> HIDE DEF first, last
  <2>3. gicd_init \in Seq(GicStep) /\ Range(gicd_init) = Range(first) \cup Range(last)
    BY <2>1, RangeConcat
  <2> QED  BY <2>2, <2>3
<1> DEFINE dist == IF c = 0 THEN gicd_init ELSE << >>
<1>14. dist \in Seq(GicStep) /\ Range(dist) = IF c = 0 THEN Range(gicd_init) ELSE {}
  BY <1>13, RangeTuple
<1>15. gic_init(c) = IF version = 2 THEN dist \o priv ELSE cpu \o dist
  BY <1>11
<1> HIDE DEF dist
<1>16. /\ gic_init(c) \in Seq(GicStep)
       /\ Range(gic_init(c)) = Range(dist) \cup (IF version = 2 THEN Range(priv) ELSE Range(cpu))
  <2>1. /\ dist \o priv \in Seq(GicStep) /\ Range(dist \o priv) = Range(dist) \cup Range(priv)
        /\ cpu \o dist \in Seq(GicStep) /\ Range(cpu \o dist) = Range(cpu) \cup Range(dist)
    BY <1>7, <1>8, <1>14, RangeConcat
  <2> QED  BY <1>15, <2>1
<1> DEFINE R == Range(gic_init(c))
<1>17. /\ C(on) \in GicStep /\ C(on).op = "ctlr" /\ C(on).val = on /\ C({"DS"}).op = "ctlr"
       /\ \A op \in InitOps \ {"ctlr"} : P(op).op = op
  BY <1>1, <1>2, <1>3
<1>18. \A s \in R : \/ s \in {C({"DS"}), P("wake"), P("clear_private"), P("gicc_init")}
                    \/ c = 0 /\ s \in {P("clear_spis"), P("lowest_prio"), P("no_targets"), P("config"), C(on)}
  BY <1>5, <1>6, <1>7, <1>8, <1>13, <1>14, <1>16
<1>19. P("clear_private") \in R
  BY <1>7, <1>8, <1>16
<1>20. c = 0 => /\ {P("clear_spis"), P("lowest_prio"), P("no_targets"), C(on)} \subseteq R
                /\ version = 2 => P("config") \in R
  BY <1>5, <1>6, <1>13, <1>14, <1>16
<1>21. \A s \in R : s.op \in InitOps /\ (c # 0 => s.op \notin DistOps)
  BY <1>4, <1>17, <1>18 DEF InitOps, DistOps
<1>22. c = 0 => /\ \E s \in R : TurnsOn(s)
                /\ \A op \in DistOps : op # "config" \/ version = 2 => \E s \in R : s.op = op
  BY <1>3, <1>4, <1>17, <1>20 DEF TurnsOn, DistOps
<1> QED  BY <1>4, <1>16, <1>17, <1>19, <1>21, <1>22

LEMMA CallStep ==
  ASSUME NEW op \in GicOps \ InitOps, NEW id \in CALL_IDS, NEW v \in Args(op)
  PROVE  OpStep(op, id, v) \in GicStep /\ OpStep(op, id, v).op = op
<1>1. v \in UNION {Args(x) : x \in GicOps}
  OBVIOUS
<1>2. id \in 0 .. 1023
  BY GicAssumption, LineFacts
<1> QED  BY <1>1, <1>2 DEF OpStep, GicStep

(* A call is a list of one or two steps on one interrupt.                  *)
LEMMA CallsFacts ==
  ASSUME version \in {2, 3}, NEW c \in Cores, NEW id \in CALL_IDS, NEW steps \in Calls(c, id)
  PROVE  /\ steps \in Seq(GicStep) /\ steps # << >>
         /\ \A s \in Range(steps) : s.op \notin InitOps
<1> DEFINE good == {s \in GicStep : s.op \notin InitOps}
<1>1. \A s \in good : /\ <<s>> \in Seq(GicStep) /\ Range(<<s>>) = {s} /\ <<s>> # << >>
  BY RangeTuple
<1>2. \A s, t \in good : <<s, t>> \in Seq(GicStep) /\ Range(<<s, t>>) = {s, t} /\ <<s, t>> # << >>
  BY RangeTuple
<1>3. \A op \in GicOps \ InitOps : \A v \in Args(op) : OpStep(op, id, v) \in good
  BY CallStep
<1>4. /\ {"enable", "pend", "act", "prio", "trgt", "cfg", "sgi", "route", "get_trgt", "get_prio", "get_state"}
           \subseteq GicOps \ InitOps
      /\ \A k \in Flags : Args(k) = BOOLEAN
      /\ Flags = {"enable", "pend", "act"}
      /\ \A p \in PRIOS : p \in Args("prio")
      /\ {c} \in Args("trgt") /\ 0 \in Args("cfg") /\ 2 \in Args("cfg")
      /\ Args("sgi") = Cores /\ Args("route") = Cores /\ Args("get_trgt") = Cores
      /\ 0 \in Args("get_prio") /\ 0 \in Args("get_state")
  BY GicAssumption DEF GicOps, InitOps, LockedOps, Flags, Fields, Args, FieldVals, LOWEST
<1> DEFINE One(x) == \E s \in good : x = <<s>>
           Two(x) == \E s, t \in good : x = <<s, t>>
<1>5. SUFFICES One(steps) \/ Two(steps)
  <2>1. CASE One(steps)
    BY <1>1, <2>1
  <2>2. CASE Two(steps)
    <3>1. PICK s \in good, t \in good : steps = <<s, t>>
      BY <2>2
    <3>2. Range(steps) = {s, t} /\ steps \in Seq(GicStep) /\ steps # << >>
      BY <1>2, <3>1
    <3> QED  BY <3>2
  <2> QED  BY <2>1, <2>2
<1>6. Two(irq_enable(c, id))
  <2>1. /\ OpStep("enable", id, TRUE) \in good /\ OpStep("get_trgt", id, c) \in good
        /\ OpStep("route", id, c) \in good
    BY <1>3, <1>4
  <2>3. \A s, t \in good : <<s>> \o <<t>> = <<s, t>>
    <3>1. ASSUME NEW s \in good, NEW t \in good PROVE <<s>> \o <<t>> = <<s, t>>
      <4>1. /\ <<s>> \in Seq(good) /\ <<t>> \in Seq(good) /\ Len(<<s>>) = 1 /\ Len(<<t>>) = 1
            /\ <<s>>[1] = s /\ <<t>>[1] = t
        OBVIOUS
      <4>2. /\ <<s>> \o <<t>> \in Seq(good) /\ Len(<<s>> \o <<t>>) = 2
            /\ \A i \in 1 .. 2 : (<<s>> \o <<t>>)[i] = IF i <= 1 THEN <<s>>[i] ELSE <<t>>[i - 1]
        BY <4>1, ConcatProperties
      <4>3. <<s, t>> \in Seq(good) /\ Len(<<s, t>>) = 2 /\ <<s, t>>[1] = s /\ <<s, t>>[2] = t
        OBVIOUS
      <4>4. \A i \in 1 .. 2 : (<<s>> \o <<t>>)[i] = <<s, t>>[i]
        BY <4>1, <4>2, <4>3
      <4> QED  BY <4>2, <4>3, <4>4, SeqEqual
    <3> QED  BY <3>1
  <2> HIDE DEF good
  <2>4. CASE version = 2
    <3>1. irq_enable(c, id) = <<OpStep("enable", id, TRUE)>> \o <<OpStep("get_trgt", id, c)>>
      BY <2>4 DEF irq_enable
    <3> QED  BY <2>1, <2>3, <3>1, Zenon
  <2>5. CASE version = 3
    <3>1. irq_enable(c, id) = <<OpStep("enable", id, TRUE)>> \o <<OpStep("route", id, c)>>
      BY <2>5 DEF irq_enable
    <3> QED  BY <2>1, <2>3, <3>1, Zenon
  <2> QED  BY <2>4, <2>5
<1>7. ASSUME NEW k \in Flags, NEW b \in BOOLEAN PROVE One(<<OpStep(k, id, b)>>)
  BY <1>3, <1>4
<1>8. ASSUME NEW p \in PRIOS PROVE One(<<OpStep("prio", id, p)>>)
  BY <1>3, <1>4
<1>9. ASSUME NEW t \in Cores PROVE One(<<OpStep("sgi", id, t)>>)
  BY <1>3, <1>4
<1>10. ASSUME NEW a \in BOOLEAN, NEW p \in BOOLEAN PROVE Two(gic_set_state(id, a, p))
  BY <1>3, <1>4 DEF gic_set_state
<1>11. ASSUME NEW v \in {0, 2} PROVE One(<<OpStep("cfg", id, v)>>)
  BY <1>3, <1>4
<1>12. One(<<OpStep("trgt", id, {c})>>)
  BY <1>3, <1>4
<1>13. ASSUME NEW get \in {"get_prio", "get_state"} PROVE One(<<OpStep(get, id, 0)>>)
  BY <1>3, <1>4
<1> HIDE DEF One, Two
<1>14. \A x \in PrioCalls(id) \cup SgiCalls(id) : One(x)
  BY <1>8, <1>9 DEF PrioCalls, SgiCalls
<1>15. \A x \in PendCalls(id) : One(x)
  BY <1>4, <1>7 DEF PendCalls
<1>16. \A x \in StateCalls(id) : Two(x)
  BY <1>10 DEF StateCalls
<1>17. \A x \in CfgCalls(id) \cup GetCalls(id) : One(x)
  BY <1>11, <1>13 DEF CfgCalls, GetCalls
<1>18. One(<<OpStep("enable", id, FALSE)>>)
  BY <1>4, <1>7
<1> QED
  BY <1>6, <1>12, <1>14, <1>15, <1>16, <1>17, <1>18 DEF Calls

-----------------------------------------------------------------------------
(* What the steps do to the lists: the CPU finishes the first step, stays  *)
(* in it, or begins a new list; the other CPUs keep theirs.                *)

Frame(c) ==
  /\ version' = version
  /\ todo' = [d \in Cores |-> todo'[d]] /\ phase' = [d \in Cores |-> phase'[d]]
  /\ tmp' = [d \in Cores |-> tmp'[d]]
  /\ \A d \in Cores \ {c} : todo'[d] = todo[d] /\ phase'[d] = phase[d] /\ tmp'[d] = tmp[d]

Finishes(c) ==
  Frame(c) /\ up' = up /\ todo[c] # << >> /\ todo'[c] = Tail(todo[c]) /\ phase'[c] = "out"

Stays(c) == Frame(c) /\ up' = up /\ todo[c] # << >> /\ todo'[c] = todo[c]

LEMMA HeadFacts ==
  ASSUME GicTypeOK, NEW c \in Cores, todo[c] # << >>
  PROVE  LET s == Head(todo[c])
         IN /\ s \in GicStep /\ s \in Steps(c) /\ c \in up
            /\ Tail(todo[c]) \in Seq(GicStep)
            /\ Range(Tail(todo[c])) \subseteq Steps(c)
            /\ Steps(c) \subseteq Range(Tail(todo[c])) \cup {s}
            /\ s.op \in GicOps /\ s.val \in Args(s.op)
            /\ s.op \notin InitOps => s.id \in CALL_IDS /\ s.id \in IDS
<1>1. ListOK(c)
  BY DEF GicTypeOK, RegsOK, ListsOK
<1>2. todo[c] \in Seq(GicStep) /\ c \in up
  BY <1>1 DEF ListOK
<1> DEFINE s == Head(todo[c])
<1>3. /\ s \in GicStep /\ s \in Steps(c)
      /\ Tail(todo[c]) \in Seq(GicStep)
      /\ Range(Tail(todo[c])) \subseteq Steps(c)
      /\ Steps(c) \subseteq Range(Tail(todo[c])) \cup {s}
  BY <1>2, RangeTail DEF Steps
<1> HIDE DEF s
<1>4. /\ s.op \in GicOps /\ s.val \in Args(s.op)
      /\ s.op \notin InitOps => s.id \in CALL_IDS /\ s.id \in IDS
  BY <1>3, GicAssumption DEF GicStep
<1> QED  BY <1>2, <1>3, <1>4 DEF s

FinishSteps(c) ==
  \/ CtlrStore(c) \/ Wake(c) \/ ClearPrivate(c) \/ gicc_init(c)
  \/ ClearSpis(c) \/ LowestPrio(c) \/ NoTargets(c) \/ Config(c)
  \/ Unlock(c) \/ SendSgi(c)

LEMMA FinishEffect ==
  ASSUME GicTypeOK, NEW c \in Cores, FinishSteps(c)
  PROVE  Finishes(c)
<1> USE DEF GicTypeOK, Finishes, Frame, Finish, Doing, RegsOK, ListsOK
<1>1. CASE CtlrStore(c)
  BY <1>1 DEF CtlrStore
<1>2. CASE Wake(c)
  BY <1>2 DEF Wake
<1>3. CASE ClearPrivate(c)
  BY <1>3 DEF ClearPrivate
<1>4. CASE gicc_init(c)
  BY <1>4 DEF gicc_init
<1>5. CASE ClearSpis(c)
  BY <1>5 DEF ClearSpis, SpiClearedTo
<1>6. CASE LowestPrio(c)
  BY <1>6 DEF LowestPrio, FillFields
<1>7. CASE NoTargets(c)
  BY <1>7 DEF NoTargets, FillFields
<1>8. CASE Config(c)
  BY <1>8 DEF Config, FillFields
<1>9. CASE Unlock(c)
  BY <1>9 DEF Unlock
<1>10. CASE SendSgi(c)
  BY <1>10 DEF SendSgi
<1> QED
  BY <1>1, <1>2, <1>3, <1>4, <1>5, <1>6, <1>7, <1>8, <1>9, <1>10 DEF FinishSteps

LEMMA StayEffect ==
  ASSUME GicTypeOK, NEW c \in Cores
  PROVE  /\ CtlrLoad(c) => Stays(c) /\ phase'[c] = "loaded"
         /\ Lock(c) => Stays(c) /\ phase'[c] = "in"
         /\ SetFlag(c) => Stays(c) /\ phase'[c] = "done"
         /\ LoadReg(c) => Stays(c) /\ phase'[c] = "loaded"
         /\ StoreReg(c) => Stays(c) /\ phase'[c] = "done"
         /\ GetPrio(c) => Stays(c) /\ phase'[c] = "done"
         /\ GetState(c) => Stays(c) /\ phase'[c] \in {"loaded", "done"}
<1> USE DEF GicTypeOK, Stays, Frame, Goto, Doing, RegsOK, ListsOK
<1>1. CtlrLoad(c) => Stays(c) /\ phase'[c] = "loaded"
  BY DEF CtlrLoad
<1>2. Lock(c) => Stays(c) /\ phase'[c] = "in"
  BY DEF Lock
<1>3. SetFlag(c) => Stays(c) /\ phase'[c] = "done"
  BY DEF SetFlag
<1>4. LoadReg(c) => Stays(c) /\ phase'[c] = "loaded"
  BY DEF LoadReg
<1>5. StoreReg(c) => Stays(c) /\ phase'[c] = "done"
  BY DEF StoreReg
<1>6. GetPrio(c) => Stays(c) /\ phase'[c] = "done"
  BY DEF GetPrio
<1>7. GetState(c) => Stays(c) /\ phase'[c] \in {"loaded", "done"}
  BY DEF GetState
<1> QED  BY <1>1, <1>2, <1>3, <1>4, <1>5, <1>6, <1>7

(* gic_set_route: nothing for a private interrupt, else the low word and   *)
(* then the high word.                                                     *)
RouteLow(c) ==
  LET op == Head(todo[c])
      l == Line(c, op.id)
  IN /\ Doing(c, {"route"}) /\ ~gic_is_priv(op.id) /\ phase[c] = "out"
     /\ route' = [route EXCEPT ![l].lo = op.val]
     /\ asked' = Noted(<<"route", l>>, op.val)
     /\ Stays(c) /\ phase'[c] = "low"
RouteHigh(c) ==
  /\ Doing(c, {"route"}) /\ phase[c] = "low"
  /\ route' = [route EXCEPT ![Line(c, Head(todo[c]).id)].hi = 0]
  /\ asked' = asked /\ Finishes(c)
RouteNone(c) ==
  /\ Doing(c, {"route"}) /\ gic_is_priv(Head(todo[c]).id)
  /\ route' = route /\ asked' = asked /\ Finishes(c)

LEMMA RouteEffect ==
  ASSUME GicTypeOK, NEW c \in Cores, SetRoute(c)
  PROVE  RouteNone(c) \/ RouteLow(c) \/ RouteHigh(c)
<1>1. Doing(c, {"route"}) /\ todo[c] # << >>
  BY DEF SetRoute, Doing
<1>2. CASE Finish(c)
  <2>1. Finishes(c)
    BY <1>1, <1>2 DEF SetRoute, Finishes, Frame, Finish, GicTypeOK, RegsOK, ListsOK
  <2>2. phase[c] # "out" \/ gic_is_priv(Head(todo[c]).id) \/ phase'[c] = "out"
    BY <2>1 DEF Finishes
  <2>3. ~(Goto(c, "low"))
    BY <2>1 DEF Goto, Finishes, GicTypeOK, RegsOK, ListsOK
  <2> QED  BY <1>1, <2>1, <2>3 DEF SetRoute, RouteNone, RouteHigh
<1>3. CASE Goto(c, "low")
  <2>1. Stays(c) /\ phase'[c] = "low"
    BY <1>1, <1>3 DEF SetRoute, Stays, Frame, Goto, GicTypeOK, RegsOK, ListsOK
  <2>2. ~Finish(c)
    BY <2>1 DEF Finish, GicTypeOK, RegsOK, ListsOK
  <2> QED  BY <1>1, <2>1, <2>2 DEF SetRoute, RouteLow
<1> QED  BY <1>2, <1>3 DEF SetRoute

(* A new list: gic_init, a call, or gic_set_trgt after gic_get_trgt.       *)
Begins(c) == Frame(c) /\ tmp' = tmp /\ phase' = phase /\ phase[c] = "out"

LEMMA BeginEffect ==
  ASSUME GicTypeOK, NEW c \in Cores
  PROVE  /\ Start(c) => Begins(c) /\ todo'[c] = gic_init(c) /\ c \notin up /\ up' = up \cup {c}
         /\ Call(c) => /\ Begins(c) /\ up' = up /\ c \in up
                       /\ \E id \in CALL_IDS : todo'[c] \in Calls(c, id)
         /\ GetTrgt(c) =>
              LET id == Head(todo[c]).id
              IN /\ Begins(c) /\ up' = up /\ c \in up
                 /\ todo'[c] = <<OpStep("trgt", id, fields["trgt"][Line(c, id)] \cup {c})>>
<1>1. ListOK(c) /\ PhaseOK(c)
  BY DEF GicTypeOK, RegsOK, ListsOK
<1>2. todo[c] = << >> => phase[c] = "out"
  BY <1>1 DEF PhaseOK, Doing
<1>3. Start(c) => Begins(c) /\ todo'[c] = gic_init(c) /\ c \notin up /\ up' = up \cup {c}
  BY <1>1, <1>2 DEF Start, Begins, Frame, GicTypeOK, ListOK, RegsOK, ListsOK
<1>4. Call(c) => /\ Begins(c) /\ up' = up /\ c \in up
                 /\ \E id \in CALL_IDS : todo'[c] \in Calls(c, id)
  <2> SUFFICES ASSUME Call(c)
               PROVE  /\ Begins(c) /\ up' = up /\ c \in up
                      /\ \E id \in CALL_IDS : todo'[c] \in Calls(c, id)
    OBVIOUS
  <2>2. PICK id \in CALL_IDS : \E steps \in Calls(c, id) : todo' = [todo EXCEPT ![c] = steps]
    BY DEF Call
  <2>3. PICK steps \in Calls(c, id) : todo' = [todo EXCEPT ![c] = steps]
    BY <2>2
  <2>4. Begins(c) /\ up' = up /\ c \in up /\ todo'[c] = steps
    BY <1>2, <2>3 DEF Call, Begins, Frame, GicTypeOK, Ready, RegsOK, ListsOK
  <2> QED  BY <2>4
<1>5. ASSUME GetTrgt(c)
      PROVE  LET id == Head(todo[c]).id
             IN /\ Begins(c) /\ up' = up /\ c \in up
                /\ todo'[c] = <<OpStep("trgt", id, fields["trgt"][Line(c, id)] \cup {c})>>
  <2>1. Doing(c, {"get_trgt"}) /\ todo[c] # << >> /\ c \in up
    BY <1>1, <1>5 DEF GetTrgt, Doing, ListOK
  <2>2. phase[c] = "out"
    BY <1>1, <2>1 DEF PhaseOK, Doing, LockedOps, Flags, Fields
  <2> QED  BY <1>5, <2>1, <2>2 DEF GetTrgt, Begins, Frame, GicTypeOK, RegsOK, ListsOK
<1> QED  BY <1>3, <1>4, <1>5

-----------------------------------------------------------------------------
(* Types.                                                                  *)

LEMMA OtherLists ==
  ASSUME GicTypeOK, NEW c \in Cores, Frame(c), up \subseteq up',
         (ListOK(c) /\ PhaseOK(c) /\ TmpOK(c))'
  PROVE  ListsOK'
<1>1. ASSUME NEW d \in Cores \ {c} PROVE (ListOK(d) /\ PhaseOK(d) /\ TmpOK(d))'
  <2>1. ListOK(d) /\ PhaseOK(d) /\ TmpOK(d)
    BY DEF GicTypeOK, RegsOK, ListsOK
  <2>2. todo'[d] = todo[d] /\ phase'[d] = phase[d] /\ tmp'[d] = tmp[d]
    BY DEF Frame
  <2>3. ListOK(d)'
    BY <2>1, <2>2 DEF ListOK, Steps
  <2>4. PhaseOK(d)'
    BY <2>1, <2>2 DEF PhaseOK, Doing
  <2>5. TmpOK(d)'
    BY <2>1, <2>2 DEF TmpOK
  <2> QED  BY <2>3, <2>4, <2>5
<1> QED  BY <1>1 DEF ListsOK

LEMMA FinishLists ==
  ASSUME GicTypeOK, NEW c \in Cores, Finishes(c)
  PROVE  ListsOK'
<1>1. ListOK(c) /\ todo[c] # << >>
  BY DEF GicTypeOK, Finishes, RegsOK, ListsOK
<1>2. /\ Tail(todo[c]) \in Seq(GicStep) /\ Range(Tail(todo[c])) \subseteq Steps(c) /\ c \in up
  BY <1>1, HeadFacts
<1>3. ListOK(c)'
  BY <1>1, <1>2 DEF Finishes, ListOK, Steps
<1>4. PhaseOK(c)' /\ TmpOK(c)'
  BY DEF Finishes, PhaseOK, TmpOK
<1> QED  BY <1>3, <1>4, OtherLists DEF Finishes

LEMMA StayLists ==
  ASSUME GicTypeOK, NEW c \in Cores, Stays(c), (PhaseOK(c) /\ TmpOK(c))'
  PROVE  ListsOK'
<1>1. ListOK(c)
  BY DEF GicTypeOK, RegsOK, ListsOK
<1>2. ListOK(c)'
  BY <1>1 DEF Stays, ListOK, Steps
<1> QED  BY <1>2, OtherLists DEF Stays

LEMMA BeginLists ==
  ASSUME GicTypeOK, NEW c \in Cores, Begins(c), up \subseteq up', c \in up',
         todo'[c] \in Seq(GicStep),
         \/ \A s \in Range(todo'[c]) : s.op \in InitOps /\ (c # 0 => s.op \notin DistOps)
         \/ \A s \in Range(todo'[c]) : s.op \notin InitOps
  PROVE  ListsOK'
<1>1. DistOps \subseteq InitOps
  BY DEF DistOps, InitOps
<1>2. ListOK(c)'
  BY <1>1 DEF ListOK, Steps
<1>3. PhaseOK(c)' /\ TmpOK(c)'
  BY DEF Begins, PhaseOK, TmpOK
<1> QED  BY <1>2, <1>3, OtherLists DEF Begins

(* The lists after each step.                                              *)
LEMMA ListsStep ==
  ASSUME GicTypeOK, NEW c \in Cores, CpuNext(c)
  PROVE  ListsOK'
<1>0. ListOK(c) /\ PhaseOK(c) /\ TmpOK(c) /\ version \in {2, 3}
  BY DEF GicTypeOK, RegsOK, ListsOK
<1>1. CASE FinishSteps(c)
  BY <1>1, FinishEffect, FinishLists
<1>2. CASE Start(c)
  BY <1>0, <1>2, BeginEffect, gic_initFacts, BeginLists
<1>3. CASE Call(c)
  <2>1. /\ Begins(c) /\ up' = up /\ c \in up
    BY <1>3, BeginEffect
  <2>2. PICK id \in CALL_IDS : todo'[c] \in Calls(c, id)
    BY <1>3, BeginEffect
  <2>3. todo'[c] \in Seq(GicStep) /\ \A s \in Range(todo'[c]) : s.op \notin InitOps
    BY <1>0, <2>2, CallsFacts
  <2> QED  BY <2>1, <2>3, BeginLists
<1>4. CASE GetTrgt(c)
  <2> DEFINE id == Head(todo[c]).id
             v == fields["trgt"][Line(c, id)] \cup {c}
  <2>1. Begins(c) /\ up' = up /\ c \in up /\ todo'[c] = <<OpStep("trgt", id, v)>>
    BY <1>4, BeginEffect
  <2>2. id \in CALL_IDS /\ id \in IDS
    <3>1. todo[c] # << >> /\ Head(todo[c]).op \notin InitOps
      BY <1>4 DEF GetTrgt, Doing, InitOps
    <3> QED  BY <3>1, HeadFacts
  <2>3. v \in Args("trgt")
    <3>1. fields["trgt"][Line(c, id)] \in FieldVals("trgt")
      BY <2>2, LineFacts DEF GicTypeOK, Fields, RegsOK, ListsOK
    <3> QED  BY <3>1 DEF Args, FieldVals, Flags, Fields
  <2> HIDE DEF id, v
  <2>4. "trgt" \in GicOps \ InitOps
    BY DEF GicOps, InitOps, LockedOps, Flags, Fields
  <2>5. OpStep("trgt", id, v) \in GicStep /\ OpStep("trgt", id, v).op \notin InitOps
    BY <2>2, <2>3, <2>4, CallStep
  <2>6. todo'[c] \in Seq(GicStep) /\ Range(todo'[c]) = {OpStep("trgt", id, v)}
    BY <2>1, <2>5, RangeTuple
  <2> QED  BY <2>1, <2>5, <2>6, BeginLists
<1>5. CASE SetRoute(c)
  <2>1. CASE RouteNone(c) \/ RouteHigh(c)
    BY <2>1, FinishLists DEF RouteNone, RouteHigh
  <2>2. CASE RouteLow(c)
    BY <2>2, StayLists DEF RouteLow, Stays, PhaseOK, TmpOK, Doing
  <2> QED  BY <1>5, <2>1, <2>2, RouteEffect
<1>6. CASE CtlrLoad(c)
  <2>1. Stays(c) /\ phase'[c] = "loaded" /\ Doing(c, {"ctlr"}) /\ tmp'[c] = ctlr
    BY <1>6, StayEffect DEF CtlrLoad, GicTypeOK, RegsOK, ListsOK
  <2>2. PhaseOK(c)'
    BY <2>1 DEF PhaseOK, Stays, Doing
  <2>3. TmpOK(c)'
    BY <2>1 DEF TmpOK, Stays, Doing, GicTypeOK, Fields, RegsOK, ListsOK
  <2> QED  BY <2>1, <2>2, <2>3, StayLists
<1>7. CASE Lock(c) \/ SetFlag(c) \/ StoreReg(c) \/ GetPrio(c)
  <2>1. Stays(c) /\ phase'[c] \in {"in", "done"}
    BY <1>7, StayEffect
  <2>2. Doing(c, LockedOps)
    BY <1>7 DEF Lock, SetFlag, StoreReg, GetPrio, Doing, LockedOps
  <2>3. PhaseOK(c)' /\ TmpOK(c)'
    BY <2>1, <2>2 DEF PhaseOK, TmpOK, Stays, Doing
  <2> QED  BY <2>1, <2>3, StayLists
<1>8. CASE GetState(c)
  <2>1. Stays(c) /\ phase'[c] \in {"loaded", "done"} /\ Doing(c, {"get_state"})
    BY <1>8, StayEffect DEF GetState
  <2>2. PhaseOK(c)' /\ TmpOK(c)'
    BY <2>1 DEF PhaseOK, TmpOK, Stays, Doing, LockedOps, Fields
  <2> QED  BY <2>1, <2>2, StayLists
<1>9. CASE LoadReg(c)
  <2>1. Stays(c) /\ phase'[c] = "loaded" /\ Doing(c, Fields)
    BY <1>9, StayEffect DEF LoadReg
  <2> DEFINE op == Head(todo[c])
             whole == SameReg(op.op, Cell(c, op.op, op.id))
  <2>2. tmp'[c] = [l \in whole |-> fields[op.op][l]]
    BY <1>9 DEF LoadReg, GicTypeOK, RegsOK, ListsOK
  <2>3. \A l \in Lines : l \in whole => fields[op.op][l] \in FieldVals(op.op)
    BY <2>1 DEF GicTypeOK, Doing, RegsOK, ListsOK
  <2>4. DOMAIN tmp'[c] = whole /\ \A l \in whole : tmp'[c][l] = fields[op.op][l]
    BY <2>2
  <2>5. op.op \in Fields /\ op = Head(todo'[c]) /\ op.op # "ctlr"
    BY <2>1 DEF Stays, Doing, Fields
  <2>6. PhaseOK(c)'
    BY <2>1 DEF PhaseOK, Stays, Doing
  <2> HIDE DEF op, whole
  <2>7. TmpOK(c)'
    BY <2>3, <2>4, <2>5 DEF TmpOK
  <2> QED  BY <2>1, <2>6, <2>7, StayLists
<1> QED
  BY <1>1, <1>2, <1>3, <1>4, <1>5, <1>6, <1>7, <1>8, <1>9 DEF CpuNext, FinishSteps

(* The other variables after each step.                                    *)
LEMMA RecordDomain ==
  ASSUME DOMAIN asked \subseteq Kinds \X Lines, NEW c \in Cores, NEW id \in IDS, NEW k \in Kinds,
         NEW v, Record(c, k, id, v)
  PROVE  DOMAIN asked' \subseteq Kinds \X Lines
<1>1. <<k, Line(c, id)>> \in Kinds \X Lines
  BY LineFacts
<1> QED  BY <1>1 DEF Record, Noted, Forgotten

(* The history of the races only grows, at the steps it is about.          *)
LEMMA RaceStep ==
  ASSUME GicTypeOK, NEW c \in Cores, CpuNext(c)
  PROVE  /\ early' \in BOOLEAN /\ behind' \in BOOLEAN
         /\ early => early'
         /\ ~Start(c) => early' = early
         /\ ~CtlrStore(c) => behind' = behind
<1> early \in BOOLEAN /\ behind \in BOOLEAN
  BY DEF GicTypeOK
<1>1. CASE Start(c)
  BY <1>1 DEF Start, CtlrStore, Doing
<1>2. CASE CtlrStore(c)
  BY <1>2 DEF CtlrStore
<1>3. CASE ~Start(c) /\ ~CtlrStore(c)
  <2>1. UNCHANGED race
    BY <1>3 DEF CpuNext, CtlrLoad, Wake, ClearPrivate, gicc_init, ClearSpis, SpiClearedTo, LowestPrio,
       NoTargets, Config, FillFields, Call, Lock, SetFlag, LoadReg, StoreReg, GetPrio, GetState,
       Unlock, GetTrgt, SetRoute, SendSgi
  <2> QED  BY <1>3, <2>1 DEF race
<1> QED  BY <1>1, <1>2, <1>3

(* One field of every line is set anew.                                    *)
LEMMA FieldUpdate ==
  ASSUME RegsOK, NEW k \in Fields, NEW f \in [Lines -> FieldVals(k)],
         fields' = [fields EXCEPT ![k] = f]
  PROVE  /\ fields' = [j \in Fields |-> fields'[j]]
         /\ \A j \in Fields : fields'[j] = IF j = k THEN f ELSE fields[j]
         /\ \A j \in Fields : fields'[j] \in [Lines -> FieldVals(j)]
<1>1. fields' = [j \in Fields |-> IF j = k THEN f ELSE fields[j]]
  BY DEF RegsOK
<1>2. \A j \in Fields : fields'[j] = IF j = k THEN f ELSE fields[j]
  BY <1>1
<1>3. fields' = [j \in Fields |-> fields'[j]]
  BY <1>1
<1> QED  BY <1>2, <1>3 DEF RegsOK

(* The lines that a loop over the registers of kind k reaches.             *)
LoopReaches(c, k, from, l) == Dist(c, l) /\ RegOf(k, l[2]) \in from .. RegOf(k, int_num) - 1

LEMMA FillEffect ==
  ASSUME RegsOK, NEW c \in Cores, NEW op, NEW k \in Fields, NEW v \in FieldVals(k), NEW from,
         FillFields(c, op, k, v, from)
  PROVE  /\ fields' = [j \in Fields |-> fields'[j]]
         /\ \A j \in Fields : fields'[j] \in [Lines -> FieldVals(j)]
         /\ \A j \in Fields, l \in Lines :
              fields'[j][l] = IF j = k /\ LoopReaches(c, k, from, l) THEN v ELSE fields[j][l]
<1> DEFINE f == [l \in Lines |-> IF LoopReaches(c, k, from, l) THEN v ELSE fields[k][l]]
<1>1. fields' = [fields EXCEPT ![k] = f]
  BY DEF FillFields, RegsOK, LoopReaches
<1>2. f \in [Lines -> FieldVals(k)]
  BY DEF RegsOK
<1>3. \A l \in Lines : f[l] = IF LoopReaches(c, k, from, l) THEN v ELSE fields[k][l]
  OBVIOUS
<1> HIDE DEF f
<1>4. /\ fields' = [j \in Fields |-> fields'[j]]
      /\ \A j \in Fields : fields'[j] = IF j = k THEN f ELSE fields[j]
      /\ \A j \in Fields : fields'[j] \in [Lines -> FieldVals(j)]
  BY <1>1, <1>2, FieldUpdate
<1> QED  BY <1>3, <1>4

LEMMA ClearPrivateEffect ==
  ASSUME RegsOK, NEW c \in Cores, ClearPrivate(c)
  PROVE  /\ fields' = [j \in Fields |-> fields'[j]]
         /\ \A j \in Fields : fields'[j] \in [Lines -> FieldVals(j)]
         /\ \A j \in Fields, l \in Lines :
              fields'[j][l] = IF j = "prio" /\ l[1] = c THEN LOWEST ELSE fields[j][l]
<1> DEFINE f == [l \in Lines |-> IF l[1] = c THEN LOWEST ELSE fields["prio"][l]]
<1>1. fields' = [fields EXCEPT !["prio"] = f]
  BY DEF ClearPrivate, RegsOK
<1>2. "prio" \in Fields /\ LOWEST \in FieldVals("prio")
  BY DEF Fields, FieldVals, LOWEST
<1>3. f \in [Lines -> FieldVals("prio")]
  BY <1>2 DEF RegsOK
<1>4. \A l \in Lines : f[l] = IF l[1] = c THEN LOWEST ELSE fields["prio"][l]
  OBVIOUS
<1> HIDE DEF f
<1>5. /\ fields' = [j \in Fields |-> fields'[j]]
      /\ \A j \in Fields : fields'[j] = IF j = "prio" THEN f ELSE fields[j]
      /\ \A j \in Fields : fields'[j] \in [Lines -> FieldVals(j)]
  BY <1>1, <1>2, <1>3, FieldUpdate
<1> QED  BY <1>4, <1>5

(* StoreReg writes the loaded copy back with one field replaced.           *)
LEMMA StoreEffect ==
  ASSUME GicTypeOK, NEW c \in Cores, StoreReg(c)
  PROVE  LET op == Head(todo[c])
             cell == Cell(c, op.op, op.id)
             none == op.op = "trgt" /\ LockOf(op.id) = "gicr"
         IN /\ op.op \in Fields /\ op.id \in IDS /\ op.val \in FieldVals(op.op)
            /\ fields' = [j \in Fields |-> fields'[j]]
            /\ \A j \in Fields : fields'[j] \in [Lines -> FieldVals(j)]
            /\ none => fields' = fields /\ asked' = asked
            /\ ~none => /\ Record(c, op.op, op.id, op.val)
                        /\ \A j \in Fields, l \in Lines :
                             fields'[j][l] = IF j # op.op THEN fields[j][l]
                                             ELSE IF l = cell THEN op.val
                                             ELSE IF l \in DOMAIN tmp[c] THEN tmp[c][l] ELSE fields[j][l]
<1> DEFINE op == Head(todo[c])
           cell == Cell(c, op.op, op.id)
           none == op.op = "trgt" /\ LockOf(op.id) = "gicr"
           f == [l \in Lines |-> IF l = cell THEN op.val
                                 ELSE IF l \in DOMAIN tmp[c] THEN tmp[c][l] ELSE fields[op.op][l]]
<1> RegsOK
  BY DEF GicTypeOK
<1>1. Doing(c, Fields) /\ phase[c] = "loaded" /\ todo[c] # << >> /\ op.op \in Fields
  BY DEF StoreReg, Doing
<1>2. op.id \in IDS /\ op.val \in FieldVals(op.op)
  <2>1. op.op \notin InitOps /\ op.op \notin Flags
    BY <1>1 DEF Fields, InitOps, Flags
  <2> QED  BY <1>1, <2>1, HeadFacts DEF Args
<1>3. TmpOK(c)
  BY DEF GicTypeOK, RegsOK, ListsOK
<1>4. \A l \in Lines : l \in DOMAIN tmp[c] => tmp[c][l] \in FieldVals(op.op)
  BY <1>1, <1>3 DEF TmpOK
<1>5. f \in [Lines -> FieldVals(op.op)]
  BY <1>1, <1>2, <1>4 DEF RegsOK
<1>6. \A l \in Lines : f[l] = IF l = cell THEN op.val
                              ELSE IF l \in DOMAIN tmp[c] THEN tmp[c][l] ELSE fields[op.op][l]
  OBVIOUS
<1>7. none => fields' = fields /\ asked' = asked
  BY DEF StoreReg
<1>8. ~none => Record(c, op.op, op.id, op.val) /\ fields' = [fields EXCEPT ![op.op] = f]
  <2>1. SUFFICES ASSUME ~none PROVE Record(c, op.op, op.id, op.val) /\ fields' = [fields EXCEPT ![op.op] = f]
    OBVIOUS
  <2>2. fields' = [fields EXCEPT ![op.op] =
                     [l \in Lines |-> IF l = cell THEN op.val
                                      ELSE IF l \in DOMAIN tmp[c] THEN tmp[c][l] ELSE @[l]]]
    BY <2>1 DEF StoreReg
  <2>3. Record(c, op.op, op.id, op.val)
    BY <2>1 DEF StoreReg
  <2>4. fields' = [fields EXCEPT ![op.op] = f]
    BY <1>1, <2>2 DEF RegsOK
  <2> QED  BY <2>3, <2>4
<1> HIDE DEF f
<1>9. ~none => /\ fields' = [j \in Fields |-> fields'[j]]
               /\ \A j \in Fields : fields'[j] = IF j = op.op THEN f ELSE fields[j]
               /\ \A j \in Fields : fields'[j] \in [Lines -> FieldVals(j)]
  BY <1>1, <1>5, <1>8, FieldUpdate
<1> HIDE DEF none, cell, op
<1>10. /\ fields' = [j \in Fields |-> fields'[j]]
       /\ \A j \in Fields : fields'[j] \in [Lines -> FieldVals(j)]
  BY <1>7, <1>9 DEF RegsOK
<1>11. ~none => \A j \in Fields, l \in Lines :
                  fields'[j][l] = IF j # op.op THEN fields[j][l]
                                  ELSE IF l = cell THEN op.val
                                  ELSE IF l \in DOMAIN tmp[c] THEN tmp[c][l] ELSE fields[j][l]
  BY <1>6, <1>9
<1> QED  BY <1>1, <1>2, <1>7, <1>8, <1>10, <1>11 DEF none, cell, op

LEMMA RegsStep ==
  ASSUME GicTypeOK, NEW c \in Cores, CpuNext(c)
  PROVE  RegsOK'
<1> RegsOK
  BY DEF GicTypeOK
<1>1. CASE Start(c)
  BY <1>1 DEF Start, RegsOK, regs
<1>2. CASE CtlrLoad(c)
  BY <1>2 DEF CtlrLoad, RegsOK, regs
<1>3. CASE CtlrStore(c)
  <2>1. Doing(c, {"ctlr"}) /\ todo[c] # << >> /\ Head(todo[c]).op = "ctlr" /\ phase[c] = "loaded"
    BY <1>3 DEF CtlrStore, Doing
  <2>2. Head(todo[c]).val \subseteq Bits
    BY <2>1, HeadFacts DEF Args, Flags, Fields
  <2>3. TmpOK(c)
    BY DEF GicTypeOK, RegsOK, ListsOK
  <2>4. tmp[c] \subseteq Bits
    BY <2>1, <2>3 DEF TmpOK
  <2>5. ctlr' \subseteq Bits
    BY <1>3, <2>2, <2>4 DEF CtlrStore
  <2> QED  BY <1>3, <2>5 DEF CtlrStore, RegsOK
<1>4. CASE Wake(c)
  BY <1>4 DEF Wake, RegsOK
<1>5. CASE ClearPrivate(c)
  <2>1. /\ fields' = [j \in Fields |-> fields'[j]]
        /\ \A j \in Fields : fields'[j] \in [Lines -> FieldVals(j)]
    BY <1>5, ClearPrivateEffect
  <2>2. flags' \in [Flags -> SUBSET Lines]
    BY <1>5 DEF ClearPrivate, RegsOK
  <2>3. DOMAIN asked' \subseteq Kinds \X Lines
    BY <1>5 DEF ClearPrivate, Forgotten, RegsOK
  <2> QED  BY <1>5, <2>1, <2>2, <2>3 DEF ClearPrivate, RegsOK
<1>6. CASE gicc_init(c)
  BY <1>6 DEF gicc_init, RegsOK
<1>7. CASE ClearSpis(c)
  <2>1. flags' \in [Flags -> SUBSET Lines]
    BY <1>7 DEF ClearSpis, SpiClearedTo, RegsOK
  <2>2. DOMAIN asked' \subseteq Kinds \X Lines
    BY <1>7 DEF ClearSpis, SpiClearedTo, Forgotten, RegsOK
  <2> QED  BY <1>7, <2>1, <2>2 DEF ClearSpis, SpiClearedTo, RegsOK
<1>8. CASE LowestPrio(c)
  <2>1. "prio" \in Fields /\ LOWEST \in FieldVals("prio")
    BY DEF Fields, FieldVals, LOWEST
  <2>2. FillFields(c, "lowest_prio", "prio", LOWEST, FirstReg)
    BY <1>8 DEF LowestPrio
  <2>3. /\ fields' = [j \in Fields |-> fields'[j]]
        /\ \A j \in Fields : fields'[j] \in [Lines -> FieldVals(j)]
    BY <2>1, <2>2, FillEffect
  <2>4. DOMAIN asked' \subseteq Kinds \X Lines
    BY <2>2 DEF FillFields, Forgotten, RegsOK
  <2> QED  BY <2>2, <2>3, <2>4 DEF FillFields, RegsOK
<1>9. CASE NoTargets(c)
  <2>1. "trgt" \in Fields /\ {} \in FieldVals("trgt")
    BY DEF Fields, FieldVals
  <2>2. FillFields(c, "no_targets", "trgt", {}, FirstReg)
    BY <1>9 DEF NoTargets
  <2>3. /\ fields' = [j \in Fields |-> fields'[j]]
        /\ \A j \in Fields : fields'[j] \in [Lines -> FieldVals(j)]
    BY <2>1, <2>2, FillEffect
  <2>4. DOMAIN asked' \subseteq Kinds \X Lines
    BY <2>2 DEF FillFields, Forgotten, RegsOK
  <2> QED  BY <2>2, <2>3, <2>4 DEF FillFields, RegsOK
<1>10. CASE Config(c)
  <2>1. "cfg" \in Fields /\ 2 \in FieldVals("cfg")
    BY DEF Fields, FieldVals
  <2>2. FillFields(c, "config", "cfg", 2, 0)
    BY <1>10 DEF Config
  <2>3. /\ fields' = [j \in Fields |-> fields'[j]]
        /\ \A j \in Fields : fields'[j] \in [Lines -> FieldVals(j)]
    BY <2>1, <2>2, FillEffect
  <2>4. DOMAIN asked' \subseteq Kinds \X Lines
    BY <2>2 DEF FillFields, Forgotten, RegsOK
  <2> QED  BY <2>2, <2>3, <2>4 DEF FillFields, RegsOK
<1>11. CASE Call(c)
  <2>1. calls' \in 0 .. MAX_CALLS
    BY <1>11, GicAssumption DEF Call, RegsOK
  <2> QED  BY <1>11, <2>1 DEF Call, RegsOK, regs
<1>12. CASE Lock(c)
  <2>1. locks' \in [{"gicd", "gicr"} -> Cores \cup {NoCpu}]
    BY <1>12 DEF Lock, RegsOK
  <2> QED  BY <1>12, <2>1 DEF Lock, RegsOK, regs
<1>13. CASE Unlock(c)
  <2>1. locks' \in [{"gicd", "gicr"} -> Cores \cup {NoCpu}]
    BY <1>13 DEF Unlock, RegsOK
  <2> QED  BY <1>13, <2>1 DEF Unlock, RegsOK, regs
<1>14. CASE SetFlag(c)
  <2> DEFINE op == Head(todo[c])
             cell == Cell(c, op.op, op.id)
  <2>1. todo[c] # << >> /\ op.op \in Flags /\ op.op \notin InitOps
    BY <1>14 DEF SetFlag, Doing, Flags, InitOps
  <2>2. op.id \in IDS /\ op.op \in Kinds
    BY <2>1, HeadFacts DEF Kinds
  <2>3. Record(c, op.op, op.id, op.val)
    BY <1>14 DEF SetFlag
  <2>4. DOMAIN asked' \subseteq Kinds \X Lines
    BY <2>2, <2>3, RecordDomain DEF RegsOK
  <2>5. \E cells : flags' = [flags EXCEPT ![op.op] = IF op.val THEN @ \cup (cells \cap Lines)
                                                              ELSE @ \ cells]
    BY <1>14 DEF SetFlag
  <2> HIDE DEF op
  <2>6. flags' \in [Flags -> SUBSET Lines]
    BY <2>1, <2>5 DEF RegsOK
  <2> QED  BY <1>14, <2>4, <2>6 DEF SetFlag, RegsOK
<1>15. CASE LoadReg(c)
  BY <1>15 DEF LoadReg, RegsOK, regs
<1>16. CASE StoreReg(c)
  <2> DEFINE op == Head(todo[c])
             none == op.op = "trgt" /\ LockOf(op.id) = "gicr"
  <2>1. /\ op.op \in Kinds /\ op.id \in IDS
        /\ fields' = [j \in Fields |-> fields'[j]]
        /\ \A j \in Fields : fields'[j] \in [Lines -> FieldVals(j)]
        /\ none => asked' = asked
        /\ ~none => Record(c, op.op, op.id, op.val)
    BY <1>16, StoreEffect DEF Kinds
  <2>2. DOMAIN asked' \subseteq Kinds \X Lines
    BY <2>1, RecordDomain DEF RegsOK
  <2> HIDE DEF op, none
  <2>3. UNCHANGED <<version, ctlr, asleep, iface, flags, route, locks, up, ret, calls>>
    BY <1>16, Zenon DEF StoreReg
  <2> QED  BY <2>1, <2>2, <2>3 DEF RegsOK
<1>17. CASE GetPrio(c)
  <2>1. ASSUME NEW l PROVE PrioAt(l) \in Nat
    <3>1. FieldVals("prio") \subseteq Nat /\ "prio" \in Fields
      BY DEF FieldVals, LOWEST, Fields
    <3>2. fields["prio"] \in [Lines -> FieldVals("prio")]
      BY <3>1, Zenon DEF RegsOK
    <3> HIDE DEF RegsOK
    <3> QED  BY <3>1, <3>2 DEF PrioAt
  <2>2. ret' \in [Cores -> Nat]
    BY <1>17, <2>1 DEF GetPrio, RegsOK
  <2> QED  BY <1>17, <2>2 DEF GetPrio, RegsOK, regs
<1>18. CASE GetState(c)
  <2>1. ret' \in [Cores -> Nat]
    BY <1>18 DEF GetState, RegsOK
  <2> QED  BY <1>18, <2>1 DEF GetState, RegsOK, regs
<1>19. CASE GetTrgt(c)
  BY <1>19 DEF GetTrgt, RegsOK, regs
<1>20. CASE SetRoute(c)
  <2> DEFINE op == Head(todo[c])
             l == Line(c, op.id)
  <2>1. /\ todo[c] # << >> /\ op.op = "route" /\ op.op \notin InitOps
        /\ UNCHANGED <<version, ctlr, asleep, iface, flags, fields, locks, up, tmp, ret, calls>>
    BY <1>20 DEF SetRoute, Doing, InitOps
  <2>2. op.id \in IDS /\ op.val \in Cores
    BY <2>1, HeadFacts DEF Args, Flags, Fields
  <2>3. l \in Lines /\ (~gic_is_priv(op.id) => l \in SharedLines) /\ <<"route", l>> \in Kinds \X Lines
    BY <2>2, LineFacts DEF SharedLines, gic_is_priv, GIC_CPU_PRIV, Kinds
  <2>4. PhaseOK(c)
    BY DEF GicTypeOK, RegsOK, ListsOK
  <2>5. CASE RouteNone(c)
    BY <2>1, <2>5 DEF RouteNone, RegsOK
  <2>6. CASE RouteLow(c)
    <3>1. l \in SharedLines /\ route' = [route EXCEPT ![l].lo = op.val] /\ asked' = Noted(<<"route", l>>, op.val)
      BY <2>3, <2>6 DEF RouteLow
    <3> HIDE DEF l, op
    <3>2. route' \in [SharedLines -> [lo : Cores \cup {NoCpu}, hi : {0, 1}]]
      BY <2>2, <3>1 DEF RegsOK
    <3>3. DOMAIN asked' \subseteq Kinds \X Lines
      BY <2>3, <3>1 DEF Noted, RegsOK
    <3> QED  BY <2>1, <3>2, <3>3 DEF RegsOK
  <2>7. CASE RouteHigh(c)
    <3>1. l \in SharedLines /\ route' = [route EXCEPT ![l].hi = 0] /\ asked' = asked
      BY <2>3, <2>4, <2>7 DEF RouteHigh, PhaseOK
    <3> HIDE DEF l, op
    <3>2. route' \in [SharedLines -> [lo : Cores \cup {NoCpu}, hi : {0, 1}]]
      BY <3>1 DEF RegsOK
    <3> QED  BY <2>1, <3>1, <3>2 DEF RegsOK
  <2> QED  BY <1>20, <2>5, <2>6, <2>7, RouteEffect
<1>21. CASE SendSgi(c)
  <2> DEFINE op == Head(todo[c])
             num == op.id % GIC_MAX_SGIS
  <2>1. /\ todo[c] # << >> /\ op.op = "sgi" /\ op.op \notin InitOps
        /\ UNCHANGED <<version, ctlr, asleep, iface, fields, route, locks, up, tmp, ret, calls>>
    BY <1>21 DEF SendSgi, Doing, InitOps
  <2>2. op.id \in IDS /\ op.val \in Cores
    BY <2>1, HeadFacts DEF Args, Flags, Fields
  <2>3. CASE UNCHANGED <<flags, asked>>
    BY <2>1, <2>3 DEF RegsOK
  <2>4. CASE ~UNCHANGED <<flags, asked>>
    <3>1. /\ Line(op.val, num) \in Lines
          /\ flags' = [flags EXCEPT !["pend"] = @ \cup {Line(op.val, num)}]
          /\ Record(op.val, "pend", num, TRUE)
      BY <1>21, <2>4 DEF SendSgi
    <3>2. num \in IDS
      <4>1. Line(op.val, num)[2] = num
        BY DEF Line
      <4> QED  BY <3>1, <4>1, LinesFacts
    <3> HIDE DEF num, op
    <3>3. DOMAIN asked' \subseteq Kinds \X Lines
      BY <2>2, <3>1, <3>2, RecordDomain DEF RegsOK, Kinds, Flags
    <3>4. flags' \in [Flags -> SUBSET Lines]
      BY <3>1 DEF RegsOK, Flags
    <3> QED  BY <2>1, <3>3, <3>4 DEF RegsOK
  <2> QED  BY <2>3, <2>4
<1> QED
  BY <1>1, <1>2, <1>3, <1>4, <1>5, <1>6, <1>7, <1>8, <1>9, <1>10, <1>11, <1>12, <1>13, <1>14,
     <1>15, <1>16, <1>17, <1>18, <1>19, <1>20, <1>21 DEF CpuNext

(* Out of reset no CPU is in gic_init.                                     *)
LEMMA GicInitType == GicInit => GicTypeOK
<1> SUFFICES ASSUME GicInit PROVE GicTypeOK
  OBVIOUS
<1>1. /\ todo = [c \in Cores |-> << >>] /\ phase = [c \in Cores |-> "out"]
      /\ tmp = [c \in Cores |-> << >>] /\ up = {}
  BY DEF GicInit
<1>2. ASSUME NEW c \in Cores PROVE ListOK(c) /\ PhaseOK(c) /\ TmpOK(c)
  <2>1. todo[c] = << >> /\ phase[c] = "out"
    BY <1>1
  <2>2. << >> \in Seq(GicStep) /\ Range(<< >>) = {}
    BY RangeTuple
  <2> QED  BY <2>1, <2>2 DEF ListOK, PhaseOK, TmpOK, Steps
<1>3. PICK junk \in BOOLEAN :
        /\ flags = [k \in Flags |-> IF junk THEN Lines ELSE {}]
        /\ fields = [prio |-> [l \in Lines |-> IF junk THEN 1 ELSE 0],
                     trgt |-> [l \in Lines |-> IF junk THEN Cores ELSE {}],
                     cfg  |-> [l \in Lines |-> IF junk THEN 3 ELSE 0]]
        /\ route = [l \in {x \in Lines : x[1] = NoCpu} |->
                      [lo |-> NoCpu, hi |-> IF junk THEN 1 ELSE 0]]
  BY DEF GicInit
<1>4. /\ fields = [k \in Fields |-> fields[k]]
      /\ \A k \in Fields : fields[k] \in [Lines -> FieldVals(k)]
  <2>1. /\ fields["prio"] = [l \in Lines |-> IF junk THEN 1 ELSE 0]
        /\ fields["trgt"] = [l \in Lines |-> IF junk THEN Cores ELSE {}]
        /\ fields["cfg"] = [l \in Lines |-> IF junk THEN 3 ELSE 0]
    BY <1>3
  <2>2. fields = [k \in Fields |-> fields[k]]
    BY <1>3 DEF Fields
  <2>3. /\ fields["prio"] \in [Lines -> 0 .. LOWEST]
        /\ fields["cfg"] \in [Lines -> 0 .. 3]
    BY <2>1 DEF LOWEST
  <2>4. fields["trgt"] \in [Lines -> SUBSET Cores]
    BY <2>1
  <2>5. /\ FieldVals("prio") = 0 .. LOWEST /\ FieldVals("trgt") = SUBSET Cores
        /\ FieldVals("cfg") = 0 .. 3
    BY DEF FieldVals
  <2> QED  BY <2>2, <2>3, <2>4, <2>5 DEF Fields
<1>5. flags \in [Flags -> SUBSET Lines]
  BY <1>3
<1>6. route \in [SharedLines -> [lo : Cores \cup {NoCpu}, hi : {0, 1}]]
  BY <1>3 DEF SharedLines
<1>7. /\ locks \in [{"gicd", "gicr"} -> Cores \cup {NoCpu}]
      /\ ret \in [Cores -> Nat] /\ calls \in 0 .. MAX_CALLS
      /\ version \in {2, 3} /\ ctlr \subseteq Bits
      /\ asleep \subseteq Cores /\ iface \subseteq Cores
  BY GicAssumption DEF GicInit
<1>8. DOMAIN asked \subseteq Kinds \X Lines
  BY DEF GicInit
<1>9. early \in BOOLEAN /\ behind \in BOOLEAN
  <2>1. early = FALSE /\ behind = FALSE
    BY DEF GicInit
  <2> QED  BY <2>1
<1>10. RegsOK /\ ListsOK
  BY <1>1, <1>2, <1>4, <1>5, <1>6, <1>7, <1>8 DEF RegsOK, ListsOK
<1> QED  BY <1>1, <1>9, <1>10 DEF GicTypeOK

LEMMA FrameStep ==
  ASSUME GicTypeOK, NEW c \in Cores, CpuNext(c)
  PROVE  Frame(c) /\ up \subseteq up' /\ up' \subseteq up \cup {c}
<1>1. CASE FinishSteps(c)
  BY <1>1, FinishEffect DEF Finishes
<1>2. CASE Start(c) \/ Call(c) \/ GetTrgt(c)
  BY <1>2, BeginEffect DEF Begins
<1>3. CASE SetRoute(c)
  BY <1>3, RouteEffect DEF RouteNone, RouteLow, RouteHigh, Finishes, Stays
<1>4. CASE CtlrLoad(c) \/ Lock(c) \/ SetFlag(c) \/ LoadReg(c) \/ StoreReg(c) \/ GetPrio(c) \/ GetState(c)
  BY <1>4, StayEffect DEF Stays
<1> QED  BY <1>1, <1>2, <1>3, <1>4 DEF CpuNext, FinishSteps

LEMMA GicTypeStep ==
  ASSUME GicTypeOK, NEW c \in Cores, CpuNext(c)
  PROVE  GicTypeOK'
  BY ListsStep, RegsStep, RaceStep, FrameStep DEF GicTypeOK, Frame

(* Every register, lock and list of steps of the GIC drivers keeps its     *)
(* shape, in any start order; only CPU 0 runs gicd_init.                   *)
THEOREM GicTypeCorrect == GicSpec => []GicTypeOK
<1>1. GicTypeOK /\ [GicNext]_gicVars => GicTypeOK'
  <2> SUFFICES ASSUME GicTypeOK, [GicNext]_gicVars PROVE GicTypeOK'
    OBVIOUS
  <2>1. CASE GicNext
    BY <2>1, GicTypeStep DEF GicNext
  <2>2. CASE UNCHANGED gicVars
    BY <2>2 DEF gicVars, regs, local, race, GicTypeOK, RegsOK, ListsOK, ListOK, PhaseOK, TmpOK, Steps, Doing
  <2> QED  BY <2>1, <2>2
<1> QED  BY <1>1, GicInitType, PTL DEF GicSpec

-----------------------------------------------------------------------------
(* The lists as sets of steps, before and after a step.                    *)

LEMMA Zero == 0 \in Cores /\ NoCpu \notin Cores
  BY GicAssumption DEF Cores, NoCpu

LEMMA ReadyIs == \A c \in Cores : Ready(c) <=> c \in up /\ \A s \in Steps(c) : s.op \notin InitOps
  BY DEF Ready, Steps, Range

LEMMA OthersKeepSteps ==
  ASSUME NEW c \in Cores, Frame(c), NEW d \in Cores, d # c
  PROVE  Steps(d)' = Steps(d)
  BY DEF Frame, Steps

LEMMA FinishedSteps ==
  ASSUME GicTypeOK, NEW c \in Cores, Finishes(c)
  PROVE  /\ Steps(c)' \subseteq Steps(c)
         /\ Steps(c) \subseteq Steps(c)' \cup {Head(todo[c])}
  BY HeadFacts DEF Finishes, Steps

LEMMA StayedSteps ==
  ASSUME NEW c \in Cores, Stays(c)
  PROVE  Steps(c)' = Steps(c)
  BY DEF Stays, Steps

(* A CPU that executes a step outside gic_init has none of gic_init left.  *)
LEMMA OneKind ==
  ASSUME GicTypeOK, NEW c \in Cores, todo[c] # << >>
  PROVE  /\ c \in up
         /\ Head(todo[c]).op \notin InitOps => Ready(c)
         /\ Head(todo[c]).op \in InitOps => ~Ready(c)
<1>1. ListOK(c) /\ Head(todo[c]) \in Steps(c) /\ c \in up
  BY HeadFacts DEF GicTypeOK, ListsOK
<1> QED  BY <1>1, ReadyIs DEF ListOK

(* The steps that are no part of gic_init.                                 *)
CallSteps(c) ==
  \/ Call(c) \/ Lock(c) \/ SetFlag(c) \/ LoadReg(c) \/ StoreReg(c) \/ GetPrio(c) \/ GetState(c)
  \/ Unlock(c) \/ GetTrgt(c) \/ SetRoute(c) \/ SendSgi(c)

LEMMA CallersReady ==
  ASSUME GicTypeOK, NEW c \in Cores, CallSteps(c)
  PROVE  Ready(c) /\ (~Call(c) => Head(todo[c]).op \notin InitOps)
<1>1. CASE Call(c)
  BY <1>1 DEF Call
<1>2. CASE ~Call(c)
  <2>1. Doing(c, LockedOps \cup {"get_trgt", "route", "sgi"})
    BY <1>2 DEF CallSteps, Lock, SetFlag, LoadReg, StoreReg, GetPrio, GetState, Unlock, GetTrgt,
                SetRoute, SendSgi, Doing, LockedOps
  <2>2. todo[c] # << >> /\ Head(todo[c]).op \notin InitOps
    BY <2>1 DEF Doing, LockedOps, Flags, Fields, InitOps
  <2> QED  BY <2>2, OneKind
<1> QED  BY <1>1, <1>2

(* A CPU that has returned from gic_init never runs it again.              *)
LEMMA ReadyStays ==
  ASSUME GicTypeOK, NEW c \in Cores, CpuNext(c), NEW d \in Cores, Ready(d)
  PROVE  Ready(d)'
<1>1. d \in up /\ (\A s \in Steps(d) : s.op \notin InitOps) /\ version \in {2, 3}
  BY ReadyIs DEF GicTypeOK, RegsOK
<1>2. Frame(c) /\ up \subseteq up'
  BY FrameStep
<1>3. SUFFICES \A s \in Steps(d)' : s.op \notin InitOps
  BY <1>1, <1>2 DEF Ready, Steps, Range
<1>4. CASE d # c
  BY <1>1, <1>2, <1>4, OthersKeepSteps
<1>5. CASE d = c /\ FinishSteps(c)
  BY <1>1, <1>5, FinishEffect, FinishedSteps
<1>6. CASE d = c /\ Start(c)
  BY <1>1, <1>6, BeginEffect
<1>7. CASE d = c /\ Call(c)
  BY <1>1, <1>7, BeginEffect, CallsFacts DEF Steps
<1>8. CASE d = c /\ GetTrgt(c)
  <2> DEFINE x == OpStep("trgt", Head(todo[c]).id, fields["trgt"][Line(c, Head(todo[c]).id)] \cup {c})
  <2>1. todo'[c] = <<x>>
    BY <1>8, BeginEffect
  <2>2. x.op \notin InitOps
    BY DEF OpStep, InitOps
  <2> HIDE DEF x
  <2>3. Range(<<x>>) = {x}
    BY RangeTuple
  <2> QED  BY <1>8, <2>1, <2>2, <2>3 DEF Steps
<1>9. CASE d = c /\ SetRoute(c)
  BY <1>1, <1>9, RouteEffect, FinishedSteps, StayedSteps DEF RouteNone, RouteLow, RouteHigh
<1>10. CASE d = c /\ (CtlrLoad(c) \/ Lock(c) \/ SetFlag(c) \/ LoadReg(c) \/ StoreReg(c) \/ GetPrio(c) \/ GetState(c))
  BY <1>1, <1>10, StayEffect, StayedSteps
<1> QED
  BY <1>4, <1>5, <1>6, <1>7, <1>8, <1>9, <1>10 DEF CpuNext, FinishSteps

-----------------------------------------------------------------------------
(* The order of the CPUs.                                                  *)

LEMMA UpKept ==
  ASSUME GicTypeOK, NEW c \in Cores, CpuNext(c), ~Start(c)
  PROVE  up' = up
  BY BeginEffect, FinishEffect, StayEffect, RouteEffect
     DEF CpuNext, FinishSteps, Finishes, Stays, RouteNone, RouteLow, RouteHigh

(* Who runs a loop of gicd_init is CPU 0, alone unless somebody was early. *)
LEMMA EarlyFacts ==
  ASSUME GicTypeOK, EarlyOK, NEW c \in Cores, todo[c] # << >>, Head(todo[c]).op \in DistOps
  PROVE  c = 0 /\ ~Ready(0) /\ (~early => up \subseteq {0})
<1>1. Head(todo[c]) \in Steps(c) /\ ListOK(c) /\ Head(todo[c]).op \in InitOps
  BY HeadFacts DEF GicTypeOK, ListsOK, DistOps, InitOps
<1>2. c = 0
  BY <1>1 DEF ListOK
<1>3. ~Ready(0)
  BY <1>1, <1>2, OneKind
<1> QED  BY <1>2, <1>3 DEF EarlyOK

LEMMA EarlyStep ==
  ASSUME GicTypeOK, EarlyOK, NEW c \in Cores, CpuNext(c)
  PROVE  EarlyOK'
<1> SUFFICES ASSUME ~early', ~Ready(0)' PROVE up' \subseteq {0}
  BY DEF EarlyOK
<1>1. ~early /\ ~Ready(0)
  BY RaceStep, ReadyStays, Zero
<1>2. up \subseteq {0}
  BY <1>1 DEF EarlyOK
<1>3. CASE Start(c)
  BY <1>1, <1>2, <1>3 DEF Start
<1>4. CASE ~Start(c)
  BY <1>2, <1>4, UpKept
<1> QED  BY <1>3, <1>4

-----------------------------------------------------------------------------
(* GICD_CTLR.                                                              *)

(* Who falls behind was early: CPU 0 enables the distributor in gic_init.  *)
LEMMA BehindStep ==
  ASSUME GicTypeOK, EarlyOK, CtlrOK, NEW c \in Cores, CpuNext(c)
  PROVE  behind' => early'
<1>1. CASE ~CtlrStore(c)
  BY <1>1, RaceStep DEF CtlrOK
<1>2. CASE CtlrStore(c)
  <2>1. Doing(c, {"ctlr"}) /\ behind' = (behind \/ Overtakes(c)) /\ early' = early
    BY <1>2 DEF CtlrStore
  <2>2. ASSUME Overtakes(c) PROVE early
    <3>1. PICK d \in Cores \ {c} : Doing(d, {"ctlr"})
      BY <2>2 DEF Overtakes
    <3>2. c = 0 /\ d # 0 /\ d \in up
      BY <2>2, <3>1, OneKind DEF Overtakes, Enables, Doing
    <3>3. ~Ready(0)
      BY <2>1, <3>2, OneKind DEF Doing, InitOps
    <3> QED  BY <3>2, <3>3 DEF EarlyOK
  <2> QED  BY <2>1, <2>2 DEF CtlrOK
<1> QED  BY <1>1, <1>2

LEMMA CtlrStep ==
  ASSUME GicTypeOK, EarlyOK, CtlrOK, NEW c \in Cores, CpuNext(c)
  PROVE  CtlrOK'
<1> DEFINE off == \A s \in Steps(0) : ~TurnsOn(s)
           mine(d) == phase[d] = "loaded" /\ Doing(d, {"ctlr"})
<1> SUFFICES ASSUME 0 \in up', ~behind', off'
             PROVE  /\ ctlr' \cap On # {}
                    /\ \A d \in Cores : mine(d)' => tmp'[d] \cap On # {}
  BY BehindStep DEF CtlrOK, Doing
<1>1. Frame(c) /\ up \subseteq up' /\ up' \subseteq up \cup {c} /\ version \in {2, 3}
  BY FrameStep DEF GicTypeOK, RegsOK
<1>2. \A d \in Cores \ {c} : mine(d)' <=> mine(d)
  BY <1>1 DEF Frame, Doing
<1>3. ASSUME CtlrStore(c)
      PROVE  /\ mine(c) /\ ctlr' = tmp[c] \cup Head(todo[c]).val
             /\ Finishes(c) /\ ~mine(c)'
  BY <1>3, FinishEffect DEF CtlrStore, Finishes, FinishSteps
<1>4. ASSUME ~CtlrStore(c) PROVE ctlr' = ctlr
  BY <1>4 DEF CpuNext, Start, CtlrLoad, Wake, ClearPrivate, gicc_init, ClearSpis, SpiClearedTo,
              LowestPrio, NoTargets, Config, FillFields, Call, Lock, SetFlag, LoadReg, StoreReg,
              GetPrio, GetState, Unlock, GetTrgt, SetRoute, SendSgi, regs
<1>5. ASSUME ~off PROVE CtlrStore(c) /\ c = 0 /\ TurnsOn(Head(todo[c])) /\ ~Ready(0)
  <2>1. PICK s \in Steps(0) : TurnsOn(s)
    BY <1>5
  <2>2. s.op \in InitOps
    BY <2>1 DEF TurnsOn, InitOps
  <2>3. ~Ready(0)
    BY <2>1, <2>2, ReadyIs, Zero
  <2>4. s \notin Steps(0)'
    BY <2>1
  <2>5. c = 0
    BY <1>1, <2>1, <2>4, OthersKeepSteps, Zero
  <2>6. ~CallSteps(c)
    BY <2>3, <2>5, CallersReady
  <2>7. ~Start(c)
    <3>1. todo[c] # << >>
      BY <2>1, <2>5, RangeTuple DEF Steps
    <3> QED  BY <3>1, OneKind, BeginEffect
  <2>8. ~CtlrLoad(c)
    BY <2>1, <2>4, <2>5, StayEffect, StayedSteps
  <2>9. FinishSteps(c) /\ ~Unlock(c) /\ ~SendSgi(c)
    BY <2>6, <2>7, <2>8 DEF CpuNext, CallSteps, FinishSteps
  <2>10. s = Head(todo[c])
    BY <2>1, <2>4, <2>5, <2>9, FinishEffect, FinishedSteps
  <2>11. CtlrStore(c)
    <3>1. Head(todo[c]).op = "ctlr"
      BY <2>1, <2>10 DEF TurnsOn
    <3> QED
      BY <2>9, <3>1 DEF FinishSteps, Wake, ClearPrivate, gicc_init, ClearSpis, SpiClearedTo,
              LowestPrio, NoTargets, Config, FillFields, Doing
  <2> QED  BY <2>1, <2>3, <2>5, <2>10, <2>11
<1>6. CASE ~off
  <2>1. ctlr' \cap On # {}
    BY <1>3, <1>5, <1>6 DEF TurnsOn
  <2>2. ASSUME NEW d \in Cores, mine(d)' PROVE FALSE
    <3>1. d # 0 /\ mine(d)
      BY <1>2, <1>3, <1>5, <1>6, <2>2
    <3>2. c = 0 /\ Enables(c)
      BY <1>5, <1>6 DEF Enables, TurnsOn, On
    <3>3. Overtakes(c)
      BY <3>1, <3>2 DEF Overtakes
    <3> QED  BY <1>5, <1>6, <3>3 DEF CtlrStore
  <2> QED  BY <2>1, <2>2
<1>7. CASE off
  <2>1. 0 \in up
    <3>1. ASSUME 0 \notin up PROVE FALSE
      <4>1. c = 0 /\ Start(c)
        BY <1>1, <3>1, UpKept
      <4>2. Steps(0)' = Range(gic_init(0))
        BY <4>1, BeginEffect DEF Steps
      <4> QED  BY <1>1, <4>1, <4>2, gic_initFacts
    <3> QED  BY <3>1
  <2>2. ~behind
    BY RaceStep DEF CtlrStore
  <2>3. /\ ctlr \cap On # {}
        /\ \A d \in Cores : mine(d) => tmp[d] \cap On # {}
    BY <1>7, <2>1, <2>2 DEF CtlrOK
  <2>4. ctlr' \cap On # {}
    BY <1>3, <1>4, <2>3
  <2>5. ASSUME NEW d \in Cores, mine(d)' PROVE tmp'[d] \cap On # {}
    <3>1. CASE d # c
      BY <1>1, <1>2, <2>3, <2>5, <3>1 DEF Frame
    <3>2. CASE d = c /\ CtlrLoad(c)
      <4>1. tmp'[c] = ctlr /\ c \in up
        BY <3>2, OneKind DEF CtlrLoad, Doing, GicTypeOK
      <4> QED  BY <2>3, <3>2, <4>1
    <3>3. CASE d = c /\ ~CtlrLoad(c)
      <4>1. phase'[c] = "loaded" /\ Head(todo'[c]).op = "ctlr"
        BY <2>5, <3>3 DEF Doing
      <4>2. ~LoadReg(c) /\ ~GetState(c)
        BY <4>1, StayEffect DEF LoadReg, GetState, Doing, Stays, Fields
      <4> QED
        BY <3>3, <4>1, <4>2, BeginEffect, FinishEffect, StayEffect, RouteEffect
           DEF CpuNext, FinishSteps, Finishes, Begins, RouteNone, RouteLow, RouteHigh
    <3> QED  BY <3>1, <3>2, <3>3
  <2> QED  BY <2>4, <2>5
<1> QED  BY <1>6, <1>7

-----------------------------------------------------------------------------
(* Enable, pending and active bits.                                        *)

(* A step of gic_init is passed when it is finished and not otherwise.     *)
LEMMA PassedBefore ==
  ASSUME GicTypeOK, NEW c \in Cores, CpuNext(c), NEW d \in Cores, NEW op \in InitOps,
         Passed(d, op)'
  PROVE  \/ Passed(d, op)
         \/ d = c /\ FinishSteps(c) /\ Doing(c, {op})
         \/ d = c /\ \A s \in Range(gic_init(c)) : s.op # op
<1>1. d \in up' /\ (\A s \in Steps(d)' : s.op # op)
  BY DEF Passed
<1>2. Frame(c) /\ up' \subseteq up \cup {c}
  BY FrameStep
<1>3. CASE d # c
  BY <1>1, <1>2, <1>3, OthersKeepSteps DEF Passed
<1>4. CASE d = c /\ Start(c)
  BY <1>1, <1>4, BeginEffect DEF Steps
<1>5. CASE d = c /\ CallSteps(c)
  BY <1>5, CallersReady, ReadyIs DEF Passed
<1>6. CASE d = c /\ CtlrLoad(c)
  BY <1>1, <1>6, StayEffect, StayedSteps DEF Passed, Stays
<1>7. CASE d = c /\ FinishSteps(c)
  BY <1>1, <1>7, FinishEffect, FinishedSteps DEF Passed, Doing, Finishes
<1> QED
  BY <1>3, <1>4, <1>5, <1>6, <1>7 DEF CpuNext, FinishSteps, CallSteps

(* The history of a line is not touched.                                   *)
SameAsked(k, l) ==
  /\ <<k, l>> \in DOMAIN asked' <=> <<k, l>> \in DOMAIN asked
  /\ <<k, l>> \in DOMAIN asked => asked'[<<k, l>>] = asked[<<k, l>>]

LEMMA FlagKept ==
  ASSUME NEW k, NEW l, FlagOK(k, l), SameAsked(k, l),
         l \in flags'[k] <=> l \in flags[k], FlagsCleared(l)' => FlagsCleared(l)
  PROVE  FlagOK(k, l)'
<1>1. (l \in flags[k])' = (l \in flags[k])
  OBVIOUS
<1> QED  BY <1>1 DEF FlagOK, SameAsked, AsAsked

(* What Forgotten leaves and what it takes.                                *)
LEMMA ForgottenKeeps ==
  ASSUME NEW K, NEW R, asked' = Forgotten(K, R), NEW k, NEW l, k \notin K \/ l \notin R
  PROVE  SameAsked(k, l)
<1>1. <<k, l>>[1] = k /\ <<k, l>>[2] = l
  OBVIOUS
<1> QED  BY <1>1 DEF Forgotten, SameAsked

LEMMA ForgottenDrops ==
  ASSUME NEW K, NEW R, asked' = Forgotten(K, R), NEW k \in K, NEW l \in R
  PROVE  <<k, l>> \notin DOMAIN asked'
<1>1. <<k, l>>[1] = k /\ <<k, l>>[2] = l
  OBVIOUS
<1> QED  BY <1>1 DEF Forgotten

LEMMA RecordKeeps ==
  ASSUME NEW c, NEW k, NEW id, NEW v, Record(c, k, id, v), NEW j, NEW l,
         j # k \/ IF version = 3 /\ id = 32 THEN l # Cell(c, k, id) ELSE l # Line(c, id)
  PROVE  SameAsked(j, l)
<1>1. CASE version = 3 /\ id = 32
  <2>1. asked' = Forgotten({k}, {Cell(c, k, id)})
    BY <1>1 DEF Record
  <2>2. j \notin {k} \/ l \notin {Cell(c, k, id)}
    BY <1>1
  <2> QED  BY <2>1, <2>2, ForgottenKeeps
<1>2. CASE ~(version = 3 /\ id = 32)
  <2>1. <<j, l>> # <<k, Line(c, id)>>
    BY <1>2
  <2> QED  BY <1>2, <2>1 DEF Record, Noted, SameAsked
<1> QED  BY <1>1, <1>2

LEMMA RecordDrops ==
  ASSUME NEW c, NEW k, NEW id, NEW v, Record(c, k, id, v), version = 3 /\ id = 32
  PROVE  <<k, Cell(c, k, id)>> \notin DOMAIN asked'
<1>1. asked' = Forgotten({k}, {Cell(c, k, id)})
  BY DEF Record
<1> QED  BY <1>1, ForgottenDrops

LEMMA RecordSets ==
  ASSUME NEW c, NEW k, NEW id, NEW v, Record(c, k, id, v), ~(version = 3 /\ id = 32)
  PROVE  <<k, Line(c, id)>> \in DOMAIN asked' /\ asked'[<<k, Line(c, id)>>] = v
  BY DEF Record, Noted

(* The bits of a line count as cleared only after ClearPrivate of its CPU  *)
(* or ClearSpis of CPU 0.                                                  *)
LEMMA ClearedBefore ==
  ASSUME GicTypeOK, NEW c \in Cores, CpuNext(c), NEW l \in Lines, FlagsCleared(l)'
  PROVE  \/ FlagsCleared(l)
         \/ l[1] = c /\ ClearPrivate(c)
         \/ l[1] = NoCpu /\ c = 0 /\ ClearSpis(c)
<1>1. version' = version /\ version \in {2, 3} /\ l[1] \in Cores \cup {NoCpu}
  BY FrameStep, LinesFacts DEF Frame, GicTypeOK, RegsOK
<1>2. ASSUME NEW op \in {"clear_private", "clear_spis"}, FinishSteps(c), Doing(c, {op})
      PROVE  IF op = "clear_private" THEN ClearPrivate(c) ELSE ClearSpis(c)
  BY <1>2 DEF FinishSteps, Doing, CtlrStore, Wake, ClearPrivate, gicc_init, ClearSpis, SpiClearedTo,
              LowestPrio, NoTargets, Config, FillFields, Unlock, SendSgi, LockedOps, Flags, Fields
<1>3. CASE l[1] # NoCpu
  <2>1. Passed(l[1], "clear_private")' /\ l[1] \in Cores /\ "clear_private" \in InitOps
    BY <1>1, <1>3 DEF FlagsCleared, InitOps
  <2>2. \/ Passed(l[1], "clear_private")
        \/ l[1] = c /\ FinishSteps(c) /\ Doing(c, {"clear_private"})
        \/ l[1] = c /\ \A s \in Range(gic_init(c)) : s.op # "clear_private"
    BY <2>1, PassedBefore
  <2> QED  BY <1>1, <1>2, <1>3, <2>2, gic_initFacts DEF FlagsCleared
<1>4. CASE l[1] = NoCpu
  <2>1. Passed(0, "clear_spis")' /\ "clear_spis" \in InitOps
    BY <1>1, <1>4 DEF FlagsCleared, InitOps
  <2>2. \/ Passed(0, "clear_spis")
        \/ 0 = c /\ FinishSteps(c) /\ Doing(c, {"clear_spis"})
        \/ 0 = c /\ \A s \in Range(gic_init(c)) : s.op # "clear_spis"
    BY <2>1, PassedBefore, Zero
  <2>3. c = 0 => \E s \in Range(gic_init(c)) : s.op = "clear_spis"
    BY <1>1, gic_initFacts DEF DistOps
  <2> QED  BY <1>1, <1>2, <1>4, <2>1, <2>2, <2>3 DEF FlagsCleared
<1> QED  BY <1>3, <1>4

(* ClearSpis reaches every shared interrupt of a GICv2.                    *)
LEMMA SpisReached ==
  ASSUME version = 2, NEW l \in Lines, l[1] = NoCpu
  PROVE  l[2] \div 32 \in 1 .. (int_num \div 32) - 1
<1>1. l[2] \in Nat /\ l[2] >= 32 /\ l[2] < 32 * (ITLN + 1) /\ ITLN \in Nat
  BY LinesFacts, GicAssumption
<1>2. l[2] \div 32 >= 1 /\ l[2] \div 32 \in Nat
  BY <1>1
<1>3. int_num \div 32 = ITLN + 1
  BY <1>1 DEF int_num
<1>4. l[2] \div 32 <= ITLN
  BY <1>1
<1> QED  BY <1>1, <1>2, <1>3, <1>4

LEMMA FlagsStep ==
  ASSUME GicTypeOK, FlagsOK, NEW c \in Cores, CpuNext(c)
  PROVE  FlagsOK'
<1> SUFFICES ASSUME NEW k \in Flags, NEW l \in Lines
             PROVE  FlagOK(k, l)'
  BY DEF FlagsOK
<1>1. FlagOK(k, l)
  BY DEF FlagsOK
<1>2. flags \in [Flags -> SUBSET Lines] /\ version \in {2, 3}
  BY DEF GicTypeOK, RegsOK
<1>3. /\ l = <<l[1], l[2]>> /\ l[1] \in Cores \cup {NoCpu} /\ NoCpu \notin Cores
      /\ l[2] \in IDS /\ l[2] \in Nat /\ (l[1] = NoCpu <=> l[2] >= 32)
  BY LinesFacts
<1>4. CASE ClearPrivate(c)
  <2> DEFINE reached == {x \in Lines : x[1] = c}
  <2>1. /\ flags'[k] = {x \in flags[k] : x[1] # c}
        /\ asked' = Forgotten(Flags \cup {"prio"}, reached)
    BY <1>4 DEF ClearPrivate
  <2>2. CASE l[1] = c
    <3>1. <<k, l>> \notin DOMAIN asked'
      <4>1. k \in Flags \cup {"prio"} /\ l \in reached
        BY <2>2
      <4> HIDE DEF reached
      <4> QED  BY <2>1, <4>1, ForgottenDrops
    <3> QED  BY <2>1, <2>2, <3>1 DEF FlagOK, AsAsked
  <2>3. CASE l[1] # c
    <3>1. SameAsked(k, l)
      BY <2>1, <2>3, ForgottenKeeps
    <3>2. l \in flags'[k] <=> l \in flags[k]
      BY <2>1, <2>3
    <3>3. ~ClearSpis(c)
      BY <1>4 DEF ClearPrivate, ClearSpis, SpiClearedTo, Doing
    <3>4. FlagsCleared(l)' => FlagsCleared(l)
      BY <2>3, <3>3, ClearedBefore
    <3> QED  BY <1>1, <3>1, <3>2, <3>4, FlagKept
  <2> QED  BY <2>2, <2>3
<1>5. CASE ClearSpis(c)
  <2> DEFINE reached == {x \in Lines : Dist(c, x) /\ x[2] \div 32 \in 1 .. (int_num \div 32) - 1}
  <2>1. flags'[k] = flags[k] \ reached /\ asked' = Forgotten(Flags, reached)
    BY <1>5 DEF ClearSpis, SpiClearedTo
  <2>2. CASE l \in reached
    <3>1. <<k, l>> \notin DOMAIN asked'
      BY <2>1, <2>2, ForgottenDrops
    <3> QED  BY <2>1, <2>2, <3>1 DEF FlagOK, AsAsked
  <2>3. CASE l \notin reached
    <3>1. SameAsked(k, l)
      BY <2>1, <2>3, ForgottenKeeps
    <3>2. l \in flags'[k] <=> l \in flags[k]
      BY <2>1, <2>3
    <3>3. ~ClearPrivate(c)
      BY <1>5 DEF ClearPrivate, ClearSpis, SpiClearedTo, Doing
    <3>4. FlagsCleared(l)' => FlagsCleared(l)
      <4>1. FlagsCleared(l)' => version = 2
        BY FrameStep DEF FlagsCleared, Frame
      <4>2. version = 2 /\ l[1] = NoCpu => l \in reached
        BY SpisReached DEF Dist
      <4> QED  BY <2>3, <3>3, <4>1, <4>2, ClearedBefore
    <3> QED  BY <1>1, <3>1, <3>2, <3>4, FlagKept
  <2> QED  BY <2>2, <2>3
<1>6. ASSUME ~ClearPrivate(c), ~ClearSpis(c) PROVE FlagsCleared(l)' => FlagsCleared(l)
  BY <1>6, ClearedBefore
<1>7. CASE SetFlag(c)
  <2> DEFINE op == Head(todo[c])
             cell == Cell(c, op.op, op.id)
  <2>1. todo[c] # << >> /\ op.op \in Flags /\ op.op \notin InitOps
    BY <1>7 DEF SetFlag, Doing, Flags, InitOps
  <2>2. op.id \in IDS /\ op.val \in BOOLEAN /\ ~ClearPrivate(c) /\ ~ClearSpis(c)
    <3>1. op.id \in IDS /\ op.val \in Args(op.op)
      BY <2>1, HeadFacts
    <3>2. Args(op.op) = BOOLEAN
      BY <2>1 DEF Args
    <3>3. ~ClearPrivate(c) /\ ~ClearSpis(c)
      BY <2>1 DEF ClearPrivate, ClearSpis, SpiClearedTo, Doing, InitOps
    <3> QED  BY <3>1, <3>2, <3>3
  <2>3. Record(c, op.op, op.id, op.val)
    BY <1>7 DEF SetFlag
  <2>4. PICK cells : /\ flags' = [flags EXCEPT ![op.op] = IF op.val THEN @ \cup (cells \cap Lines) ELSE @ \ cells]
                     /\ cells = {cell} \/ (cells = {} /\ version = 3 /\ op.id = 32)
    BY <1>7 DEF SetFlag
  <2>5. ~(version = 3 /\ op.id = 32) => cell = Line(c, op.id)
    BY <1>2, <2>1, <2>2, CellFacts
  <2> HIDE DEF op, cell
  <2>6. CASE k # op.op \/ l # cell
    <3>1. l \in flags'[k] <=> l \in flags[k]
      BY <1>2, <2>1, <2>4, <2>6
    <3>2. SameAsked(k, l)
      BY <2>3, <2>5, <2>6, RecordKeeps DEF cell
    <3> QED  BY <1>1, <1>6, <2>2, <3>1, <3>2, FlagKept
  <2>7. CASE k = op.op /\ l = cell /\ version = 3 /\ op.id = 32
    <3>1. <<k, l>> \notin DOMAIN asked'
      BY <2>3, <2>7, RecordDrops DEF cell
    <3>2. ~FlagsCleared(l)'
      BY <2>7, FrameStep DEF FlagsCleared, Frame
    <3> QED  BY <3>1, <3>2 DEF FlagOK, AsAsked
  <2>8. CASE k = op.op /\ l = cell /\ ~(version = 3 /\ op.id = 32)
    <3>3. l = Line(c, op.id) /\ l \in cells
      BY <2>4, <2>5, <2>8
    <3>4. <<k, l>> \in DOMAIN asked' /\ asked'[<<k, l>>] = op.val
      BY <2>3, <2>8, <3>3, RecordSets
    <3>5. (l \in flags'[k]) = op.val
      <4>1. CASE op.val
        BY <1>2, <2>1, <2>4, <2>8, <3>3, <4>1
      <4>2. CASE ~op.val
        <5>1. flags'[op.op] = flags[op.op] \ cells
          BY <1>2, <2>1, <2>4, <4>2
        <5>2. l \notin flags'[k] /\ op.val = FALSE
          BY <2>2, <2>8, <3>3, <4>2, <5>1
        <5>3. (l \in flags'[k]) = FALSE
          BY <5>2
        <5> QED  BY <5>2, <5>3
      <4> QED  BY <2>2, <4>1, <4>2
    <3> QED  BY <3>4, <3>5 DEF FlagOK, AsAsked
  <2> QED  BY <2>6, <2>7, <2>8
<1>8. CASE SendSgi(c)
  <2> DEFINE op == Head(todo[c])
             num == op.id % GIC_MAX_SGIS
  <2>1. todo[c] # << >> /\ op.op = "sgi" /\ op.op \notin InitOps
    BY <1>8 DEF SendSgi, Doing, InitOps
  <2>2. op.id \in IDS /\ op.id \in Nat /\ ~ClearPrivate(c) /\ ~ClearSpis(c)
    <3>1. op.id \in IDS /\ op.id \in Nat
      BY <2>1, HeadFacts, LineFacts
    <3> QED  BY <2>1, <3>1 DEF ClearPrivate, ClearSpis, SpiClearedTo, Doing
  <2>3. num # 32
    BY <2>2 DEF GIC_MAX_SGIS
  <2>4. CASE UNCHANGED <<flags, asked>>
    BY <1>1, <1>6, <2>2, <2>4, FlagKept DEF SameAsked
  <2>5. CASE ~UNCHANGED <<flags, asked>>
    <3>1. /\ flags' = [flags EXCEPT !["pend"] = @ \cup {Line(op.val, num)}]
          /\ Record(op.val, "pend", num, TRUE)
      BY <1>8, <2>5 DEF SendSgi
    <3> HIDE DEF num, op
    <3>2. CASE k = "pend" /\ l = Line(op.val, num)
      <4>1. <<k, l>> \in DOMAIN asked' /\ asked'[<<k, l>>] = TRUE
        BY <2>3, <3>1, <3>2, RecordSets
      <4>2. l \in flags'[k]
        BY <1>2, <3>1, <3>2
      <4> QED  BY <4>1, <4>2 DEF FlagOK, AsAsked
    <3>3. CASE ~(k = "pend" /\ l = Line(op.val, num))
      <4>1. SameAsked(k, l)
        <5>1. k # "pend" \/ IF version = 3 /\ num = 32 THEN l # Cell(op.val, "pend", num)
                                                      ELSE l # Line(op.val, num)
          BY <2>3, <3>3
        <5> QED  BY <3>1, <5>1, RecordKeeps
      <4>2. l \in flags'[k] <=> l \in flags[k]
        BY <1>2, <3>1, <3>3
      <4> QED  BY <1>1, <1>6, <2>2, <4>1, <4>2, FlagKept
    <3> QED  BY <3>2, <3>3
  <2> QED  BY <2>4, <2>5
<1>9. ASSUME ~ClearPrivate(c), ~ClearSpis(c), ~SetFlag(c), ~SendSgi(c) PROVE FlagOK(k, l)'
  <2>1. flags' = flags
    BY <1>9 DEF CpuNext, Start, CtlrLoad, CtlrStore, Wake, gicc_init, LowestPrio, NoTargets, Config,
                FillFields, Call, Lock, LoadReg, StoreReg, GetPrio, GetState, Unlock, GetTrgt,
                SetRoute, regs
  <2>2. SameAsked(k, l)
    <3>1. CASE StoreReg(c)
      <4> DEFINE op == Head(todo[c])
                 none == op.op = "trgt" /\ LockOf(op.id) = "gicr"
      <4>1. op.op \in Fields /\ (none => asked' = asked) /\ (~none => Record(c, op.op, op.id, op.val))
        BY <3>1, StoreEffect
      <4>2. k # op.op
        BY <4>1 DEF Flags, Fields
      <4> HIDE DEF op, none
      <4> QED  BY <4>1, <4>2, RecordKeeps DEF SameAsked
    <3>2. CASE SetRoute(c)
      <4>1. asked' = asked \/ \E v, x : asked' = Noted(<<"route", x>>, v)
        BY <3>2, RouteEffect DEF RouteNone, RouteLow, RouteHigh
      <4>2. k # "route"
        BY DEF Flags
      <4> QED  BY <4>1, <4>2 DEF SameAsked, Noted
    <3>3. CASE LowestPrio(c) \/ NoTargets(c) \/ Config(c)
      <4>1. \E f \in Fields : \E R : asked' = Forgotten({f}, R)
        BY <3>3 DEF LowestPrio, NoTargets, Config, FillFields, Fields
      <4>2. \A f \in Fields : k \notin {f}
        BY DEF Flags, Fields
      <4> QED  BY <4>1, <4>2, ForgottenKeeps
    <3>4. CASE ~(StoreReg(c) \/ SetRoute(c) \/ LowestPrio(c) \/ NoTargets(c) \/ Config(c))
      <4>1. asked' = asked
        BY <1>9, <3>4 DEF CpuNext, Start, CtlrLoad, CtlrStore, Wake, gicc_init, Call, Lock, LoadReg,
                GetPrio, GetState, Unlock, GetTrgt
      <4> QED  BY <4>1 DEF SameAsked
    <3> QED  BY <3>1, <3>2, <3>3, <3>4
  <2> QED  BY <1>1, <1>6, <1>9, <2>1, <2>2, FlagKept
<1> QED  BY <1>4, <1>5, <1>7, <1>8, <1>9

-----------------------------------------------------------------------------
(* gicd_lock and gicr_lock.                                                *)

(* The steps under a lock, other than spin_lock and spin_unlock.           *)
HeldSteps(c) == SetFlag(c) \/ LoadReg(c) \/ StoreReg(c) \/ GetPrio(c) \/ GetState(c)

LEMMA HeldInside ==
  ASSUME NEW c \in Cores, HeldSteps(c) \/ Unlock(c)
  PROVE  Inside(c)
  BY DEF HeldSteps, SetFlag, LoadReg, StoreReg, GetPrio, GetState, Unlock, Inside, Doing, LockedOps

LEMMA InsideHead ==
  ASSUME GicTypeOK, NEW c \in Cores, Inside(c)
  PROVE  /\ todo[c] # << >> /\ Head(todo[c]).op \in LockedOps /\ Head(todo[c]).id \in IDS
         /\ LockOf(Head(todo[c]).id) \in {"gicd", "gicr"} /\ c \in up /\ Ready(c)
<1>1. todo[c] # << >> /\ Head(todo[c]).op \in LockedOps
  BY DEF Inside, Doing
<1>2. Head(todo[c]).op \notin InitOps
  BY <1>1 DEF LockedOps, Flags, Fields, InitOps
<1> QED  BY <1>1, <1>2, HeadFacts, OneKind DEF LockOf

LEMMA LocksKept ==
  ASSUME NEW c \in Cores, CpuNext(c), ~Lock(c), ~Unlock(c)
  PROVE  locks' = locks
  BY DEF CpuNext, Start, CtlrLoad, CtlrStore, Wake, ClearPrivate, gicc_init, ClearSpis, SpiClearedTo,
         LowestPrio, NoTargets, Config, FillFields, Call, SetFlag, LoadReg, StoreReg,
         GetPrio, GetState, GetTrgt, SetRoute, SendSgi

(* A CPU is under a lock after its step only if it took the lock with it,  *)
(* or was under it before.                                                 *)
LEMMA InsideBefore ==
  ASSUME GicTypeOK, NEW c \in Cores, CpuNext(c), Inside(c)'
  PROVE  (Lock(c) \/ HeldSteps(c)) /\ Stays(c)
<1>1. phase'[c] \in {"in", "loaded", "done"} /\ Head(todo'[c]).op \in LockedOps
  BY DEF Inside, Doing
<1>2. ~FinishSteps(c) /\ ~Start(c) /\ ~Call(c) /\ ~GetTrgt(c) /\ ~SetRoute(c)
  BY <1>1, FinishEffect, BeginEffect, RouteEffect
     DEF Finishes, Begins, RouteNone, RouteLow, RouteHigh
<1>3. ~CtlrLoad(c)
  <2> SUFFICES ASSUME CtlrLoad(c) PROVE FALSE
    OBVIOUS
  <2>1. Head(todo'[c]).op = "ctlr"
    BY StayEffect DEF CtlrLoad, Doing, Stays
  <2> QED  BY <1>1, <2>1 DEF LockedOps, Flags, Fields
<1> QED  BY <1>2, <1>3, StayEffect DEF CpuNext, FinishSteps, HeldSteps

LEMMA LocksStep ==
  ASSUME GicTypeOK, LocksOK, NEW c \in Cores, CpuNext(c)
  PROVE  LocksOK'
<1>1. Frame(c) /\ version' = version /\ \A id : LockOf(id)' = LockOf(id)
  BY FrameStep DEF Frame, LockOf
<1>2. /\ locks \in [{"gicd", "gicr"} -> Cores \cup {NoCpu}] /\ NoCpu \notin Cores
      /\ \A d \in Cores : Inside(d) => locks[LockOf(Head(todo[d]).id)] = d
  BY Zero DEF GicTypeOK, RegsOK, LocksOK
<1>3. ASSUME NEW d \in Cores, Inside(d)' PROVE (locks[LockOf(Head(todo[d]).id)] = d)'
  <2>1. CASE d # c
    <3>1. todo'[d] = todo[d] /\ phase'[d] = phase[d]
      BY <1>1, <2>1 DEF Frame
    <3>2. Inside(d)
      BY <1>3, <3>1 DEF Inside, Doing
    <3> DEFINE k == LockOf(Head(todo[d]).id)
               m == LockOf(Head(todo[c]).id)
    <3>3. locks[k] = d /\ k \in {"gicd", "gicr"}
      BY <1>2, <3>2, InsideHead
    <3>4. locks'[k] = d
      <4>1. CASE Lock(c)
        <5>1. locks[m] = NoCpu /\ locks' = [locks EXCEPT ![m] = c]
          BY <4>1 DEF Lock
        <5> QED  BY <1>2, <3>3, <5>1
      <4>2. CASE Unlock(c)
        <5>1. locks[m] = c /\ locks' = [locks EXCEPT ![m] = NoCpu]
          BY <1>2, <4>2, HeldInside DEF Unlock
        <5> QED  BY <1>2, <2>1, <3>3, <5>1
      <4>3. CASE ~Lock(c) /\ ~Unlock(c)
        BY <3>3, <4>3, LocksKept
      <4> QED  BY <4>1, <4>2, <4>3
    <3> QED  BY <1>1, <3>1, <3>4
  <2>2. CASE d = c
    <3>1. (Lock(c) \/ HeldSteps(c)) /\ todo'[c] = todo[c]
      BY <1>3, <2>2, InsideBefore DEF Stays
    <3> DEFINE k == LockOf(Head(todo[c]).id)
    <3>2. locks'[k] = c
      <4>1. CASE Lock(c)
        <5>1. k \in {"gicd", "gicr"} /\ locks' = [locks EXCEPT ![k] = c]
          BY <4>1 DEF Lock, LockOf
        <5> QED  BY <1>2, <5>1
      <4>2. CASE HeldSteps(c)
        <5>1. ~Lock(c) /\ ~Unlock(c)
          BY <4>2, <3>1, StayEffect, FinishEffect DEF HeldSteps, FinishSteps, Finishes, SetFlag, LoadReg,
             StoreReg, GetPrio, GetState, Lock
        <5> QED  BY <1>2, <4>2, <5>1, LocksKept, HeldInside
      <4> QED  BY <3>1, <4>1, <4>2
    <3> QED  BY <1>1, <2>2, <3>1, <3>2
  <2> QED  BY <2>1, <2>2
<1> QED  BY <1>3 DEF LocksOK

-----------------------------------------------------------------------------
-----------------------------------------------------------------------------
(* The read, mask and write of a register.                                 *)

LEMMA FieldsUnchanged ==
  ASSUME NEW c \in Cores, CpuNext(c), ~ClearPrivate(c), ~LowestPrio(c), ~NoTargets(c), ~Config(c),
         ~StoreReg(c)
  PROVE  fields' = fields
  BY DEF CpuNext, Start, CtlrLoad, CtlrStore, Wake, gicc_init, ClearSpis, SpiClearedTo, Call, Lock,
         SetFlag, LoadReg, GetPrio, GetState, Unlock, GetTrgt, SetRoute, SendSgi, regs

(* The loop of gicd_init over the registers of one kind.                   *)
FillFrom(k) == IF k = "cfg" THEN 0 ELSE FirstReg
Filling(c, k) == FillFields(c, FillOp(k), k, Default(k), FillFrom(k))

LEMMA FillingIs ==
  ASSUME NEW c
  PROVE  /\ LowestPrio(c) <=> Filling(c, "prio")
         /\ NoTargets(c) <=> Filling(c, "trgt")
         /\ Config(c) <=> Filling(c, "cfg")
  BY DEF LowestPrio, NoTargets, Config, Filling, FillFrom, FillOp, Default

LEMMA FilledBefore ==
  ASSUME GicTypeOK, NEW c \in Cores, CpuNext(c), NEW k \in Fields, NEW l \in Lines,
         FieldsFilled(k, l)'
  PROVE  \/ FieldsFilled(k, l)
         \/ l[1] = c /\ k = "prio" /\ ClearPrivate(c)
         \/ l[1] = NoCpu /\ version = 2 /\ Filling(c, k)
<1>1. version = 2 /\ ~early /\ l[1] \in Cores \cup {NoCpu}
  BY FrameStep, RaceStep, LinesFacts DEF Frame, FieldsFilled
<1>2. ASSUME FinishSteps(c), Doing(c, {"clear_private"})
      PROVE  ClearPrivate(c)
  BY <1>2 DEF FinishSteps, Doing, CtlrStore, Wake, gicc_init, ClearSpis, SpiClearedTo,
              LowestPrio, NoTargets, Config, FillFields, Unlock, SendSgi, LockedOps, Flags, Fields
<1>3. ASSUME FinishSteps(c), Doing(c, {FillOp(k)})
      PROVE  Filling(c, k)
  <2>1. Head(todo[c]).op = FillOp(k) /\ FillOp(k) \in {"lowest_prio", "no_targets", "config"}
    BY <1>3 DEF Doing, FillOp
  <2>2. LowestPrio(c) \/ NoTargets(c) \/ Config(c)
    BY <1>3, <2>1 DEF FinishSteps, Doing, CtlrStore, Wake, ClearPrivate, gicc_init, ClearSpis,
              SpiClearedTo, Unlock, SendSgi, LockedOps, Flags, Fields
  <2>3. \A j \in Fields : Filling(c, j) => Head(todo[c]).op = FillOp(j)
    BY DEF Filling, FillFields, Doing
  <2>4. \A j \in Fields : FillOp(j) = FillOp(k) => j = k
    BY DEF FillOp, Fields
  <2>5. "prio" \in Fields /\ "trgt" \in Fields /\ "cfg" \in Fields
    BY DEF Fields
  <2>6. \E j \in Fields : Filling(c, j)
    BY <2>2, <2>5, FillingIs
  <2> QED  BY <2>1, <2>3, <2>4, <2>6
<1>4. CASE l[1] # NoCpu
  <2>1. Passed(l[1], "clear_private")' /\ k = "prio" /\ l[1] \in Cores /\ "clear_private" \in InitOps
    BY <1>1, <1>4 DEF FieldsFilled, InitOps
  <2>2. \/ Passed(l[1], "clear_private")
        \/ l[1] = c /\ FinishSteps(c) /\ Doing(c, {"clear_private"})
        \/ l[1] = c /\ \A s \in Range(gic_init(c)) : s.op # "clear_private"
    BY <2>1, PassedBefore
  <2> QED  BY <1>1, <1>2, <1>4, <2>1, <2>2, gic_initFacts DEF FieldsFilled
<1>5. CASE l[1] = NoCpu
  <2>1. Passed(0, FillOp(k))' /\ FillOp(k) \in InitOps /\ FillOp(k) \in DistOps
    BY <1>1, <1>5 DEF FieldsFilled, InitOps, DistOps, FillOp
  <2>2. \/ Passed(0, FillOp(k))
        \/ 0 = c /\ FinishSteps(c) /\ Doing(c, {FillOp(k)})
        \/ 0 = c /\ \A s \in Range(gic_init(c)) : s.op # FillOp(k)
    BY <2>1, PassedBefore, Zero
  <2>3. c = 0 => \E s \in Range(gic_init(c)) : s.op = FillOp(k)
    BY <1>1, <2>1, gic_initFacts
  <2> QED  BY <1>1, <1>3, <1>5, <2>1, <2>2, <2>3 DEF FieldsFilled
<1> QED  BY <1>4, <1>5

(* In gicv2.c the loops reach every shared interrupt.                      *)
LEMMA FieldsReached ==
  ASSUME version = 2, NEW c, NEW k \in Fields, NEW l \in Lines, l[1] = NoCpu
  PROVE  LoopReaches(c, k, FillFrom(k), l)
<1>1. l[2] \in Nat /\ l[2] >= 32 /\ l[2] < 32 * (ITLN + 1) /\ ITLN \in Nat
  BY LinesFacts, GicAssumption
<1>2. FillFrom(k) = 0
  BY DEF FillFrom, FirstReg
<1>3. CASE k = "cfg"
  <2>1. RegOf(k, int_num) = 2 * (ITLN + 1)
    BY <1>1, <1>3 DEF RegOf, Width, int_num
  <2>2. RegOf(k, l[2]) = (l[2] * 2) \div 32
    BY <1>3 DEF RegOf, Width
  <2>3. (l[2] * 2) \div 32 \in 0 .. 2 * (ITLN + 1) - 1
    BY <1>1
  <2> QED  BY <1>2, <2>1, <2>2, <2>3 DEF LoopReaches, Dist
<1>4. CASE k # "cfg"
  <2>1. Width[k] = 8
    BY <1>4 DEF Fields, Width
  <2>2. RegOf(k, l[2]) = (l[2] * 8) \div 32
    BY <2>1 DEF RegOf
  <2>3. RegOf(k, int_num) = 8 * (ITLN + 1)
    BY <1>1, <2>1 DEF RegOf, int_num
  <2>4. (l[2] * 8) \div 32 \in 0 .. 8 * (ITLN + 1) - 1
    BY <1>1
  <2> QED  BY <1>2, <2>2, <2>3, <2>4 DEF LoopReaches, Dist
<1> QED  BY <1>3, <1>4

LEMMA FillingEffect ==
  ASSUME GicTypeOK, NEW c \in Cores, NEW j \in Fields, Filling(c, j)
  PROVE  /\ todo[c] # << >> /\ Head(todo[c]).op = FillOp(j) /\ Head(todo[c]).op \in DistOps
         /\ asked' = Forgotten({j}, {x \in Lines : LoopReaches(c, j, FillFrom(j), x)})
         /\ \A k \in Fields, l \in Lines :
              fields'[k][l] = IF k = j /\ LoopReaches(c, j, FillFrom(j), l) THEN Default(j)
                                                                         ELSE fields[k][l]
<1>1. FillFields(c, FillOp(j), j, Default(j), FillFrom(j))
  BY DEF Filling
<1>2. Default(j) \in FieldVals(j)
  BY GicAssumption DEF Default, FieldVals, LOWEST, Fields
<1>3. todo[c] # << >> /\ Head(todo[c]).op = FillOp(j) /\ Head(todo[c]).op \in DistOps
  BY <1>1 DEF FillFields, Doing, DistOps, FillOp
<1>4. asked' = Forgotten({j}, {x \in Lines : LoopReaches(c, j, FillFrom(j), x)})
  BY <1>1 DEF FillFields, LoopReaches
<1>5. RegsOK
  BY DEF GicTypeOK
<1>6. \A k \in Fields, l \in Lines :
        fields'[k][l] = IF k = j /\ LoopReaches(c, j, FillFrom(j), l) THEN Default(j)
                                                                   ELSE fields[k][l]
  BY <1>1, <1>2, <1>5, FillEffect
<1> QED  BY <1>3, <1>4, <1>6

(* Only StoreReg and gic_init touch the history of these fields.           *)
LEMMA AskedKept ==
  ASSUME GicTypeOK, NEW c \in Cores, CpuNext(c), ~ClearPrivate(c), ~StoreReg(c),
         ~LowestPrio(c), ~NoTargets(c), ~Config(c), NEW k \in Fields, NEW l \in Lines
  PROVE  SameAsked(k, l)
<1>1. k \notin Flags /\ k # "route" /\ k # "pend"
  BY DEF Flags, Fields
<1>2. CASE SetFlag(c)
  <2> DEFINE op == Head(todo[c])
  <2>1. op.op \in Flags /\ Record(c, op.op, op.id, op.val)
    BY <1>2 DEF SetFlag, Doing
  <2> HIDE DEF op
  <2> QED  BY <1>1, <2>1, RecordKeeps
<1>3. CASE SendSgi(c)
  <2>1. asked' = asked \/ \E v, num : Record(v, "pend", num, TRUE)
    BY <1>3 DEF SendSgi
  <2>2. CASE asked' = asked
    BY <2>2 DEF SameAsked
  <2>3. CASE asked' # asked
    <3>1. PICK v, num : Record(v, "pend", num, TRUE)
      BY <2>1, <2>3
    <3> QED  BY <1>1, <3>1, RecordKeeps
  <2> QED  BY <2>2, <2>3
<1>4. CASE SetRoute(c)
  <2>1. asked' = asked \/ \E v, x : asked' = Noted(<<"route", x>>, v)
    BY <1>4, RouteEffect DEF RouteNone, RouteLow, RouteHigh
  <2> QED  BY <1>1, <2>1 DEF SameAsked, Noted
<1>5. CASE ClearSpis(c)
  <2>1. \E R : asked' = Forgotten(Flags, R)
    BY <1>5 DEF ClearSpis, SpiClearedTo
  <2> QED  BY <1>1, <2>1, ForgottenKeeps
<1>6. CASE ~SetFlag(c) /\ ~SendSgi(c) /\ ~SetRoute(c) /\ ~ClearSpis(c)
  <2>1. asked' = asked
    BY <1>6 DEF CpuNext, Start, CtlrLoad, CtlrStore, Wake, gicc_init, Call, Lock, LoadReg, GetPrio,
                GetState, Unlock, GetTrgt
  <2> QED  BY <2>1 DEF SameAsked
<1> QED  BY <1>2, <1>3, <1>4, <1>5, <1>6

(* The value v is good for the line after the step.                        *)
ValueNext(k, l, v) ==
  /\ <<k, l>> \in DOMAIN asked' => v = asked'[<<k, l>>]
  /\ FieldsFilled(k, l)' /\ <<k, l>> \notin DOMAIN asked' => v = Default(k)

LEMMA ValueKept ==
  ASSUME NEW k, NEW l, NEW v, ValueOK(k, l, v), SameAsked(k, l),
         FieldsFilled(k, l)' => FieldsFilled(k, l)
  PROVE  ValueNext(k, l, v)
  BY DEF ValueOK, ValueNext, SameAsked, AsAsked

(* The store of CPU c replaces this field.                                 *)
Replaces(c, k, l) ==
  LET op == Head(todo[c])
  IN /\ StoreReg(c) /\ k = op.op /\ l = Cell(c, op.op, op.id)
     /\ ~(op.op = "trgt" /\ LockOf(op.id) = "gicr")

(* A value that is good stays good through every step that is not meant    *)
(* for it.  The loops take back what was asked, and what they reach counts *)
(* as filled only if nobody was early.                                     *)
LEMMA ValueStep ==
  ASSUME GicTypeOK, NEW c \in Cores, CpuNext(c), NEW k \in Fields, NEW l \in Lines, NEW v,
         ValueOK(k, l, v),
         ClearPrivate(c) => l[1] # c \/ k # "prio",
         ~Replaces(c, k, l),
         Filling(c, k) => early \/ ~LoopReaches(c, k, FillFrom(k), l)
  PROVE  ValueNext(k, l, v)
<1>1. RegsOK /\ version \in {2, 3} /\ k \notin Flags
  BY DEF GicTypeOK, RegsOK, Flags, Fields
<1>2. ASSUME ~Filling(c, k) PROVE FieldsFilled(k, l)' => FieldsFilled(k, l)
  BY <1>2, FilledBefore
<1>3. CASE ClearPrivate(c)
  <2> DEFINE reached == {x \in Lines : x[1] = c}
  <2>1. asked' = Forgotten(Flags \cup {"prio"}, reached)
    BY <1>3 DEF ClearPrivate
  <2>2. k \notin Flags \cup {"prio"} \/ l \notin reached
    BY <1>1, <1>3
  <2> HIDE DEF reached
  <2>3. SameAsked(k, l)
    BY <2>1, <2>2, ForgottenKeeps
  <2>4. ~Filling(c, k)
    BY <1>3 DEF ClearPrivate, Filling, FillFields, FillOp, Doing
  <2> QED  BY <1>2, <2>3, <2>4, ValueKept
<1>4. ASSUME NEW j \in Fields, Filling(c, j) PROVE ValueNext(k, l, v)
  <2> DEFINE reached == {x \in Lines : LoopReaches(c, j, FillFrom(j), x)}
  <2>1. asked' = Forgotten({j}, reached) /\ Head(todo[c]).op = FillOp(j)
    BY <1>4, FillingEffect
  <2>2. Filling(c, k) => k = j
    <3> SUFFICES ASSUME Filling(c, k) PROVE k = j
      OBVIOUS
    <3>1. FillOp(k) = FillOp(j)
      BY <2>1, FillingEffect
    <3> QED  BY <3>1 DEF FillOp, Fields
  <2>3. ASSUME j # k \/ l \notin reached PROVE ValueNext(k, l, v)
    <3>1. SameAsked(k, l)
      <4>1. k \notin {j} \/ l \notin reached
        BY <2>3
      <4> HIDE DEF reached
      <4> QED  BY <2>1, <4>1, ForgottenKeeps
    <3>2. FieldsFilled(k, l)' => FieldsFilled(k, l)
      <4>1. ~ClearPrivate(c)
        BY <1>4 DEF ClearPrivate, Filling, FillFields, FillOp, Doing
      <4>2. version = 2 /\ l[1] = NoCpu /\ j = k => l \in reached
        BY FieldsReached
      <4> QED  BY <2>2, <2>3, <4>1, <4>2, FilledBefore
    <3> QED  BY <3>1, <3>2, ValueKept
  <2>4. ASSUME j = k, l \in reached PROVE ValueNext(k, l, v)
    <3>1. early
      BY <1>4, <2>4
    <3>2. early'
      BY <3>1, RaceStep
    <3>3. ~FieldsFilled(k, l)'
      BY <3>2 DEF FieldsFilled
    <3>4. <<k, l>> \notin DOMAIN asked'
      <4>1. k \in {j} /\ l \in reached
        BY <2>4
      <4> HIDE DEF reached
      <4> QED  BY <2>1, <4>1, ForgottenDrops
    <3> QED  BY <3>3, <3>4 DEF ValueNext
  <2> QED  BY <2>3, <2>4
<1>5. CASE StoreReg(c)
  <2> DEFINE op == Head(todo[c])
             cell == Cell(c, op.op, op.id)
             none == op.op = "trgt" /\ LockOf(op.id) = "gicr"
  <2>1. /\ op.op \in Fields /\ op.id \in IDS
        /\ none => asked' = asked
        /\ ~none => Record(c, op.op, op.id, op.val)
    BY <1>5, StoreEffect
  <2>2. ~(version = 3 /\ op.id = 32) => cell = Line(c, op.id)
    BY <1>1, <2>1, CellFacts
  <2>3. none \/ k # op.op \/ l # cell
    BY <1>5 DEF Replaces
  <2>4. ~Filling(c, k)
    BY <1>5 DEF StoreReg, Filling, FillFields, FillOp, Doing, Fields
  <2>5. SameAsked(k, l)
    <3>1. CASE none
      BY <2>1, <3>1 DEF SameAsked
    <3>2. CASE ~none
      <4>1. k # op.op \/ IF version = 3 /\ op.id = 32 THEN l # cell ELSE l # Line(c, op.id)
        BY <2>2, <2>3, <3>2
      <4> QED  BY <2>1, <3>2, <4>1, RecordKeeps
    <3> QED  BY <3>1, <3>2
  <2> QED  BY <1>2, <2>4, <2>5, ValueKept
<1>6. CASE ~(ClearPrivate(c) \/ LowestPrio(c) \/ NoTargets(c) \/ Config(c) \/ StoreReg(c))
  <2>1. ~Filling(c, k)
    BY <1>6, FillingIs DEF Fields
  <2> QED  BY <1>2, <1>6, <2>1, AskedKept, ValueKept
<1>7. "prio" \in Fields /\ "trgt" \in Fields /\ "cfg" \in Fields
  BY DEF Fields
<1> QED  BY <1>3, <1>4, <1>5, <1>6, <1>7, FillingIs

LEMMA FieldsStep ==
  ASSUME GicTypeOK, LoadedOK, FieldsOK, NEW c \in Cores, CpuNext(c)
  PROVE  FieldsOK'
<1> SUFFICES ASSUME NEW k \in Fields, NEW l \in Lines
             PROVE  ValueNext(k, l, fields'[k][l])
  BY DEF FieldsOK, ValueOK, ValueNext, AsAsked
<1>1. ValueOK(k, l, fields[k][l])
  BY DEF FieldsOK
<1>2. RegsOK /\ version \in {2, 3} /\ version' = version
  BY FrameStep DEF GicTypeOK, RegsOK, Frame
<1>3. ASSUME fields'[k][l] = fields[k][l],
             ClearPrivate(c) => l[1] # c \/ k # "prio",
             ~Replaces(c, k, l),
             Filling(c, k) => ~LoopReaches(c, k, FillFrom(k), l)
      PROVE  ValueNext(k, l, fields'[k][l])
  BY <1>1, <1>3, ValueStep
<1>4. CASE ClearPrivate(c)
  <2>1. fields'[k][l] = IF k = "prio" /\ l[1] = c THEN LOWEST ELSE fields[k][l]
    BY <1>2, <1>4, ClearPrivateEffect
  <2>2. CASE k = "prio" /\ l[1] = c
    <3> DEFINE reached == {x \in Lines : x[1] = c}
    <3>1. asked' = Forgotten(Flags \cup {"prio"}, reached)
      BY <1>4 DEF ClearPrivate
    <3>2. k \in Flags \cup {"prio"} /\ l \in reached
      BY <2>2
    <3> HIDE DEF reached
    <3>3. <<k, l>> \notin DOMAIN asked'
      BY <3>1, <3>2, ForgottenDrops
    <3> QED  BY <2>1, <2>2, <3>3 DEF ValueNext, Default
  <2>3. CASE ~(k = "prio" /\ l[1] = c)
    <3>1. ~Filling(c, k) /\ ~Replaces(c, k, l)
      BY <1>4 DEF ClearPrivate, Replaces, StoreReg, Filling, FillFields, FillOp, Doing, Fields
    <3> QED  BY <1>3, <2>1, <2>3, <3>1
  <2> QED  BY <2>2, <2>3
<1>5. ASSUME NEW j \in Fields, Filling(c, j) PROVE ValueNext(k, l, fields'[k][l])
  <2> DEFINE reached == {x \in Lines : LoopReaches(c, j, FillFrom(j), x)}
  <2>0. asked' = Forgotten({j}, reached) /\ Head(todo[c]).op = FillOp(j)
    BY <1>5, FillingEffect
  <2>1. fields'[k][l] = IF k = j /\ LoopReaches(c, j, FillFrom(j), l) THEN Default(j)
                                                                   ELSE fields[k][l]
    <3>1. \A f \in Fields, x \in Lines :
            fields'[f][x] = IF f = j /\ LoopReaches(c, j, FillFrom(j), x) THEN Default(j)
                                                                       ELSE fields[f][x]
      BY <1>5, FillingEffect
    <3> QED  BY <3>1
  <2>2. CASE k = j /\ l \in reached
    <3>1. <<k, l>> \notin DOMAIN asked'
      <4>1. k \in {j} /\ l \in reached
        BY <2>2
      <4> HIDE DEF reached
      <4> QED  BY <2>0, <4>1, ForgottenDrops
    <3> QED  BY <2>1, <2>2, <3>1 DEF ValueNext
  <2>3. CASE ~(k = j /\ l \in reached)
    <3>1. ~ClearPrivate(c) /\ ~Replaces(c, k, l)
      BY <1>5 DEF ClearPrivate, Replaces, StoreReg, Filling, FillFields, FillOp, Doing, Fields
    <3>2. Filling(c, k) => k = j
      <4> SUFFICES ASSUME Filling(c, k) PROVE k = j
        OBVIOUS
      <4>1. FillOp(k) = FillOp(j)
        BY <2>0, FillingEffect
      <4> QED  BY <4>1 DEF FillOp, Fields
    <3> QED  BY <1>3, <2>1, <2>3, <3>1, <3>2
  <2> QED  BY <2>2, <2>3
<1>6. CASE StoreReg(c)
  <2> DEFINE op == Head(todo[c])
             cell == Cell(c, op.op, op.id)
             none == op.op = "trgt" /\ LockOf(op.id) = "gicr"
  <2>1. /\ op.op \in Fields /\ op.id \in IDS
        /\ none => fields' = fields
        /\ ~none => /\ Record(c, op.op, op.id, op.val)
                    /\ fields'[k][l] = IF k # op.op THEN fields[k][l]
                                       ELSE IF l = cell THEN op.val
                                       ELSE IF l \in DOMAIN tmp[c] THEN tmp[c][l] ELSE fields[k][l]
    BY <1>6, StoreEffect
  <2>2. ~(version = 3 /\ op.id = 32) => cell = Line(c, op.id)
    BY <1>2, <2>1, CellFacts
  <2>3. phase[c] = "loaded" /\ Doing(c, Fields) /\ ~ClearPrivate(c) /\ ~Filling(c, k)
    BY <1>6 DEF StoreReg, ClearPrivate, Filling, FillFields, FillOp, Doing, Fields
  <2>4. Replaces(c, k, l) <=> k = op.op /\ l = cell /\ ~none
    BY <1>6 DEF Replaces
  <2>5. CASE Replaces(c, k, l)
    <3>1. CASE version = 3 /\ op.id = 32
      <4>1. <<k, l>> \notin DOMAIN asked'
        BY <2>1, <2>4, <2>5, <3>1, RecordDrops
      <4>2. ~FieldsFilled(k, l)'
        BY <1>2, <3>1 DEF FieldsFilled
      <4> QED  BY <4>1, <4>2 DEF ValueNext
    <3>2. CASE ~(version = 3 /\ op.id = 32)
      <4>1. <<k, l>> \in DOMAIN asked' /\ asked'[<<k, l>>] = op.val
        BY <2>1, <2>2, <2>4, <2>5, <3>2, RecordSets
      <4>2. fields'[k][l] = op.val
        BY <2>1, <2>4, <2>5
      <4> HIDE DEF op
      <4> QED  BY <4>1, <4>2 DEF ValueNext
    <3> QED  BY <3>1, <3>2
  <2>6. CASE ~Replaces(c, k, l) /\ ~none /\ k = op.op /\ l \in DOMAIN tmp[c]
    <3>1. ValueOK(op.op, l, tmp[c][l])
      BY <2>3, <2>6 DEF LoadedOK
    <3>2. ValueOK(k, l, tmp[c][l])
      BY <2>6, <3>1
    <3>3. fields'[k][l] = tmp[c][l]
      BY <2>1, <2>4, <2>6
    <3>4. ValueNext(k, l, tmp[c][l])
      BY <2>3, <2>6, <3>2, ValueStep
    <3> QED  BY <3>3, <3>4
  <2>7. CASE ~Replaces(c, k, l) /\ (none \/ k # op.op \/ l \notin DOMAIN tmp[c])
    <3>1. fields'[k][l] = fields[k][l]
      BY <2>1, <2>4, <2>7
    <3> QED  BY <1>3, <2>3, <2>7, <3>1
  <2> QED  BY <2>5, <2>6, <2>7
<1>7. CASE ~(ClearPrivate(c) \/ LowestPrio(c) \/ NoTargets(c) \/ Config(c) \/ StoreReg(c))
  <2>1. fields' = fields /\ ~Filling(c, k) /\ ~Replaces(c, k, l)
    BY <1>7, FieldsUnchanged, FillingIs DEF Fields, Replaces
  <2> QED  BY <1>3, <1>7, <2>1
<1>8. "prio" \in Fields /\ "trgt" \in Fields /\ "cfg" \in Fields
  BY DEF Fields
<1> QED  BY <1>4, <1>5, <1>6, <1>7, <1>8, FillingIs

(* Two CPUs under a lock hold different locks, and reach different banks.  *)
LEMMA OtherBank ==
  ASSUME GicTypeOK, LocksOK, NEW c \in Cores, NEW d \in Cores, d # c, StoreReg(c), Inside(d),
         NEW k \in Fields
  PROVE  LET op == Head(todo[c])
         IN Cell(c, op.op, op.id)[1] # Cell(d, k, Head(todo[d]).id)[1]
<1> DEFINE op == Head(todo[c])
           id == Head(todo[d]).id
<1>1. op.op \in Fields /\ op.id \in IDS /\ id \in IDS /\ version \in {2, 3} /\ NoCpu \notin Cores
  BY StoreEffect, InsideHead, Zero DEF GicTypeOK, RegsOK
<1>2. locks[LockOf(op.id)] = c /\ locks[LockOf(id)] = d
  BY HeldInside DEF HeldSteps, LocksOK
<1>3. LockOf(op.id) # LockOf(id)
  BY <1>2
<1>4. /\ Cell(c, op.op, op.id)[1] \in {c, NoCpu} /\ LockOf(op.id) \in {"gicd", "gicr"}
      /\ version = 3 => (Cell(c, op.op, op.id)[1] = NoCpu <=> LockOf(op.id) = "gicd")
      /\ version = 2 => LockOf(op.id) = "gicd"
  BY <1>1, CellFacts
<1>5. /\ Cell(d, k, id)[1] \in {d, NoCpu} /\ LockOf(id) \in {"gicd", "gicr"}
      /\ version = 3 => (Cell(d, k, id)[1] = NoCpu <=> LockOf(id) = "gicd")
      /\ version = 2 => LockOf(id) = "gicd"
  BY <1>1, CellFacts
<1> HIDE DEF op, id
<1>6. Cell(c, op.op, op.id)[1] # Cell(d, k, id)[1]
  BY <1>1, <1>3, <1>4, <1>5
<1> QED  BY <1>6 DEF op, id

LEMMA LoadedStep ==
  ASSUME GicTypeOK, EarlyOK, LocksOK, LoadedOK, FieldsOK, NEW c \in Cores, CpuNext(c)
  PROVE  LoadedOK'
<1>1. Frame(c) /\ version' = version /\ version \in {2, 3}
  BY FrameStep DEF Frame, GicTypeOK, RegsOK
<1>2. \A d, k, id : Cell(d, k, id)' = Cell(d, k, id)
  BY <1>1 DEF Cell
<1>3. ASSUME NEW d \in Cores, phase'[d] = "loaded", Doing(d, Fields)',
             NEW l \in Lines, l \in DOMAIN tmp'[d], NEW k, k = Head(todo'[d]).op
      PROVE  l[1] = Cell(d, k, Head(todo'[d]).id)[1] /\ ValueNext(k, l, tmp'[d][l])
  <2>1. Inside(d)' /\ k \in Fields
    BY <1>3 DEF Inside, Doing, LockedOps
  <2>2. CASE d # c
    <3> DEFINE id == Head(todo[d]).id
    <3>1. todo'[d] = todo[d] /\ phase'[d] = phase[d] /\ tmp'[d] = tmp[d]
      BY <1>1, <2>2 DEF Frame
    <3>2. Inside(d) /\ phase[d] = "loaded" /\ Doing(d, Fields) /\ k = Head(todo[d]).op
      BY <1>3, <2>1, <3>1 DEF Inside, Doing
    <3>3. l[1] = Cell(d, k, id)[1] /\ ValueOK(k, l, tmp[d][l])
      BY <1>3, <3>1, <3>2 DEF LoadedOK
    <3>4. id \in IDS /\ d \in up
      BY <3>2, InsideHead
    <3>5. l[1] # c
      BY <1>1, <2>1, <2>2, <3>3, <3>4, CellFacts, Zero
    <3>6. ~Replaces(c, k, l)
      BY <2>1, <2>2, <3>2, <3>3, OtherBank DEF Replaces
    <3>7. Filling(c, k) => early
      <4> SUFFICES ASSUME Filling(c, k) PROVE early
        OBVIOUS
      <4>1. todo[c] # << >> /\ Head(todo[c]).op \in DistOps
        BY <2>1, FillingEffect
      <4> QED  BY <2>2, <3>4, <4>1, EarlyFacts
    <3>8. ValueNext(k, l, tmp[d][l])
      BY <2>1, <3>3, <3>5, <3>6, <3>7, ValueStep
    <3> QED  BY <3>1, <3>3, <3>8
  <2>3. CASE d = c
    <3>1. (Lock(c) \/ HeldSteps(c)) /\ todo'[c] = todo[c]
      BY <2>1, <2>3, InsideBefore DEF Stays
    <3>2. ~GetState(c)
      BY <1>3, <2>3, <3>1 DEF GetState, Doing, Fields
    <3>3. LoadReg(c) /\ k = Head(todo[c]).op
      BY <1>3, <2>3, <3>1, <3>2, StayEffect DEF HeldSteps
    <3>4. tmp = [x \in Cores |-> tmp[x]]
      BY DEF GicTypeOK
    <3> DEFINE cell == Cell(c, k, Head(todo[c]).id)
    <3>5. tmp'[c] = [x \in SameReg(k, cell) |-> fields[k][x]]
      BY <3>3, <3>4 DEF LoadReg
    <3> HIDE DEF cell
    <3>6. l \in SameReg(k, cell) /\ tmp'[c][l] = fields[k][l]
      BY <1>3, <2>3, <3>5
    <3>7. l[1] = cell[1]
      BY <3>6 DEF SameReg
    <3>8. ValueOK(k, l, fields[k][l])
      BY <2>1 DEF FieldsOK
    <3>9. ~ClearPrivate(c) /\ ~Replaces(c, k, l) /\ ~Filling(c, k)
      BY <3>3 DEF LoadReg, ClearPrivate, Replaces, StoreReg, Filling, FillFields, FillOp, Doing, Fields
    <3>10. ValueNext(k, l, fields[k][l])
      BY <2>1, <3>8, <3>9, ValueStep
    <3> QED  BY <2>3, <3>1, <3>6, <3>7, <3>10 DEF cell
  <2> QED  BY <2>2, <2>3
<1>4. ASSUME NEW d \in Cores, phase'[d] = "loaded", Doing(d, Fields)', NEW l \in Lines, l \in DOMAIN tmp'[d]
      PROVE  (LET op == Head(todo[d])
              IN l[1] = Cell(d, op.op, op.id)[1] /\ ValueOK(op.op, l, tmp[d][l]))'
  <2>1. PICK k : k = Head(todo'[d]).op
    OBVIOUS
  <2>2. l[1] = Cell(d, k, Head(todo'[d]).id)[1] /\ ValueNext(k, l, tmp'[d][l])
    BY <1>3, <1>4, <2>1
  <2> QED
    BY <1>1, <2>1, <2>2
       DEF Cell, ValueOK, ValueNext, AsAsked, FieldsFilled, Passed, Steps, FillOp, Default
<1> QED  BY <1>4 DEF LoadedOK

-----------------------------------------------------------------------------
(* Routes.                                                                 *)

(* A CPU between the two stores of gic_set_route can only do the second.   *)
LEMMA LowStays ==
  ASSUME GicTypeOK, NEW c \in Cores, CpuNext(c), NEW d \in Cores, phase[d] = "low",
         ~(d = c /\ RouteHigh(c))
  PROVE  phase'[d] = "low" /\ todo'[d] = todo[d]
<1>1. PhaseOK(d) /\ ListOK(d)
  BY DEF GicTypeOK, ListsOK
<1>2. Doing(d, {"route"}) /\ ~gic_is_priv(Head(todo[d]).id)
  BY <1>1 DEF PhaseOK
<1>3. todo[d] # << >> /\ Head(todo[d]).op = "route" /\ d \in up
  BY <1>1, <1>2 DEF Doing, ListOK
<1>4. ASSUME d = c PROVE FALSE
  <2>1. SetRoute(c)
    BY <1>3, <1>4 DEF CpuNext, Start, CtlrLoad, CtlrStore, Wake, ClearPrivate, gicc_init, ClearSpis,
       SpiClearedTo, LowestPrio, NoTargets, Config, FillFields, Call, Lock, SetFlag, LoadReg, StoreReg,
       GetPrio, GetState, Unlock, GetTrgt, SendSgi, Doing, LockedOps, Flags, Fields
  <2> QED  BY <1>2, <1>4, <2>1, RouteEffect DEF RouteNone, RouteLow
<1> QED  BY <1>4, FrameStep DEF Frame

LEMMA RouteStep ==
  ASSUME GicTypeOK, RouteOK, NEW c \in Cores, CpuNext(c)
  PROVE  RouteOK'
<1> DEFINE half(l) == \E d \in Cores : phase[d] = "low" /\ Head(todo[d]).id = l[2]
           good(l) == <<"route", l>> \in DOMAIN asked =>
                        route[l].lo = asked[<<"route", l>>] /\ (route[l].hi = 0 \/ half(l))
<1> SUFFICES ASSUME NEW l \in SharedLines PROVE good(l)'
  BY DEF RouteOK, SharedLines
<1>1. good(l)
  BY DEF RouteOK
<1>2. /\ route \in [SharedLines -> [lo : Cores \cup {NoCpu}, hi : {0, 1}]]
      /\ l \in Lines /\ l[1] = NoCpu /\ l[2] >= 32 /\ l[2] \in Nat /\ l = <<NoCpu, l[2]>> /\ c # NoCpu
  BY LinesFacts, Zero DEF GicTypeOK, RegsOK, SharedLines
<1>3. ASSUME NEW d \in Cores, phase[d] = "low", Head(todo[d]).id = l[2], ~(d = c /\ RouteHigh(c))
      PROVE  half(l)'
  <2>1. phase'[d] = "low" /\ todo'[d] = todo[d]
    BY <1>3, LowStays
  <2> QED  BY <1>3, <2>1
<1>4. ASSUME SameAsked("route", l), route'[l] = route[l],
             \A d \in Cores : phase[d] = "low" /\ Head(todo[d]).id = l[2] => ~(d = c /\ RouteHigh(c))
      PROVE  good(l)'
  <2>1. half(l) => half(l)'
    BY <1>3, <1>4
  <2> HIDE DEF half
  <2> QED  BY <1>1, <1>4, <2>1 DEF SameAsked
<1>5. CASE SetRoute(c)
  <2> DEFINE op == Head(todo[c])
             r == Line(c, op.id)
  <2>1. todo[c] # << >> /\ op.op = "route" /\ op.op \notin InitOps
    BY <1>5 DEF SetRoute, Doing, InitOps
  <2>2. op.id \in IDS /\ op.val \in Cores /\ PhaseOK(c)
    BY <2>1, HeadFacts DEF Args, Flags, Fields, GicTypeOK, ListsOK
  <2>3. r \in Lines /\ r[2] = op.id /\ (op.id >= 32 => r = <<NoCpu, op.id>> /\ r \in SharedLines) /\ op.id \in Nat
    BY <2>2, LineFacts DEF SharedLines
  <2>4. CASE RouteNone(c)
    <3>1. phase[c] # "low"
      BY <2>2, <2>4 DEF RouteNone, PhaseOK
    <3>2. ~RouteHigh(c) /\ route' = route /\ asked' = asked
      BY <2>4, <3>1 DEF RouteHigh, RouteNone
    <3> QED  BY <1>4, <3>2 DEF SameAsked
  <2>5. CASE RouteLow(c)
    <3>1. /\ op.id >= 32 /\ route' = [route EXCEPT ![r].lo = op.val]
          /\ asked' = Noted(<<"route", r>>, op.val)
          /\ phase'[c] = "low" /\ todo'[c] = todo[c] /\ phase[c] = "out"
      BY <2>3, <2>5 DEF RouteLow, gic_is_priv, GIC_CPU_PRIV, Stays
    <3>2. ~RouteHigh(c)
      BY <3>1 DEF RouteHigh
    <3>3. CASE l = r
      <4>1. half(l)'
        BY <2>3, <3>1, <3>3
      <4> HIDE DEF half, op, r
      <4>2. route'[l].lo = op.val
        BY <1>2, <2>2, <3>1, <3>3
      <4>3. asked'[<<"route", l>>] = op.val
        BY <3>1, <3>3 DEF Noted
      <4> QED  BY <4>1, <4>2, <4>3
    <3>4. CASE l # r
      <4> HIDE DEF op, r
      <4>1. route'[l] = route[l]
        BY <1>2, <2>2, <2>3, <3>1, <3>4
      <4>2. SameAsked("route", l)
        BY <3>1, <3>4 DEF SameAsked, Noted
      <4> QED  BY <1>4, <3>2, <4>1, <4>2
    <3> QED  BY <3>3, <3>4
  <2>6. CASE RouteHigh(c)
    <3>1. op.id >= 32 /\ r = <<NoCpu, op.id>> /\ r \in SharedLines
      BY <2>2, <2>3, <2>6 DEF RouteHigh, PhaseOK, gic_is_priv, GIC_CPU_PRIV
    <3>2. route' = [route EXCEPT ![r].hi = 0] /\ asked' = asked
      BY <2>6 DEF RouteHigh
    <3>3. CASE l = r
      <4> HIDE DEF op, r
      <4>1. route'[l].lo = route[l].lo /\ route'[l].hi = 0
        BY <1>2, <3>1, <3>2, <3>3
      <4> QED  BY <1>1, <3>2, <4>1
    <3>4. CASE l # r
      <4>1. op.id # l[2]
        BY <1>2, <3>1, <3>4
      <4>2. \A d \in Cores : phase[d] = "low" /\ Head(todo[d]).id = l[2] => d # c
        BY <4>1
      <4> HIDE DEF op, r
      <4>3. route'[l] = route[l]
        BY <1>2, <3>1, <3>2, <3>4
      <4> QED  BY <1>4, <3>2, <4>2, <4>3 DEF SameAsked
    <3> QED  BY <3>3, <3>4
  <2> QED  BY <1>5, <2>4, <2>5, <2>6, RouteEffect
<1>6. CASE ~SetRoute(c)
  <2>1. route' = route
    BY <1>6 DEF CpuNext, Start, CtlrLoad, CtlrStore, Wake, ClearPrivate, gicc_init, ClearSpis,
       SpiClearedTo, LowestPrio, NoTargets, Config, FillFields, Call, Lock, SetFlag, LoadReg, StoreReg,
       GetPrio, GetState, Unlock, GetTrgt, SendSgi, regs
  <2>2. \A d \in Cores : phase[d] = "low" /\ Head(todo[d]).id = l[2] => d # c
    <3> SUFFICES ASSUME phase[c] = "low" PROVE FALSE
      OBVIOUS
    <3>1. Doing(c, {"route"}) /\ c \in up
      BY OneKind DEF GicTypeOK, ListsOK, PhaseOK, Doing
    <3> QED
      BY <1>6, <3>1 DEF CpuNext, Start, CtlrLoad, CtlrStore, Wake, ClearPrivate, gicc_init, ClearSpis,
         SpiClearedTo, LowestPrio, NoTargets, Config, FillFields, Call, Lock, SetFlag, LoadReg, StoreReg,
         GetPrio, GetState, Unlock, GetTrgt, SendSgi, Doing, LockedOps, Flags, Fields
  <2>3. SameAsked("route", l)
    <3>1. CASE ClearPrivate(c)
      <4>1. \E R : asked' = Forgotten(Flags \cup {"prio"}, R)
        BY <3>1 DEF ClearPrivate
      <4>2. "route" \notin Flags \cup {"prio"}
        BY DEF Flags
      <4> QED  BY <4>1, <4>2, ForgottenKeeps
    <3>2. CASE SetFlag(c)
      <4> DEFINE op == Head(todo[c])
      <4>1. op.op \in Flags /\ Record(c, op.op, op.id, op.val)
        BY <3>2 DEF SetFlag, Doing
      <4>2. op.op # "route"
        BY <4>1 DEF Flags
      <4> HIDE DEF op
      <4> QED  BY <4>1, <4>2, RecordKeeps
    <3>3. CASE StoreReg(c)
      <4> DEFINE op == Head(todo[c])
      <4>1. op.op \in Fields /\ (asked' = asked \/ Record(c, op.op, op.id, op.val))
        BY <3>3, StoreEffect
      <4>2. op.op # "route"
        BY <4>1 DEF Fields
      <4> HIDE DEF op
      <4>3. CASE asked' = asked
        BY <4>3 DEF SameAsked
      <4>4. CASE Record(c, op.op, op.id, op.val)
        BY <4>2, <4>4, RecordKeeps
      <4> QED  BY <4>1, <4>3, <4>4
    <3>4. CASE SendSgi(c)
      <4>1. asked' = asked \/ \E v, num : Record(v, "pend", num, TRUE)
        BY <3>4 DEF SendSgi
      <4>2. CASE asked' = asked
        BY <4>2 DEF SameAsked
      <4>3. CASE asked' # asked
        <5>1. PICK v, num : Record(v, "pend", num, TRUE)
          BY <4>1, <4>3
        <5>2. "route" # "pend"
          OBVIOUS
        <5> QED  BY <5>1, <5>2, RecordKeeps, Zenon
      <4> QED  BY <4>2, <4>3
    <3>5. CASE ClearSpis(c) \/ LowestPrio(c) \/ NoTargets(c) \/ Config(c)
      <4>1. \E K, R : asked' = Forgotten(K, R) /\ "route" \notin K
        BY <3>5 DEF ClearSpis, SpiClearedTo, LowestPrio, NoTargets, Config, FillFields, Flags
      <4> QED  BY <4>1, ForgottenKeeps
    <3>6. CASE ~(\/ ClearPrivate(c) \/ SetFlag(c) \/ StoreReg(c) \/ SendSgi(c)
                 \/ ClearSpis(c) \/ LowestPrio(c) \/ NoTargets(c) \/ Config(c))
      <4>1. asked' = asked
        BY <1>6, <3>6 DEF CpuNext, Start, CtlrLoad, CtlrStore, Wake, gicc_init, Call, Lock, LoadReg,
                    GetPrio, GetState, Unlock, GetTrgt
      <4> QED  BY <4>1 DEF SameAsked
    <3> QED  BY <3>1, <3>2, <3>3, <3>4, <3>5, <3>6
  <2> QED  BY <1>4, <2>1, <2>2, <2>3
<1> QED  BY <1>5, <1>6

-----------------------------------------------------------------------------
(* The inductive invariant of the GIC drivers.                             *)
GicInv ==
  /\ GicTypeOK /\ EarlyOK /\ CtlrOK /\ FlagsOK
  /\ LocksOK /\ LoadedOK /\ FieldsOK /\ RouteOK

LEMMA GicInitInv == GicInit => GicInv
<1> SUFFICES ASSUME GicInit PROVE GicInv
  OBVIOUS
<1>1. GicTypeOK /\ up = {} /\ DOMAIN asked = {} /\ ~behind
  <2>1. asked = << >>
    BY DEF GicInit
  <2>2. up = {} /\ ~behind
    BY DEF GicInit
  <2> QED  BY <2>1, <2>2, GicInitType
<1>2. \A c \in Cores : todo[c] = << >> /\ phase[c] = "out"
  BY DEF GicInit
<1>3. EarlyOK /\ CtlrOK
  BY <1>1, <1>2 DEF EarlyOK, CtlrOK
<1>4. FlagsOK
  BY <1>1 DEF FlagsOK, FlagOK, AsAsked, FlagsCleared, Passed
<1>5. FieldsOK
  BY <1>1 DEF FieldsOK, ValueOK, AsAsked, FieldsFilled, Passed
<1>6. LocksOK /\ LoadedOK /\ RouteOK
  BY <1>1, <1>2 DEF LocksOK, Inside, LoadedOK, RouteOK
<1> QED  BY <1>1, <1>3, <1>4, <1>5, <1>6 DEF GicInv

LEMMA GicInvariance == GicSpec => []GicInv
<1>1. GicInv /\ [GicNext]_gicVars => GicInv'
  <2> SUFFICES ASSUME GicInv, [GicNext]_gicVars PROVE GicInv'
    OBVIOUS
  <2>1. CASE GicNext
    <3>1. PICK c \in Cores : CpuNext(c)
      BY <2>1 DEF GicNext
    <3> QED  BY <3>1, GicTypeStep, EarlyStep, CtlrStep, FlagsStep, LocksStep, LoadedStep, FieldsStep,
                RouteStep DEF GicInv
  <2>2. CASE UNCHANGED gicVars
    <3> USE <2>2 DEF gicVars, regs, local, race, GicInv
    <3>1. GicTypeOK'
      BY DEF GicTypeOK, RegsOK, ListsOK, ListOK, PhaseOK, TmpOK, Steps, Doing
    <3>2. EarlyOK' /\ CtlrOK'
      BY DEF EarlyOK, CtlrOK, Ready, Steps, Doing
    <3>3. FlagsOK'
      BY DEF FlagsOK, FlagOK, AsAsked, FlagsCleared, Passed, Steps
    <3>4. FieldsOK'
      BY DEF FieldsOK, ValueOK, AsAsked, FieldsFilled, Passed, Steps
    <3>5. LocksOK' /\ RouteOK'
      BY DEF LocksOK, Inside, Doing, LockOf, RouteOK
    <3>6. LoadedOK'
      BY DEF LoadedOK, Doing, Cell, ValueOK, AsAsked, FieldsFilled, Passed, Steps
    <3> QED  BY <3>1, <3>2, <3>3, <3>4, <3>5, <3>6
  <2> QED  BY <2>1, <2>2
<1> QED  BY <1>1, GicInitInv, PTL DEF GicSpec

-----------------------------------------------------------------------------
(* In any start order, once CPU 0 has returned from gic_init the           *)
(* distributor stays enabled, although every CPU adds a bit to GICD_CTLR   *)
(* without a lock in gic_cpu_init, unless a CPU entered gic_init early and *)
(* was between load and store when CPU 0 enabled the distributor.          *)
THEOREM DistributorOn == GicSpec => []DistributorStaysOn
<1>1. GicInv => DistributorStaysOn
  <2> SUFFICES ASSUME CtlrOK, Ready(0), ctlr \cap {"EN", "ENA"} = {} PROVE early /\ behind
    BY DEF GicInv, DistributorStaysOn
  <2>1. 0 \in up /\ \A s \in Steps(0) : s.op \notin InitOps
    BY ReadyIs, Zero
  <2>2. \A s \in Steps(0) : ~TurnsOn(s)
    BY <2>1 DEF TurnsOn, InitOps
  <2> QED  BY <2>1, <2>2 DEF CtlrOK, On
<1> QED  BY <1>1, GicInvariance, PTL

(* For any number of CPUs, any interrupts and any start order: the enable, *)
(* pending and active bits are what the last call on the interrupt asked   *)
(* for, until gic_init clears them, however the calls interleave; only a   *)
(* call on interrupt 32 of a GICv3 reaches another interrupt.              *)
THEOREM FlagsKeptApart == GicSpec => []FlagsAsAsked
<1>1. GicInv => FlagsAsAsked
  BY DEF GicInv, FlagsOK, FlagOK, FlagsAsAsked
<1> QED  BY <1>1, GicInvariance, PTL

(* The same for the fields that are read, masked and written back: under   *)
(* gicd_lock or gicr_lock no update of a neighbour in the register is      *)
(* lost, in any start order; and a route is what was asked for unless it   *)
(* is half written.                                                        *)
THEOREM FieldsKeptApart == GicSpec => []FieldsAsAsked
<1>1. GicInv => FieldsAsAsked
  <2> SUFFICES ASSUME GicInv PROVE FieldsAsAsked
    OBVIOUS
  <2>1. FieldsOK /\ RouteOK /\ RegsOK
    BY DEF GicInv, GicTypeOK
  <2>2. \A k \in Fields, l \in Lines : AsAsked(k, l, fields[k][l])
    BY <2>1 DEF FieldsOK, ValueOK
  <2>3. ASSUME NEW l \in DOMAIN route,
               \A c \in Cores : ~(phase[c] = "low" /\ Head(todo[c]).id = l[2]),
               <<"route", l>> \in DOMAIN asked
        PROVE  route[l] = [lo |-> asked[<<"route", l>>], hi |-> 0]
    <3>1. l \in SharedLines /\ route[l] \in [lo : Cores \cup {NoCpu}, hi : {0, 1}]
      BY <2>1, <2>3 DEF RegsOK
    <3>2. route[l].lo = asked[<<"route", l>>] /\ route[l].hi = 0
      BY <2>1, <2>3, <3>1 DEF RouteOK
    <3> QED  BY <3>1, <3>2
  <2> QED  BY <2>2, <2>3 DEF FieldsAsAsked
<1> QED  BY <1>1, GicInvariance, PTL

(* gicv2.c: gic_init resets every interrupt, and it stays reset until the  *)
(* first call on it, whatever is called on its neighbours; the fields that *)
(* are read and written back, unless a CPU entered gic_init early.         *)
THEOREM GicReset == GicSpec => []ResetV2
<1>1. GicInv => ResetV2
  <2> SUFFICES ASSUME FlagsOK, FieldsOK, version = 2, NEW k \in Flags \cup Fields, NEW l \in Lines,
                      Initialised(l), Untouched(k, l), k \in Flags \/ ~early,
                      l[1] = NoCpu \/ k \notin {"trgt", "cfg"}
               PROVE  Reset(k, l)
    BY DEF GicInv, ResetV2
  <2>1. Ready(0) /\ (l[1] # NoCpu => Ready(l[1]) /\ l[1] \in Cores) /\ <<k, l>> \notin DOMAIN asked
    BY LinesFacts DEF Initialised, Untouched
  <2>2. \A c \in Cores, op \in InitOps : Ready(c) => Passed(c, op)
    BY ReadyIs DEF Passed
  <2>3. CASE k \in Flags
    <3>1. FlagsCleared(l)
      BY <2>1, <2>2, Zero DEF FlagsCleared, InitOps
    <3>2. l \notin flags[k]
      BY <2>1, <2>3, <3>1 DEF FlagsOK, FlagOK
    <3>3. k # "prio" /\ k # "trgt" /\ k # "cfg"
      BY <2>3 DEF Flags
    <3>4. Reset(k, l) <=> l \notin flags[k]
      BY <2>3, <3>3 DEF Reset
    <3> QED  BY <3>2, <3>4
  <2>4. CASE k \in Fields
    <3>1. k \notin Flags /\ ~early
      BY <2>4 DEF Flags, Fields
    <3>2. FieldsFilled(k, l)
      <4>1. FillOp(k) \in InitOps
        BY DEF FillOp, InitOps
      <4>2. "clear_private" \in InitOps
        BY DEF InitOps
      <4> QED  BY <2>1, <2>2, <2>4, <3>1, <4>1, <4>2, Zero DEF FieldsFilled, Fields
    <3>3. fields[k][l] = Default(k)
      BY <2>1, <2>4, <3>2 DEF FieldsOK, ValueOK
    <3>4. Reset("prio", l) <=> fields["prio"][l] = LOWEST
      BY DEF Reset, Flags
    <3>5. Reset("trgt", l) <=> fields["trgt"][l] = {}
      BY DEF Reset, Flags
    <3>6. Reset("cfg", l) <=> fields["cfg"][l] = 2
      BY DEF Reset, Flags
    <3> QED  BY <2>4, <3>3, <3>4, <3>5, <3>6 DEF Default, Fields
  <2> QED  BY <2>3, <2>4
<1> QED  BY <1>1, GicInvariance, PTL
=============================================================================
