-------------------------------- MODULE Gic --------------------------------
(***************************************************************************)
(* The Arm interrupt controller drivers, gicv2.c and gicv3.c: gic_init on  *)
(* every CPU, then calls of the gic_ functions and of irq_enable by CPUs   *)
(* that share the distributor.                                             *)
(*                                                                         *)
(* A register packs fields of several interrupts: 32 flags, 4 priorities   *)
(* or targets, 16 configurations.  The module keeps the fields of a few    *)
(* interrupts, those of IDS, one copy per CPU of a private interrupt (its  *)
(* redistributor, or its bank of the GICv2 distributor).  Enable, pending  *)
(* and active bits are set and cleared by writing ones; the other fields   *)
(* are changed by reading a register, masking and writing it back, which   *)
(* are two steps here.  Registers keep what is written: no interrupt is    *)
(* raised (module Interrupts has them).  spin_lock is one step (module     *)
(* Lock, which the Spinlock module implements).                            *)
(*                                                                         *)
(* Each CPU has a list of the steps left of the function it is in.         *)
(***************************************************************************)
EXTENDS Integers, Sequences

CONSTANTS
  NumCpus,
  IDS,        \* the interrupts whose fields are kept
  CALL_IDS,   \* those the callers name
  ITLN,       \* GICD_TYPER.ITLinesNumber: 32 * (ITLN + 1) interrupts
  PRIOS,      \* priorities the callers ask for
  MAX_CALLS   \* bound: calls of all CPUs together

GIC_MAX_SGIS == 16
GIC_CPU_PRIV == 32
LOWEST == 255             \* a priority field of ones

Cores == 0 .. NumCpus - 1
NoCpu == -1               \* holds no lock; also the bank of the distributor

ASSUME GicAssumption ==
  /\ NumCpus \in Nat \ {0}
  /\ ITLN \in 1 .. 31
  /\ CALL_IDS \subseteq IDS /\ IDS \subseteq 0 .. 32 * (ITLN + 1) - 1
  /\ PRIOS \subseteq 0 .. LOWEST
  /\ MAX_CALLS \in Nat

Flags == {"enable", "pend", "act"}
Fields == {"prio", "trgt", "cfg"}

gic_is_priv(id) == id < GIC_CPU_PRIV

(* The field of interrupt id as CPU c sees it: <<bank, id>>.               *)
Line(c, id) == <<IF gic_is_priv(id) THEN c ELSE NoCpu, id>>
Lines == {Line(c, id) : c \in Cores, id \in IDS}

(* GIC_PRIO_BITS, GIC_TARGET_BITS, GIC_CONFIG_BITS, and the register and   *)
(* the position in it of a field.                                          *)
Width == [prio |-> 8, trgt |-> 8, cfg |-> 2]
RegOf(k, id) == (id * Width[k]) \div 32
OffOf(k, id) == (id * Width[k]) % 32
SameReg(k, cell) ==
  {l \in Lines : l[1] = cell[1] /\ RegOf(k, l[2]) = RegOf(k, cell[2])}

VARIABLES
  version,    \* GIC_VERSION
  ctlr,       \* bits of GICD_CTLR
  asleep,     \* redistributors with ChildrenAsleep
  iface,      \* CPUs whose CPU interface is enabled
  flags,      \* the lines that are enabled, pending, active
  fields,     \* priority, targets and configuration of the lines
  route,      \* IROUTER of the shared interrupts, as two words
  locks,      \* the holders of gicd_lock and gicr_lock
  up,         \* CPUs that have entered gic_init
  todo,       \* per CPU, the steps left
  phase,      \* per CPU, where it is in the first of them
  tmp,        \* per CPU, the register it has loaded
  ret,        \* per CPU, what a get function returns
  calls,      \* calls so far
  asked,      \* history: the last value asked for, per kind and line
  early,      \* history: a CPU entered gic_init before CPU 0 left it
  behind      \* history: another CPU was between its load and its store of
              \* GICD_CTLR when CPU 0 enabled the distributor

regs == <<ctlr, asleep, iface, flags, fields, route>>
local == <<todo, phase, tmp, ret>>
race == <<early, behind>>
gicVars == <<version, regs, locks, up, local, calls, asked, race>>

PlainStep(op) == [op |-> op, id |-> 0, val |-> 0]
OpStep(op, id, val) == [op |-> op, id |-> id, val |-> val]

(***************************************************************************)
(* gic_init: the GICv3 one begins with gic_cpu_init and ends, on CPU 0,    *)
(* with gicd_init; the GICv2 one has gicd_init first.                      *)
(***************************************************************************)
gicd_init ==
  <<PlainStep("clear_spis"), PlainStep("lowest_prio"), PlainStep("no_targets")>>
     \o (IF version = 2 THEN <<PlainStep("config")>> ELSE << >>)
     \o <<OpStep("ctlr", 0, IF version = 2 THEN {"EN"} ELSE {"ARE_NS", "ENA"})>>

gic_cpu_init ==
  <<OpStep("ctlr", 0, {"DS"}), PlainStep("wake"), PlainStep("clear_private"), PlainStep("gicc_init")>>

gic_init(c) ==
  LET distributor == IF c = 0 THEN gicd_init ELSE << >>
  IN IF version = 2 THEN distributor \o <<PlainStep("clear_private"), PlainStep("gicc_init")>>
                    ELSE gic_cpu_init \o distributor

InitOps == {"ctlr", "wake", "clear_private", "gicc_init",
            "clear_spis", "lowest_prio", "no_targets", "config"}

(* The CPU has returned from gic_init.                                     *)
Ready(c) == c \in up /\ \A i \in DOMAIN todo[c] : todo[c][i].op \notin InitOps

(* Out of reset the fields are junk: all ones or all zeros here.           *)
GicInit ==
  /\ version \in {2, 3}
  /\ ctlr = {}
  /\ asleep = IF version = 3 THEN Cores ELSE {}
  /\ iface = {}
  /\ \E junk \in BOOLEAN :
        /\ flags = [k \in Flags |-> IF junk THEN Lines ELSE {}]
        /\ fields = [prio |-> [l \in Lines |-> IF junk THEN 1 ELSE 0],
                     trgt |-> [l \in Lines |-> IF junk THEN Cores ELSE {}],
                     cfg  |-> [l \in Lines |-> IF junk THEN 3 ELSE 0]]
        /\ route = [l \in {x \in Lines : x[1] = NoCpu} |->
                      [lo |-> NoCpu, hi |-> IF junk THEN 1 ELSE 0]]
  /\ locks = [k \in {"gicd", "gicr"} |-> NoCpu]
  /\ up = {}
  /\ todo = [c \in Cores |-> << >>]
  /\ phase = [c \in Cores |-> "out"]
  /\ tmp = [c \in Cores |-> << >>]
  /\ ret = [c \in Cores |-> 0]
  /\ calls = 0
  /\ asked = << >>
  /\ early = FALSE /\ behind = FALSE

-----------------------------------------------------------------------------
(* A step that is one register access, or several that only this CPU sees. *)
Doing(c, ops) ==
  /\ todo[c] # << >>
  /\ Head(todo[c]).op \in ops

Finish(c) ==
  /\ todo' = [todo EXCEPT ![c] = Tail(@)]
  /\ phase' = [phase EXCEPT ![c] = "out"]

Goto(c, p) ==
  /\ phase' = [phase EXCEPT ![c] = p]
  /\ UNCHANGED todo

(* arch_init calls gic_init: where firmware starts the CPUs, CPU 0 returns *)
(* from it first; with NO_FIRMWARE they enter it in any order.             *)
Start(c) ==
  /\ c \notin up
  /\ up' = up \cup {c}
  /\ todo' = [todo EXCEPT ![c] = gic_init(c)]
  /\ early' = (early \/ (c # 0 /\ ~Ready(0)))
  /\ UNCHANGED <<version, regs, locks, phase, tmp, ret, calls, asked, behind>>

(* gicd->CTLR |= bits, without a lock.                                     *)
CtlrLoad(c) ==
  /\ Doing(c, {"ctlr"})
  /\ phase[c] = "out"
  /\ tmp' = [tmp EXCEPT ![c] = ctlr]
  /\ Goto(c, "loaded")
  /\ UNCHANGED <<version, regs, locks, up, ret, calls, asked, race>>

(* CPU 0 enables the distributor with another CPU between load and store.  *)
Enables(c) == c = 0 /\ Head(todo[c]).val \cap {"EN", "ENA"} # {}
Overtakes(c) ==
  Enables(c) /\ \E d \in Cores \ {c} : phase[d] = "loaded" /\ Doing(d, {"ctlr"})

CtlrAssign(c) ==
  /\ Doing(c, {"ctlr"})
  /\ phase[c] = "loaded"
  /\ ctlr' = Head(todo[c]).val
  /\ behind' = (behind \/ Overtakes(c))
  /\ tmp' = [tmp EXCEPT ![c] = << >>]
  /\ Finish(c)
  /\ UNCHANGED <<version, asleep, iface, flags, fields, route, locks, up, ret, calls, asked,
                 early>>

CtlrStore(c) ==
  /\ Doing(c, {"ctlr"})
  /\ phase[c] = "loaded"
  /\ ctlr' = tmp[c] \cup Head(todo[c]).val
  /\ behind' = (behind \/ Overtakes(c))
  /\ tmp' = [tmp EXCEPT ![c] = << >>]
  /\ Finish(c)
  /\ UNCHANGED <<version, asleep, iface, flags, fields, route, locks, up, ret, calls, asked,
                 early>>

(* ProcessorSleep is cleared; the wait ends when the redistributor is up.  *)
Wake(c) ==
  /\ Doing(c, {"wake"})
  /\ asleep' = asleep \ {c}
  /\ Finish(c)
  /\ UNCHANGED <<version, ctlr, iface, flags, fields, route, locks, up, tmp, ret, calls, asked, race>>

(* What was asked for of these kinds and lines no longer counts.           *)
Forgotten(kinds, lines) ==
  [x \in {y \in DOMAIN asked : ~(y[1] \in kinds /\ y[2] \in lines)} |-> asked[x]]

(* The private interrupts: ICENABLER0, ICPENDR0, ICACTIVER0 and IPRIORITYR *)
(* are written with ones.  An SGI sent to this CPU before is discarded.    *)
ClearPrivate(c) ==
  /\ Doing(c, {"clear_private"})
  /\ flags' = [k \in Flags |-> {l \in flags[k] : l[1] # c}]
  /\ fields' = [fields EXCEPT !.prio = [l \in Lines |-> IF l[1] = c THEN LOWEST ELSE @[l]]]
  /\ asked' = Forgotten(Flags \cup {"prio"}, {l \in Lines : l[1] = c})
  /\ Finish(c)
  /\ UNCHANGED <<version, ctlr, asleep, iface, route, locks, up, tmp, ret, calls, race>>

gicc_init(c) ==
  /\ Doing(c, {"gicc_init"})
  /\ iface' = iface \cup {c}
  /\ Finish(c)
  /\ UNCHANGED <<version, ctlr, asleep, flags, fields, route, locks, up, tmp, ret, calls, asked, race>>

(***************************************************************************)
(* The loops of gicd_init.  Their bounds: gic_num_int of the GICv2 driver  *)
(* is the number of interrupts, gic_num_irqs of the GICv3 one 32 * ITLN+1. *)
(***************************************************************************)
int_num == IF version = 2 THEN 32 * (ITLN + 1) ELSE 32 * ITLN + 1

(* A register the distributor shows CPU c: a shared one or c's own bank.   *)
Dist(c, l) == l[1] = NoCpu \/ (version = 2 /\ l[1] = c)

SpiClearedTo(c, end) ==
  /\ Doing(c, {"clear_spis"})
  /\ LET reached == {l \in Lines : Dist(c, l) /\ l[2] \div 32 \in 1 .. end - 1}
     IN /\ flags' = [k \in Flags |-> flags[k] \ reached]
        /\ asked' = Forgotten(Flags, reached)
  /\ Finish(c)
  /\ UNCHANGED <<version, ctlr, asleep, iface, fields, route, locks, up, tmp, ret, calls, race>>

ClearSpisShort(c) == SpiClearedTo(c, int_num \div 32 - 1)

ClearSpis(c) == SpiClearedTo(c, int_num \div 32)

(* The loops over IPRIORITYR and ITARGETSR begin with register 0 in the    *)
(* GICv2 driver and with register GIC_CPU_PRIV in the GICv3 one.           *)
FillFields(c, op, k, value, from) ==
  /\ Doing(c, {op})
  /\ LET reached == {l \in Lines : Dist(c, l)
                                    /\ RegOf(k, l[2]) \in from .. RegOf(k, int_num) - 1}
     IN /\ fields' = [fields EXCEPT ![k] =
                        [l \in Lines |-> IF l \in reached THEN value ELSE @[l]]]
        /\ asked' = Forgotten({k}, reached)
  /\ Finish(c)
  /\ UNCHANGED <<version, ctlr, asleep, iface, flags, route, locks, up, tmp, ret, calls, race>>

FirstReg == IF version = 2 THEN 0 ELSE GIC_CPU_PRIV

LowestPrio(c) == FillFields(c, "lowest_prio", "prio", LOWEST, FirstReg)
NoTargets(c) == FillFields(c, "no_targets", "trgt", {}, FirstReg)
Config(c) == FillFields(c, "config", "cfg", 2, 0)

-----------------------------------------------------------------------------
(* The functions other code calls, as the steps they are made of.          *)

(* gic_set_state sets the active bit and then the pending bit.             *)
gic_set_state(id, act, pend) == <<OpStep("act", id, act), OpStep("pend", id, pend)>>

(* irq_enable: enable, then route to this CPU or add it to the targets.    *)
irq_enable(c, id) ==
  <<OpStep("enable", id, TRUE)>>
     \o IF version = 2 THEN <<OpStep("get_trgt", id, c)>> ELSE <<OpStep("route", id, c)>>

PrioCalls(id) == {<<OpStep("prio", id, p)>> : p \in PRIOS}
SgiCalls(id) == {<<OpStep("sgi", id, t)>> : t \in Cores}
PendCalls(id) == {<<OpStep("pend", id, b)>> : b \in BOOLEAN}
StateCalls(id) == UNION {{gic_set_state(id, a, p) : a \in BOOLEAN} : p \in BOOLEAN}
CfgCalls(id) == {<<OpStep("cfg", id, v)>> : v \in {0, 2}}
GetCalls(id) == {<<OpStep(get, id, 0)>> : get \in {"get_prio", "get_state"}}

Calls(c, id) ==
  {irq_enable(c, id), <<OpStep("enable", id, FALSE)>>} \cup PrioCalls(id) \cup SgiCalls(id)
    \cup IF version = 2 THEN PendCalls(id)
         ELSE StateCalls(id) \cup CfgCalls(id) \cup {<<OpStep("trgt", id, {c})>>} \cup GetCalls(id)

Call(c) ==
  /\ Ready(c) /\ todo[c] = << >>
  /\ calls < MAX_CALLS
  /\ calls' = calls + 1
  /\ \E id \in CALL_IDS : \E steps \in Calls(c, id) : todo' = [todo EXCEPT ![c] = steps]
  /\ UNCHANGED <<version, regs, locks, up, phase, tmp, ret, asked, race>>

(***************************************************************************)
(* irq_in_gicd sends interrupt 32, the first shared one, to the            *)
(* redistributor of the calling CPU; its fields land on those of private   *)
(* interrupts, or, for a priority, behind the last register.               *)
(***************************************************************************)
InGicdFrom34(id) == id > 33 /\ id < 1025

irq_in_gicd(id) == id > 32 /\ id < 1025

Cell(c, k, id) ==
  IF version = 2 THEN Line(c, id)
  ELSE IF irq_in_gicd(id) THEN <<NoCpu, id>>
  ELSE IF k = "cfg" THEN <<c, (IF RegOf(k, id) = 0 THEN 0 ELSE 16) + (id % 16)>>
  ELSE IF k \in Flags THEN <<c, id % 32>>
  ELSE <<c, id>>

LockOf(id) == IF version = 2 \/ irq_in_gicd(id) THEN "gicd" ELSE "gicr"

LockedOps == Flags \cup Fields \cup {"get_prio", "get_state"}

LockIgnored(c) ==
  /\ Doing(c, LockedOps)
  /\ phase[c] = "out"
  /\ locks' = [locks EXCEPT ![LockOf(Head(todo[c]).id)] = c]
  /\ Goto(c, "in")
  /\ UNCHANGED <<version, regs, up, tmp, ret, calls, asked, race>>

Lock(c) ==
  /\ Doing(c, LockedOps)
  /\ phase[c] = "out"
  /\ locks[LockOf(Head(todo[c]).id)] = NoCpu
  /\ locks' = [locks EXCEPT ![LockOf(Head(todo[c]).id)] = c]
  /\ Goto(c, "in")
  /\ UNCHANGED <<version, regs, up, tmp, ret, calls, asked, race>>

Unlock(c) ==
  /\ Doing(c, LockedOps)
  /\ phase[c] = "done"
  /\ locks' = [locks EXCEPT ![LockOf(Head(todo[c]).id)] = NoCpu]
  /\ Finish(c)
  /\ UNCHANGED <<version, regs, up, tmp, ret, calls, asked, race>>

(* The history of what was asked for.  A call that names interrupt 32 of a *)
(* GICv3 asks nothing of that interrupt and undoes what was asked of the   *)
(* one whose field it lands on.                                            *)
Noted(key, value) ==
  [x \in DOMAIN asked \cup {key} |-> IF x = key THEN value ELSE asked[x]]

Record(c, k, id, value) ==
  asked' = IF version = 3 /\ id = 32 THEN Forgotten({k}, {Cell(c, k, id)})
           ELSE Noted(<<k, Line(c, id)>>, value)

(* A write of one bit to the set or to the clear register.  The pending    *)
(* bit of a redistributor is 1U << int_id: for 32 any or no bit.           *)
SetFlag(c) ==
  /\ Doing(c, Flags)
  /\ phase[c] = "in"
  /\ LET op == Head(todo[c])
         cell == Cell(c, op.op, op.id)
     IN /\ \E cells \in {{cell}} \cup (IF op.op = "pend" /\ version = 3 /\ op.id = 32
                                       THEN {{}} ELSE {}) :
             flags' = [flags EXCEPT ![op.op] = IF op.val THEN @ \cup (cells \cap Lines)
                                                         ELSE @ \ cells]
        /\ Record(c, op.op, op.id, op.val)
  /\ Goto(c, "done")
  /\ UNCHANGED <<version, ctlr, asleep, iface, fields, route, locks, up, tmp, ret, calls, race>>

(* The other fields: the register is read ...                              *)
LoadReg(c) ==
  /\ Doing(c, Fields)
  /\ phase[c] = "in"
  /\ LET op == Head(todo[c])
         reg == SameReg(op.op, Cell(c, op.op, op.id))
     IN tmp' = [tmp EXCEPT ![c] = [l \in reg |-> fields[op.op][l]]]
  /\ Goto(c, "loaded")
  /\ UNCHANGED <<version, regs, locks, up, ret, calls, asked, race>>

(* ... and written back with the field of this interrupt replaced.  The    *)
(* redistributor has no targets: gicr_set_trgt does nothing.               *)
StoreReg(c) ==
  /\ Doing(c, Fields)
  /\ phase[c] = "loaded"
  /\ LET op == Head(todo[c])
         cell == Cell(c, op.op, op.id)
         none == op.op = "trgt" /\ LockOf(op.id) = "gicr"
     IN /\ fields' = IF none THEN fields
                     ELSE [fields EXCEPT ![op.op] =
                            [l \in Lines |-> IF l = cell THEN op.val
                                             ELSE IF l \in DOMAIN tmp[c] THEN tmp[c][l] ELSE @[l]]]
        /\ IF none THEN UNCHANGED asked ELSE Record(c, op.op, op.id, op.val)
  /\ tmp' = [tmp EXCEPT ![c] = << >>]
  /\ Goto(c, "done")
  /\ UNCHANGED <<version, ctlr, asleep, iface, flags, route, locks, up, ret, calls, race>>

(***************************************************************************)
(* gic_get_prio: reg >> off & BIT_MASK(off, 8) is the field for the first  *)
(* interrupt of a register, the next interrupt's field, shifted, for the   *)
(* second, and 0 for the others.                                           *)
(***************************************************************************)
PrioAt(l) == IF l \in Lines THEN fields.prio[l] ELSE 0

GetPrio(c) ==
  /\ Doing(c, {"get_prio"})
  /\ phase[c] = "in"
  /\ LET cell == Cell(c, "prio", Head(todo[c]).id)
         off == OffOf("prio", cell[2])
     IN ret' = [ret EXCEPT ![c] = CASE off = 0 -> PrioAt(cell)
                                    [] off = 8 -> PrioAt(<<cell[1], cell[2] + 1>>) * 256
                                    [] OTHER   -> 0]
  /\ Goto(c, "done")
  /\ UNCHANGED <<version, regs, locks, up, tmp, calls, asked, race>>

(* gic_get_state reads the pending and then the active register.           *)
GetState(c) ==
  /\ Doing(c, {"get_state"})
  /\ LET cell == Cell(c, "pend", Head(todo[c]).id)
     IN \/ /\ phase[c] = "in"
           /\ ret' = [ret EXCEPT ![c] = IF cell \in flags["pend"] THEN 1 ELSE 0]
           /\ Goto(c, "loaded")
        \/ /\ phase[c] = "loaded"
           /\ ret' = [ret EXCEPT ![c] = @ + IF cell \in flags["act"] THEN 2 ELSE 0]
           /\ Goto(c, "done")
  /\ UNCHANGED <<version, regs, locks, up, tmp, calls, asked, race>>

(* gic_get_trgt, without the lock; the result and this CPU become the      *)
(* argument of gic_set_trgt.                                               *)
GetTrgt(c) ==
  /\ Doing(c, {"get_trgt"})
  /\ LET id == Head(todo[c]).id
     IN todo' = [todo EXCEPT ![c] =
                   <<OpStep("trgt", id, fields.trgt[Line(c, id)] \cup {c})>>]
  /\ UNCHANGED <<version, regs, locks, up, phase, tmp, ret, calls, asked, race>>

(* gic_set_route: two stores; nothing for a private interrupt.             *)
SetRoute(c) ==
  /\ Doing(c, {"route"})
  /\ LET op == Head(todo[c])
         l == Line(c, op.id)
     IN \/ /\ gic_is_priv(op.id)
           /\ Finish(c)
           /\ UNCHANGED <<route, asked>>
        \/ /\ ~gic_is_priv(op.id) /\ phase[c] = "out"
           /\ route' = [route EXCEPT ![l].lo = op.val]
           /\ asked' = Noted(<<"route", l>>, op.val)
           /\ Goto(c, "low")
        \/ /\ phase[c] = "low"
           /\ route' = [route EXCEPT ![l].hi = 0]
           /\ Finish(c)
           /\ UNCHANGED asked
  /\ UNCHANGED <<version, ctlr, asleep, iface, flags, fields, locks, up, tmp, ret, calls, race>>

(* gic_send_sgi: the GICv3 one refuses what is not an SGI, the GICv2 one   *)
(* takes the number modulo 16.                                             *)
SendSgi(c) ==
  /\ Doing(c, {"sgi"})
  /\ LET op == Head(todo[c])
         num == op.id % GIC_MAX_SGIS
     IN IF (version = 3 /\ op.id >= GIC_MAX_SGIS) \/ Line(op.val, num) \notin Lines
        THEN UNCHANGED <<flags, asked>>
        ELSE /\ flags' = [flags EXCEPT !["pend"] = @ \cup {Line(op.val, num)}]
             /\ Record(op.val, "pend", num, TRUE)
  /\ Finish(c)
  /\ UNCHANGED <<version, ctlr, asleep, iface, fields, route, locks, up, tmp, ret, calls, race>>

CpuNext(c) ==
  \/ Start(c)
  \/ CtlrLoad(c) \/ CtlrStore(c) \/ Wake(c) \/ ClearPrivate(c) \/ gicc_init(c)
  \/ ClearSpis(c) \/ LowestPrio(c) \/ NoTargets(c) \/ Config(c)
  \/ Call(c)
  \/ Lock(c) \/ SetFlag(c) \/ LoadReg(c) \/ StoreReg(c) \/ GetPrio(c) \/ GetState(c) \/ Unlock(c)
  \/ GetTrgt(c) \/ SetRoute(c) \/ SendSgi(c)

GicNext == \E c \in Cores : CpuNext(c)

GicSpec == GicInit /\ [][GicNext]_gicVars

-----------------------------------------------------------------------------
AsAsked(k, l, value) == <<k, l>> \in DOMAIN asked => value = asked[<<k, l>>]

(***************************************************************************)
(* The enable, pending and active bits of an interrupt are what the last   *)
(* call on this very interrupt asked for (gic_set_enable, gic_set_pend,    *)
(* gic_set_act, gic_send_sgi), until gic_init clears them: no call on a    *)
(* neighbour in a register or in a bank disturbs them, in any start order. *)
(* Only a call on interrupt 32 of a GICv3 does, which irq_in_gicd sends to *)
(* the redistributor (Record).                                             *)
(***************************************************************************)
FlagsAsAsked == \A k \in Flags, l \in Lines : AsAsked(k, l, l \in flags[k])

(***************************************************************************)
(* The same for priority, targets and configuration, which share registers *)
(* that are read, masked and written back under gicd_lock: no update is    *)
(* lost (gicd_set_prio, gicd_set_trgt, gicd_set_icfgr, and their gicr_     *)
(* twins).  A route that is not half written is the one asked for last     *)
(* (gic_set_route, without a lock).                                        *)
(***************************************************************************)
FieldsAsAsked ==
  /\ \A k \in Fields, l \in Lines : AsAsked(k, l, fields[k][l])
  /\ \A l \in DOMAIN route :
       (\A c \in Cores : ~(phase[c] = "low" /\ Head(todo[c]).id = l[2]))
         /\ <<"route", l>> \in DOMAIN asked
         => route[l] = [lo |-> asked[<<"route", l>>], hi |-> 0]

(* The state a driver brings an interrupt to before anybody asks for more. *)
Untouched(k, l) == <<k, l>> \notin DOMAIN asked
Initialised(l) == Ready(0) /\ (l[1] # NoCpu => Ready(l[1]))
Reset(k, l) ==
  CASE k \in Flags -> l \notin flags[k]
    [] k = "prio"  -> fields[k][l] = LOWEST
    [] k = "trgt"  -> fields[k][l] = {}
    [] k = "cfg"   -> fields[k][l] = 2

(***************************************************************************)
(* gicv2.c: on every CPU that is through gic_init, every interrupt nobody  *)
(* asked anything of is disabled, not pending, not active and has the      *)
(* lowest priority, and a shared one has no targets and the default        *)
(* configuration, whatever the calls on its neighbours do.  For what is    *)
(* read and written back, provided no CPU entered gic_init before CPU 0    *)
(* left it: a CPU between load and store undoes the loops of gicd_init.    *)
(***************************************************************************)
ResetV2 ==
  version = 2 =>
    \A k \in Flags \cup Fields, l \in Lines :
      /\ Initialised(l) /\ Untouched(k, l)
      /\ k \in Flags \/ ~early
      /\ l[1] = NoCpu \/ k \notin {"trgt", "cfg"}
      => Reset(k, l)

(***************************************************************************)
(* What gicd_init of gicv3.c says of itself: it makes sure "all interrupts *)
(* are not enabled, non pending, non active", and "All interrupts have     *)
(* lowest priority possible by default", here when CPU 0 comes first.      *)
(***************************************************************************)
AllInterruptsReset ==
  \A k \in Flags \cup {"prio"}, l \in Lines :
    Initialised(l) /\ Untouched(k, l) /\ ~early => Reset(k, l)

(***************************************************************************)
(* Once CPU 0 is through gic_init the distributor stays enabled, although  *)
(* the CPUs change GICD_CTLR without a lock (gicr_init).  The exception: a *)
(* CPU that is in gic_init early, with NO_FIRMWARE, and has loaded the     *)
(* register when CPU 0 enables the distributor stores the old value.       *)
(***************************************************************************)
DistributorStaysOn ==
  Ready(0) /\ ctlr \cap {"EN", "ENA"} = {} => early /\ behind
=============================================================================
