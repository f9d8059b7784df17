-------------------------------- MODULE Boot --------------------------------
(***************************************************************************)
(* Bring-up of the guest's CPUs: _start of the three architectures (the    *)
(* exception level, who clears .bss, who waits), _init, arch_init with its *)
(* loop of hart_start / cpu_on calls, and main up to the wfi loop.         *)
(*                                                                         *)
(* RAM holds junk when _start is entered.  All the variables with a zero   *)
(* initial value (the two locks, the two flags, the handler table) live in *)
(* .bss, so every one of them is junk until the clearing loop reaches it;  *)
(* primary_hart_valid, primary_hart and the ready flag live in .data.      *)
(*                                                                         *)
(* The stores of _start are plain and no fence follows them.  On a machine *)
(* that is not in order they wait in the buffer of the CPU and reach       *)
(* memory one by one in any order; the CPU itself reads what it has        *)
(* stored.  C code orders its stores by locks, which are taken in one step *)
(* (modules Lock, Spinlock), but for the handler table on RISC-V: no lock  *)
(* lies between irq_set_handler and the store of master_done.              *)
(***************************************************************************)
EXTENDS Integers, Sequences

CONSTANTS
  NumCpus,    \* CPUs of the virtual machine
  Machines,   \* the builds and virtual machines to consider
  Nobody,     \* not a CPU
  Junk        \* a word of RAM before it is written, neither 0 nor 1

Cpus == 0 .. NumCpus - 1

(***************************************************************************)
(* A machine: its architecture, the exception level (hyp mode is 2) its    *)
(* CPUs start at, the CPUs the hypervisor starts at _start by itself (on   *)
(* Arm CPU 0 among them), whether arch_init starts the others (neither     *)
(* SINGLE_CORE nor NO_FIRMWARE), and whether plain stores reach memory in  *)
(* program order.                                                          *)
(***************************************************************************)
Machine == [arch : {"riscv", "aarch64", "aarch32"}, level : 0 .. 3,
            atReset : SUBSET Cpus, firmware : BOOLEAN, inOrder : BOOLEAN]

ASSUME BootAssumption ==
  /\ NumCpus \in Nat \ {0}
  /\ Machines \subseteq Machine
  /\ \A m \in Machines :
       m.atReset # {} /\ (m.arch # "riscv" => 0 \in m.atReset)
  /\ Nobody \notin Cpus
  /\ Junk \notin {0, 1}

(* The words of .bss, in the order in which they are cleared.              *)
BssWords == <<"init_lock", "init_done", "print_lock", "master_done", "irq_handlers">>

Words == {BssWords[k] : k \in 1 .. Len(BssWords)}

VARIABLES
  machine,        \* the one that boots
  valid,          \* primary_hart_valid
  mem,            \* .bss, primary_hart and the ready flag (wait_flag)
  pending,        \* words the primary has stored and memory has not seen
  late,           \* irq_set_handler's stores have not reached memory
  primary,        \* history: the CPU that clears .bss, or Nobody
  pc,             \* per CPU, what it does next; "off" before it is started
  i,              \* per CPU, the index of the loop it is in
  uart,           \* how often uart_init ran
  output          \* the lines main printed

vars == <<machine, valid, mem, pending, late, primary, pc, i, uart, output>>

Init ==
  /\ machine \in Machines
  /\ valid = 0
  /\ \E bss \in [Words -> {0, Junk}] :
       mem = [l \in Words \cup {"primary_hart", "ready"} |->
                IF l \in Words THEN bss[l] ELSE 0]
  /\ pending = {} /\ late = FALSE /\ primary = Nobody
  /\ pc = [c \in Cpus |-> IF c \in machine.atReset THEN "start" ELSE "off"]
  /\ i = [c \in Cpus |-> 0]
  /\ uart = 0
  /\ output = <<>>

-----------------------------------------------------------------------------
(* A CPU goes from one label to another.                                   *)
Goto(c, from, to) == pc[c] = from /\ pc' = [pc EXCEPT ![c] = to]

(* The value _start stores to a word; it stores each at most once.         *)
Stored(l) == CASE l = "ready" -> 1
               [] l = "primary_hart" -> primary
               [] OTHER -> 0

(* A plain store of _start.                                                *)
Store(l) ==
  IF machine.inOrder
    THEN mem' = [mem EXCEPT ![l] = Stored(l)] /\ UNCHANGED pending
    ELSE pending' = pending \cup {l} /\ UNCHANGED mem

(* External: a store reaches memory.                                       *)
Drain ==
  /\ \E l \in pending :
       mem' = [mem EXCEPT ![l] = Stored(l)] /\ pending' = pending \ {l}
  /\ UNCHANGED <<machine, valid, late, primary, pc, i, uart, output>>

(* What a CPU reads: its own stores first.                                 *)
Load(c, l) == IF c = primary /\ l \in pending THEN Stored(l) ELSE mem[l]

(* A store of C code; a CPU's stores to one word stay in order.            *)
Assign(c, l, v) ==
  /\ ~(c = primary /\ l \in pending)
  /\ mem' = [mem EXCEPT ![l] = v]
  /\ UNCHANGED pending

-----------------------------------------------------------------------------
(* _start of the Arm builds sets up private registers only: vectors,       *)
(* memory attributes, floating point, MPU or MMU.  From EL2 it drops to    *)
(* EL1; an aarch64 CPU stops in EL0 and EL3.                               *)
EnterEl1(c) ==
  /\ machine.arch = "aarch64"
  /\ Goto(c, "start", IF machine.level \in {0, 3} THEN "stopped" ELSE "el1")
  /\ UNCHANGED <<machine, valid, mem, pending, late, primary, i, uart, output>>

(* On aarch32 every mode but hyp is left for SVC.                          *)
EntryEl1(c) ==
  /\ machine.arch = "aarch32"
  /\ Goto(c, "start", "el1")
  /\ UNCHANGED <<machine, valid, mem, pending, late, primary, i, uart, output>>

(* On RISC-V the first hart whose sc.w on primary_hart_valid succeeds is   *)
(* the primary, on Arm it is CPU 0.                                        *)
Elect(c) ==
  /\ IF machine.arch = "riscv"
       THEN valid = 0 /\ Goto(c, "start", "elected") /\ valid' = 1
       ELSE c = 0 /\ Goto(c, "el1", "clear") /\ UNCHANGED valid
  /\ primary' = c
  /\ UNCHANGED <<machine, mem, pending, late, i, uart, output>>

(* The others skip to the wait for the ready flag.                         *)
Skip(c) ==
  /\ IF machine.arch = "riscv" THEN valid # 0 /\ Goto(c, "start", "wait")
                               ELSE c # 0 /\ Goto(c, "el1", "wait")
  /\ UNCHANGED <<machine, valid, mem, pending, late, primary, i, uart, output>>

(* The primary hart records who it is.                                     *)
SetPrimary(c) ==
  /\ Goto(c, "elected", "clear")
  /\ Store("primary_hart")
  /\ UNCHANGED <<machine, valid, late, primary, i, uart, output>>

(* One turn of the loop that clears .bss.                                  *)
ClearBss(c) ==
  /\ pc[c] = "clear"
  /\ i[c] < Len(BssWords)
  /\ Store(BssWords[i[c] + 1])
  /\ i' = [i EXCEPT ![c] = @ + 1]
  /\ UNCHANGED <<machine, valid, late, primary, pc, uart, output>>

(* .bss is clear: the ready flag lets the others go.                       *)
SetReady(c) ==
  /\ i[c] = Len(BssWords)
  /\ Goto(c, "clear", "wait")
  /\ Store("ready")
  /\ UNCHANGED <<machine, valid, late, primary, i, uart, output>>

(* The spin on the ready flag, the stack pointer and the call of _init.    *)
WaitReady(c) ==
  /\ Load(c, "ready") # 0
  /\ Goto(c, "wait", "init")
  /\ UNCHANGED <<machine, valid, mem, pending, late, primary, i, uart, output>>

-----------------------------------------------------------------------------
(* _init: spin_lock(&init_lock).                                           *)
LockInit(c) ==
  /\ Load(c, "init_lock") = 0
  /\ Assign(c, "init_lock", 1)
  /\ Goto(c, "init", "check")
  /\ UNCHANGED <<machine, valid, late, primary, i, uart, output>>

(* The first CPU marks init_done and initialises the UART.                 *)
CheckInit(c) ==
  /\ IF Load(c, "init_done") = 0
       THEN Assign(c, "init_done", 1) /\ Goto(c, "check", "uart_init")
       ELSE UNCHANGED <<mem, pending>> /\ Goto(c, "check", "unlock")
  /\ UNCHANGED <<machine, valid, late, primary, i, uart, output>>

UartInit(c) ==
  /\ Goto(c, "uart_init", "unlock")
  /\ uart' = uart + 1
  /\ UNCHANGED <<machine, valid, mem, pending, late, primary, i, output>>

(* Whether arch_init runs the loop that starts the other CPUs.             *)
StartsOthers(c) == machine.firmware /\ (machine.arch = "riscv" \/ c = 0)

UnlockUnfenced(c) ==
  /\ Assign(c, "init_lock", 0)
  /\ Goto(c, "unlock", IF StartsOthers(c) THEN "start_others" ELSE "main")
  /\ i' = [i EXCEPT ![c] = 0]
  /\ UNCHANGED <<machine, valid, late, primary, uart, output>>

(* spin_unlock(&init_lock), whose fence or release waits for the CPU's     *)
(* stores, and the call of arch_init.                                      *)
UnlockInit(c) ==
  /\ c = primary => pending = {}
  /\ Assign(c, "init_lock", 0)
  /\ Goto(c, "unlock", IF StartsOthers(c) THEN "start_others" ELSE "main")
  /\ i' = [i EXCEPT ![c] = 0]
  /\ UNCHANGED <<machine, valid, late, primary, uart, output>>

(***************************************************************************)
(* The firmware (external) starts a CPU that exists and is off, at the     *)
(* address it is given and with its hart id in a0; for any other it        *)
(* returns an error.  sbi_hart_start and psci_cpu_on hand over the number  *)
(* and the address and return that error.                                  *)
(***************************************************************************)
CanStart(n) == n \in Cpus /\ pc[n] = "off"

sbi_hart_start(n) == pc' = [pc EXCEPT ![n] = "start"]

psci_cpu_on(n) == pc' = [pc EXCEPT ![n] = "start"]

(* One turn of the loop: the CPU passes over itself and starts the next.   *)
StartNext(c) ==
  /\ pc[c] = "start_others"
  /\ \/ i[c] = c /\ UNCHANGED pc
     \/ i[c] # c /\ CanStart(i[c]) /\ machine.arch = "riscv" /\ sbi_hart_start(i[c])
     \/ i[c] # c /\ CanStart(i[c]) /\ machine.arch # "riscv" /\ psci_cpu_on(i[c])
  /\ i' = [i EXCEPT ![c] = @ + 1]
  /\ UNCHANGED <<machine, valid, mem, pending, late, primary, uart, output>>

SelfIsError(c) ==
  /\ ~CanStart(i[c])
  /\ Goto(c, "start_others", "main")
  /\ UNCHANGED <<machine, valid, mem, pending, late, primary, i, uart, output>>

(* The first error ends the loop; interrupts are unmasked, main begins.    *)
StartEnds(c) ==
  /\ i[c] # c /\ ~CanStart(i[c])
  /\ Goto(c, "start_others", "main")
  /\ UNCHANGED <<machine, valid, mem, pending, late, primary, i, uart, output>>

-----------------------------------------------------------------------------
(* cpu_is_master.                                                          *)
IsMaster(c) == c = IF machine.arch = "riscv" THEN Load(c, "primary_hart") ELSE 0

Main(c) ==
  /\ Goto(c, "main", IF IsMaster(c) THEN "banner_lock" ELSE "wait_master")
  /\ UNCHANGED <<machine, valid, mem, pending, late, primary, i, uart, output>>

(* spin_lock(&print_lock), for the banner and for the line "cpu %d up".    *)
(* The release of its sc.w.rl waits for the stores of the CPU.             *)
LockPrint(c) ==
  /\ ~(late /\ c = primary)
  /\ Load(c, "print_lock") = 0
  /\ Assign(c, "print_lock", 1)
  /\ \/ Goto(c, "banner_lock", "banner")
     \/ Goto(c, "up_lock", "up")
  /\ UNCHANGED <<machine, valid, late, primary, i, uart, output>>

(* printf of the master and spin_unlock.                                   *)
PrintBanner(c) ==
  /\ Goto(c, "banner", "handlers")
  /\ output' = Append(output, <<"guest">>)
  /\ Assign(c, "print_lock", 0)
  /\ UNCHANGED <<machine, valid, late, primary, i, uart>>

(* The three irq_set_handler calls.  On Arm the locks of irq_enable and    *)
(* irq_set_prio lie between them and master_done; on RISC-V nothing does.  *)
SetHandlers(c) ==
  /\ Goto(c, "handlers", "master_done")
  /\ IF machine.arch = "riscv" /\ ~machine.inOrder
       THEN late' = TRUE /\ UNCHANGED <<mem, pending>>
       ELSE Assign(c, "irq_handlers", 1) /\ UNCHANGED late
  /\ UNCHANGED <<machine, valid, primary, i, uart, output>>

(* External: they reach memory.                                            *)
DrainHandlers ==
  /\ late /\ late' = FALSE
  /\ mem' = [mem EXCEPT !["irq_handlers"] = 1]
  /\ UNCHANGED <<machine, valid, pending, primary, pc, i, uart, output>>

MasterDone(c) ==
  /\ Goto(c, "master_done", "wait_master")
  /\ Assign(c, "master_done", 1)
  /\ UNCHANGED <<machine, valid, late, primary, i, uart, output>>

WaitForgotten(c) ==
  /\ Goto(c, "wait_master", "up_lock")
  /\ UNCHANGED <<machine, valid, mem, pending, late, primary, i, uart, output>>

(* while(!master_done).                                                    *)
WaitMaster(c) ==
  /\ Load(c, "master_done") # 0
  /\ Goto(c, "wait_master", "up_lock")
  /\ UNCHANGED <<machine, valid, mem, pending, late, primary, i, uart, output>>

PrintUp(c) ==
  /\ Goto(c, "up", "idle")
  /\ output' = Append(output, <<"up", c>>)
  /\ Assign(c, "print_lock", 0)
  /\ UNCHANGED <<machine, valid, late, primary, i, uart>>

(* while(1) wfi(): the guest has come up, or stopped at a wrong level.     *)
Idle ==
  /\ \A c \in Cpus : pc[c] \in {"off", "idle", "stopped"}
  /\ UNCHANGED vars

Step(c) ==
  \/ EnterEl1(c) \/ EntryEl1(c) \/ Elect(c) \/ Skip(c) \/ SetPrimary(c)
  \/ ClearBss(c) \/ SetReady(c)
  \/ WaitReady(c) \/ LockInit(c) \/ CheckInit(c) \/ UartInit(c)
  \/ UnlockInit(c) \/ StartNext(c) \/ StartEnds(c) \/ Main(c)
  \/ LockPrint(c) \/ PrintBanner(c) \/ SetHandlers(c) \/ MasterDone(c)
  \/ WaitMaster(c) \/ PrintUp(c)

Next == (\E c \in Cpus : Step(c)) \/ Drain \/ DrainHandlers \/ Idle

Spec == Init /\ [][Next]_vars

(***************************************************************************)
(* Fairness: a CPU that is on and not blocked runs, and a store reaches    *)
(* memory.  Every CPU takes each lock a bounded number of times, so a spin *)
(* succeeds once the others are through.                                   *)
(***************************************************************************)
Fairness ==
  WF_vars(Drain) /\ WF_vars(DrainHandlers) /\ \A c \in Cpus : WF_vars(Step(c))

FairSpec == Spec /\ Fairness

-----------------------------------------------------------------------------
(* The labels of C code, after _start.                                     *)
InC == {"init", "check", "uart_init", "unlock", "start_others", "main",
        "banner_lock", "banner", "handlers", "master_done", "wait_master",
        "up_lock", "up", "idle"}

AfterInit == InC \ {"init", "check", "uart_init", "unlock"}

(* A CPU in C code finds .bss clear and knows the primary, whatever RAM    *)
(* held: nobody is clearing any more, it reads no junk, and all the stores *)
(* of _start have reached it.  So it is when memory keeps their order, and *)
(* without that when the others are started by the primary: the fence of   *)
(* spin_unlock lies between.                                               *)
BssClearBeforeC ==
  \A c \in Cpus : pc[c] \in InC =>
    /\ \A d \in Cpus : pc[d] \notin {"elected", "clear"}
    /\ \A w \in Words : Load(c, w) # Junk
    /\ c # primary => pending = {}
    /\ machine.arch = "riscv" => Load(c, "primary_hart") = primary

(* The UART is initialised once and before any CPU leaves _init, though    *)
(* every CPU runs _init; the banner is the first line; each CPU says once  *)
(* that it is up, and then the handlers it may be interrupted into are     *)
(* installed.  Where memory reorders, a RISC-V hart may say so before the  *)
(* stores of irq_set_handler reach it, but not the primary itself.         *)
OutputInOrder ==
  /\ uart <= 1
  /\ \A c \in Cpus : pc[c] \in AfterInit => uart = 1
  /\ output # <<>> => output[1] = <<"guest">>
  /\ \A k \in 2 .. Len(output) :
       /\ output[k] # <<"guest">>
       /\ \A l \in 2 .. k - 1 : output[l] # output[k]
  /\ \A k \in 2 .. Len(output) :
       machine.arch # "riscv" \/ machine.inOrder \/ output[k] = <<"up", primary>>
         => mem["irq_handlers"] = 1

(* The CPUs that must come up: all, when arch_init starts them from CPU 0  *)
(* or from hart 1.  On RISC-V every hart runs the start loop and a hart    *)
(* that is already on ends it, so another primary may start only some.     *)
Expected ==
  IF machine.arch = "aarch64" /\ machine.level \in {0, 3} THEN {}
  ELSE IF machine.firmware /\ machine.atReset \in {{0}, {1}} THEN Cpus
  ELSE machine.atReset

(* They all come up: no CPU stays in a wait or on a lock, and the loops of *)
(* arch_init, which run on several CPUs at once, together start everybody. *)
AllUp == \A c \in Cpus : c \in Expected ~> pc[c] = "idle"
=============================================================================
