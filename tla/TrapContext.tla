---------------------------- MODULE TrapContext ----------------------------
(***************************************************************************)
(* What a trap does to the code it interrupts: the register saves of the   *)
(* three exception vectors, and the stacks _start sets up for them.        *)
(*                                                                         *)
(* Registers come in classes, which hold the values of the interrupted     *)
(* code or others.  A trap masks interrupts and no handler unmasks them,   *)
(* so traps do not nest.                                                   *)
(***************************************************************************)
EXTENDS Naturals

CONSTANTS
  NumCpus,
  Nobody      \* not a CPU

Cpus == 0 .. NumCpus - 1

(***************************************************************************)
(* scratch: what a C function may change (x0-x18; r0-r3, r12; a0-a7,       *)
(*          t0-t6, and the floating-point registers of a hart)             *)
(* saved:   what a C function puts back (x19-x29; r4-r11; s0-s11)          *)
(* link:    the link register of the interrupted code (x30; r14; ra)       *)
(* return:  where the trap returns to (ELR; r14 of IRQ mode; sepc)         *)
(*                                                                         *)
(* The Arm builds are compiled without floating-point registers.           *)
(***************************************************************************)
Regs == {"scratch", "saved", "link", "return"}

VARIABLES
  regs,       \* per CPU, the classes that hold its own values
  memory      \* per stack frame, whose it is and the classes it holds

contextVars == <<regs, memory>>

(* What the call of a C handler changes.  IRQ mode of aarch32 has its own  *)
(* r14, the return address: bl overwrites that one.                        *)
Clobbered(arch) == {"scratch", IF arch = "aarch32" THEN "return" ELSE "link"}

ReturnNotSaved(arch) ==
  CASE arch = "aarch64" -> {"scratch", "link"}
    [] arch = "aarch32" -> {"scratch", "saved"}
    [] OTHER            -> {"scratch", "link"}

(* What the vector saves: x0-x19, x29 and x30 in SAVE_REGS; r0-r12 and r14 *)
(* in irq_handler; what the compiler finds in use in exception_handler.    *)
Saved(arch) ==
  CASE arch = "aarch64" -> {"scratch", "link"}
    [] arch = "aarch32" -> {"scratch", "saved", "return"}
    [] OTHER            -> {"scratch", "link"}

(* The stack, in areas of STACK_SIZE, that main runs on.                   *)
MainArea(arch, c) == IF arch = "aarch32" THEN 2 * c ELSE c

(* A trap frame lies below the frames of main, except on aarch32, where    *)
(* IRQ mode has an area of its own.                                        *)
MainFrame(arch, c) == <<MainArea(arch, c), 0>>

TrapFrame(arch, c) ==
  IF arch = "aarch32" THEN <<2 * c + 1, 0>> ELSE <<MainArea(arch, c), 1>>

Frames(arch) == UNION {{MainFrame(arch, c), TrapFrame(arch, c)} : c \in Cpus}

Empty == [owner |-> Nobody, holds |-> {}]

(* The CPUs run main on their stacks.                                      *)
ContextInit(arch) ==
  /\ regs = [c \in Cpus |-> Regs]
  /\ memory = [f \in Frames(arch) |->
       IF \E c \in Cpus : f = MainFrame(arch, c)
         THEN [owner |-> CHOOSE c \in Cpus : f = MainFrame(arch, c), holds |-> Regs]
         ELSE Empty]

(* The vector saves registers and calls C, which changes some.             *)
Enter(arch, c) ==
  /\ memory' = [memory EXCEPT ![TrapFrame(arch, c)] =
       [owner |-> c, holds |-> regs[c] \cap Saved(arch)]]
  /\ regs' = [regs EXCEPT ![c] = @ \ Clobbered(arch)]

(* RESTORE_REGS and eret, pop and subs pc, the epilogue and sret.  What is *)
(* below the stack pointer then counts for nothing.                        *)
Leave(arch, c) ==
  LET frame == memory[TrapFrame(arch, c)] IN
    /\ regs' = [regs EXCEPT ![c] =
         (@ \ Saved(arch)) \cup (IF frame.owner = c THEN frame.holds ELSE {})]
    /\ memory' = [memory EXCEPT ![TrapFrame(arch, c)] = Empty]

(* The CPU has its registers, and main its frames.                         *)
OwnContext(arch, c) ==
  /\ regs[c] = Regs
  /\ memory[MainFrame(arch, c)] = [owner |-> c, holds |-> Regs]
=============================================================================
