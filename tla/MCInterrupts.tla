---------------------------- MODULE MCInterrupts ----------------------------
(* Interrupts for TLC: RISC-V platforms (an 8250), Arm ones with a GICv2   *)
(* (an 8250; fewer CPUs than the target list has, or as many) or a GICv3   *)
(* (a PL011); faults on the master and on a secondary CPU.                 *)
EXTENDS Interrupts

Riscv(faulty, code) ==
  [arch |-> "riscv", intc |-> "plic", list |-> 0, rxAtInit |-> FALSE,
   latched |-> FALSE, faulty |-> faulty, code |-> code]

Arm(arch, intc, list, faulty) ==
  [arch |-> arch, intc |-> intc, list |-> list, rxAtInit |-> intc = "gicv3",
   latched |-> intc = "gicv3", faulty |-> faulty, code |-> 1]

MCPlatforms ==
  {Riscv(Nobody, 1), Riscv(0, 1), Riscv(1, 5),
   Arm("aarch64", "gicv2", 8, Nobody), Arm("aarch64", "gicv2", NumCpus, Nobody),
   Arm("aarch32", "gicv3", 0, Nobody), Arm("aarch64", "gicv3", 0, 1)}
=============================================================================
