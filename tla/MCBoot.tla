------------------------------- MODULE MCBoot -------------------------------
(* Boot for TLC: one CPU started at reset and the others by arch_init, on  *)
(* memory that reorders stores; or several at reset, on memory in order.   *)
(* With hart 2 as the primary of four harts the start loops may leave out  *)
(* a hart.  The SINGLE_CORE build of RISC-V has one hart: its _start gives *)
(* every hart the same stack.                                              *)
EXTENDS Boot

Virtual(a, lev, S, fw, ord) ==
  [arch |-> a, level |-> lev, atReset |-> S, firmware |-> fw, inOrder |-> ord]

MCMachines ==
  {Virtual("riscv", 1, {0}, TRUE, FALSE), Virtual("riscv", 1, {1}, TRUE, FALSE),
   Virtual("riscv", 1, {2}, TRUE, TRUE), Virtual("riscv", 1, {1, 3}, TRUE, TRUE),
   Virtual("riscv", 1, {3}, FALSE, FALSE),
   Virtual("aarch64", 2, {0}, TRUE, FALSE), Virtual("aarch64", 3, {0}, TRUE, FALSE),
   Virtual("aarch32", 1, Cpus, FALSE, TRUE)}
=============================================================================
