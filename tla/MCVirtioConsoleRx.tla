-------------------------- MODULE MCVirtioConsoleRx --------------------------
(* The receive path alone, with a console that becomes ready.              *)
EXTENDS VirtioConsoleRx

CONSTANT a
=============================================================================
