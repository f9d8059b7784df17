--------------------------- MODULE MCVirtioConsole ---------------------------
(* VirtioConsole for TLC.  VERSION_1 (bit 32) and ACCESS_PLATFORM (bit 33) *)
(* lie in word 1; a device may also offer a feature of word 0.  Buffers of *)
(* 3 bytes and a console buffer of 7 take two appends and refuse the       *)
(* third; 64 and 256, as in the code, take four.                           *)
EXTENDS VirtioConsole

CONSTANT a

MCFeatures == {<<1, 0>>, <<1, 1>>}
MCOtherFeatures == {<<0, 0>>}
=============================================================================
