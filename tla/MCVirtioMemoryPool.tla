------------------------- MODULE MCVirtioMemoryPool -------------------------
(* VirtioMemoryPool for TLC; the constants are in the configurations.      *)
EXTENDS VirtioMemoryPool
=============================================================================
