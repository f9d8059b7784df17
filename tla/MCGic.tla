------------------------------- MODULE MCGic -------------------------------
(* Gic for TLC: interrupt 0 is the IPI, 32 the first shared one; 33 shares *)
(* every register with it; 160 is behind the bounds of gicd_init of the    *)
(* GICv3 driver when six registers of 32 are implemented.                  *)
EXTENDS Gic
=============================================================================
