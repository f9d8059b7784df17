----------------------------- MODULE MCVirtQueue -----------------------------
(* Model values for VirtQueue: a queue of two descriptors whose indices    *)
(* wrap after four, so that rings wrap and indices overflow within a run.  *)
EXTENDS VirtQueueRefinement

CONSTANTS b1, b2, none
=============================================================================
