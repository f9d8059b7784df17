------------------------- MODULE VirtQueueRefinement -------------------------
(***************************************************************************)
(* The refinement mapping from the rings of VirtQueue to the queues of     *)
(* VirtqChannel: a queue is the window of ring entries between the two     *)
(* indices, a content is the descriptor table entry of a descriptor the    *)
(* driver does not hold.                                                   *)
(***************************************************************************)
EXTENDS VirtQueue, Sequences

Holder(p) ==
  CASE p \in {"taken", "filled", "placed", "reaped"} -> "driver"
    [] p \in {"device", "stored"} -> "device"
    [] OTHER -> p

Window(ring, idx, last) ==
  [i \in 1 .. Pending(idx, last) |-> ring[Slot(last + i - 1)]]

Place == [d \in Desc |-> Holder(owner[d])]

Content ==
  [d \in Desc |-> IF Holder(owner[d]) \in {"free", "driver"} THEN {}
                  ELSE {desc[d].buf}]

AvailQ == Window(avail_ring, avail_idx, avail_last_idx)

UsedQ == Window(used_ring, used_idx, last_used_idx)

Channel == INSTANCE VirtqChannel WITH
  Ids <- Desc, Bufs <- Buffers,
  place <- Place, content <- Content, availQ <- AvailQ, usedQ <- UsedQ

(* The virtqueue of virtio_queue.h is a pair of lossless FIFO queues that  *)
(* hand each descriptor, with the contents it was offered with, from       *)
(* driver to device and back.                                              *)
ChannelSpec == Channel!CSpec
=============================================================================
