------------------------------ MODULE VirtQueue ------------------------------
(***************************************************************************)
(* One split virtqueue of core/inc/virtio_queue.h: the descriptor table    *)
(* whose "next" fields chain the free descriptors, the available ring, the *)
(* used ring and the private indices of the driver and of the device.      *)
(*                                                                         *)
(* The driver (virtio_console.c) takes, fills, offers, reaps and returns   *)
(* descriptors.  The device uses the header's device-side functions and,   *)
(* since VIRTIO_F_IN_ORDER is not negotiated, completes buffers in any     *)
(* order.  The two run concurrently on shared memory, so the two stores of *)
(* virtq_add_avail_buf and of virtq_add_used_buf are separate steps; the   *)
(* other functions touch shared memory the other side leaves alone and are *)
(* one step each.  Stores become visible in program order.                 *)
(*                                                                         *)
(* Ring indices are uint16_t and never reset: they run modulo IDX_WRAP     *)
(* (2^16 in the code) and are reduced modulo VIRTQ_SIZE to address a slot. *)
(***************************************************************************)
EXTENDS Integers

CONSTANTS
  VIRTQ_SIZE,   \* entries of the descriptor table and of each ring (1024)
  IDX_WRAP,     \* number of values of a uint16_t ring index (65536)
  Buffers,      \* what a descriptor can describe (addr, len and flags)
  NoBuffer      \* addr = len = flags = 0

ASSUME QueueAssumption ==
  /\ VIRTQ_SIZE \in Nat \ {0}
  /\ IDX_WRAP \in Nat
  /\ VIRTQ_SIZE < IDX_WRAP
  /\ IDX_WRAP % VIRTQ_SIZE = 0

ASSUME BuffersAssumption == NoBuffer \notin Buffers

Desc == 0 .. VIRTQ_SIZE - 1
Idx  == 0 .. IDX_WRAP - 1

VARIABLES
  desc,            \* descriptor table: [buf, next] per descriptor
  desc_next_free,  \* head of the free chain
  desc_num_free,   \* length of the free chain
  avail_ring, avail_idx, avail_last_idx,
  used_ring, used_idx, last_used_idx,
  owner            \* history: where each descriptor is in its life

descVars  == <<desc, desc_next_free, desc_num_free>>
availVars == <<avail_ring, avail_idx, avail_last_idx>>
usedVars  == <<used_ring, used_idx, last_used_idx>>
vars      == <<desc, desc_next_free, desc_num_free,
               avail_ring, avail_idx, avail_last_idx,
               used_ring, used_idx, last_used_idx, owner>>

(***************************************************************************)
(* The life of a descriptor.  The driver holds it while "taken", "filled", *)
(* "placed" (in the available ring, index not yet advanced) and "reaped";  *)
(* the device while "device" and "stored" (in the used ring, index not yet *)
(* advanced).                                                              *)
(***************************************************************************)
Places == {"free", "taken", "filled", "placed", "avail",
           "device", "stored", "used", "reaped"}

At(p) == {d \in Desc : owner[d] = p}

Move(d, p) == owner' = [owner EXCEPT ![d] = p]

Slot(i) == i % VIRTQ_SIZE

Inc(i)  == (i + 1) % IDX_WRAP

(***************************************************************************)
(* virtq_init: descriptor i chains to i + 1, the last one to 0.            *)
(***************************************************************************)
virtq_init ==
  /\ desc = [d \in Desc |-> [buf  |-> NoBuffer,
                             next |-> IF d = VIRTQ_SIZE - 1 THEN 0 ELSE d + 1]]
  /\ desc_next_free = 0
  /\ desc_num_free = VIRTQ_SIZE
  /\ avail_ring = [s \in Desc |-> 0]
  /\ avail_idx = 0
  /\ avail_last_idx = 0
  /\ used_ring = [s \in Desc |-> 0]
  /\ used_idx = 0
  /\ last_used_idx = 0

Init == virtq_init /\ owner = [d \in Desc |-> "free"]

-----------------------------------------------------------------------------
(* Driver side.                                                            *)

virtq_has_free_slots == desc_num_free # 0

(* The assertion virtq_has_free_slots is the caller's obligation: here it  *)
(* is the guard, VirtioConsoleTx shows who meets it.                       *)
virtq_get_free_desc_id ==
  /\ virtq_has_free_slots
  /\ desc_next_free' = desc[Slot(desc_next_free)].next
  /\ desc_num_free' = desc_num_free - 1
  /\ Move(desc_next_free, "taken")
  /\ UNCHANGED <<desc, availVars, usedVars>>

(* virtq_desc_init with virtq_desc_set_read_only or _write_only.           *)
virtq_desc_init(id, b) ==
  /\ owner[id] = "taken"
  /\ desc' = [desc EXCEPT ![id] = [buf |-> b, next |-> 0]]
  /\ Move(id, "filled")
  /\ UNCHANGED <<desc_next_free, desc_num_free, availVars, usedVars>>

IndexOvertakes(id) ==
  /\ owner[id] = "filled"
  /\ At("placed") = {}
  /\ avail_idx' = Inc(avail_idx)
  /\ Move(id, "avail")
  /\ UNCHANGED <<descVars, avail_ring, avail_last_idx, usedVars>>

(* virtq_add_avail_buf: the ring entry is stored first; the callers offer  *)
(* one buffer at a time ...                                                *)
virtq_add_avail_buf_ring(id) ==
  /\ owner[id] = "filled"
  /\ At("placed") = {}
  /\ avail_ring' = [avail_ring EXCEPT ![Slot(avail_idx)] = id]
  /\ Move(id, "placed")
  /\ UNCHANGED <<descVars, avail_idx, avail_last_idx, usedVars>>

(* ... then the index that makes it visible to the device.                 *)
virtq_add_avail_buf_idx(id) ==
  /\ owner[id] = "placed"
  /\ avail_idx' = Inc(avail_idx)
  /\ Move(id, "avail")
  /\ UNCHANGED <<descVars, avail_ring, avail_last_idx, usedVars>>

virtq_used_has_buf == used_idx # last_used_idx

GetUsedNotAdvanced ==
  /\ virtq_used_has_buf
  /\ Move(used_ring[Slot(last_used_idx)], "reaped")
  /\ UNCHANGED <<descVars, availVars, usedVars>>

ReapsOneOfSeveral ==
  /\ virtq_used_has_buf
  /\ last_used_idx' = used_idx
  /\ Move(used_ring[Slot(last_used_idx)], "reaped")
  /\ UNCHANGED <<descVars, availVars, used_ring, used_idx>>

virtq_get_used_buf_id ==
  /\ virtq_used_has_buf
  /\ last_used_idx' = Inc(last_used_idx)
  /\ Move(used_ring[Slot(last_used_idx)], "reaped")
  /\ UNCHANGED <<descVars, availVars, used_ring, used_idx>>

PutHeadBeforeLink(id) ==
  /\ owner[id] = "reaped"
  /\ desc' = [desc EXCEPT ![id].next = id]
  /\ desc_next_free' = id
  /\ desc_num_free' = desc_num_free + 1
  /\ Move(id, "free")
  /\ UNCHANGED <<availVars, usedVars>>

(* The assertion desc_num_free < VIRTQ_SIZE is not a guard: PutFreeAssert  *)
(* says that it never fails.                                               *)
virtq_put_free_desc(id) ==
  /\ owner[id] = "reaped"
  /\ desc' = [desc EXCEPT ![id].next = desc_next_free]
  /\ desc_next_free' = id
  /\ desc_num_free' = desc_num_free + 1
  /\ Move(id, "free")
  /\ UNCHANGED <<availVars, usedVars>>

-----------------------------------------------------------------------------
(* Device side.                                                            *)

virtq_avail_has_buf == avail_idx # avail_last_idx

FetchUnchecked ==
  /\ avail_last_idx' = Inc(avail_last_idx)
  /\ Move(avail_ring[Slot(avail_last_idx)], "device")
  /\ UNCHANGED <<descVars, avail_ring, avail_idx, usedVars>>

virtq_get_avail_buf_id ==
  /\ virtq_avail_has_buf
  /\ avail_last_idx' = Inc(avail_last_idx)
  /\ Move(avail_ring[Slot(avail_last_idx)], "device")
  /\ UNCHANGED <<descVars, avail_ring, avail_idx, usedVars>>

StoreInNextSlot(id) ==
  /\ owner[id] = "device"
  /\ At("stored") = {}
  /\ used_ring' = [used_ring EXCEPT ![Slot(used_idx + 1)] = id]
  /\ Move(id, "stored")
  /\ UNCHANGED <<descVars, availVars, used_idx, last_used_idx>>

virtq_add_used_buf_ring(id) ==
  /\ owner[id] = "device"
  /\ At("stored") = {}
  /\ used_ring' = [used_ring EXCEPT ![Slot(used_idx)] = id]
  /\ Move(id, "stored")
  /\ UNCHANGED <<descVars, availVars, used_idx, last_used_idx>>

virtq_add_used_buf_idx(id) ==
  /\ owner[id] = "stored"
  /\ used_idx' = Inc(used_idx)
  /\ Move(id, "used")
  /\ UNCHANGED <<descVars, availVars, used_ring, last_used_idx>>

-----------------------------------------------------------------------------
Driver ==
  \/ virtq_get_free_desc_id
  \/ \E id \in Desc, b \in Buffers : virtq_desc_init(id, b)
  \/ \E id \in Desc : virtq_add_avail_buf_ring(id)
  \/ \E id \in Desc : virtq_add_avail_buf_idx(id)
  \/ virtq_get_used_buf_id
  \/ \E id \in Desc : virtq_put_free_desc(id)

Device ==
  \/ virtq_get_avail_buf_id
  \/ \E id \in Desc : virtq_add_used_buf_ring(id)
  \/ \E id \in Desc : virtq_add_used_buf_idx(id)

Next == Driver \/ Device

Spec == Init /\ [][Next]_vars

(***************************************************************************)
(* Fairness: the interrupt handler drains the used ring and returns every  *)
(* descriptor it reaped, a transmission that reached the ring advances the *)
(* index, and the device keeps completing what it was offered.             *)
(***************************************************************************)
Fairness ==
  /\ WF_vars(virtq_get_used_buf_id)
  /\ WF_vars(virtq_get_avail_buf_id)
  /\ \A id \in Desc :
       /\ WF_vars(virtq_put_free_desc(id))
       /\ SF_vars(virtq_add_used_buf_ring(id))
       /\ WF_vars(virtq_add_used_buf_idx(id))

FairSpec == Spec /\ Fairness

-----------------------------------------------------------------------------
(***************************************************************************)
(* Properties.                                                             *)
(***************************************************************************)

(* The fields of the queue keep the ranges of their C types.               *)
TypeOK ==
  /\ desc \in [Desc -> [buf : Buffers \cup {NoBuffer}, next : Desc]]
  /\ desc_next_free \in Desc
  /\ desc_num_free \in 0 .. VIRTQ_SIZE
  /\ avail_ring \in [Desc -> Desc]
  /\ used_ring \in [Desc -> Desc]
  /\ {avail_idx, avail_last_idx, used_idx, last_used_idx} \subseteq Idx
  /\ owner \in [Desc -> Places]

(* c lists the free descriptors in the order of the chain.                 *)
FreeChain(c) ==
  /\ \A i, j \in 1 .. desc_num_free : c[i] = c[j] => i = j
  /\ {c[i] : i \in 1 .. desc_num_free} = At("free")
  /\ desc_num_free > 0 => c[1] = desc_next_free
  /\ \A i \in 1 .. desc_num_free - 1 : desc[c[i]].next = c[i + 1]

(* The chain from desc_next_free through the "next" fields visits exactly  *)
(* the free descriptors, each once, and desc_num_free is its length: no    *)
(* descriptor is lost and none is handed out twice, whatever the order in  *)
(* which virtq_put_free_desc returned them.                                *)
FreeListOK == \E c \in [1 .. desc_num_free -> Desc] : FreeChain(c)

(* The entries a ring holds between a consumer's index and a producer's.   *)
Pending(idx, last) == (idx - last) % IDX_WRAP

WindowOK(ring, idx, last, S) ==
  /\ Pending(idx, last) <= VIRTQ_SIZE
  /\ \A i, j \in 0 .. Pending(idx, last) - 1 :
       ring[Slot(last + i)] = ring[Slot(last + j)] => i = j
  /\ {ring[Slot(last + i)] : i \in 0 .. Pending(idx, last) - 1} = S

(* The entry stored ahead of the index is the one about to be published.   *)
AheadOK(ring, idx, S) == \A d \in S : ring[Slot(idx)] = d

(* Between avail_last_idx and avail_idx the available ring holds exactly   *)
(* the offered descriptors, once each, also when the uint16_t indices      *)
(* wrapped: no entry is overwritten before the device has read it.         *)
AvailWindowOK ==
  /\ WindowOK(avail_ring, avail_idx, avail_last_idx, At("avail"))
  /\ AheadOK(avail_ring, avail_idx, At("placed"))

(* The same for the used ring, between last_used_idx and used_idx.         *)
UsedWindowOK ==
  /\ WindowOK(used_ring, used_idx, last_used_idx, At("used"))
  /\ AheadOK(used_ring, used_idx, At("stored"))

(* assert(vq->desc_num_free < VIRTQ_SIZE) of virtq_put_free_desc holds     *)
(* whenever the driver is about to return a descriptor it reaped.          *)
PutFreeAssert == At("reaped") # {} => desc_num_free < VIRTQ_SIZE

LifeSteps ==
  {<<"free", "taken">>, <<"taken", "filled">>, <<"filled", "placed">>,
   <<"placed", "avail">>, <<"avail", "device">>, <<"device", "stored">>,
   <<"stored", "used">>, <<"used", "reaped">>, <<"reaped", "free">>}

(* A descriptor moves only along its life: the id that comes out of the    *)
(* free list was free, the id the device reads from the available ring was *)
(* offered, the id the driver reads from the used ring was completed.      *)
LifeCycle ==
  [][\A d \in Desc : owner'[d] # owner[d] =>
        <<owner[d], owner'[d]>> \in LifeSteps]_vars

(* Every offered buffer comes back to the free list.                       *)
OfferedReturns == \A d \in Desc : owner[d] = "avail" ~> owner[d] = "free"
=============================================================================
