-------------------------- MODULE VirtioMemoryPool --------------------------
(***************************************************************************)
(* The memory pool of core/inc/virtio_memory_pool.h as the transmit queue  *)
(* uses it.  The pool keeps no list of allocations: a byte is taken to be  *)
(* allocated when it is not zero, and the next allocation starts where the *)
(* last one ended, or at 0 when it does not fit before the end.  The       *)
(* driver allocates strlen(data) bytes, strcpy's the message (and its NUL) *)
(* into them under tx_lock, and frees the bytes when the device has used   *)
(* them, which an interrupt may do between the allocation and the copy.    *)
(* The device uses buffers in any order (VIRTIO_F_IN_ORDER is not          *)
(* negotiated) and a message may have a single character.                  *)
(***************************************************************************)
EXTENDS Integers, Sequences, SequencesExt

CONSTANTS
  PoolSize,     \* bytes of the pool (VIRTQ_SIZE * 64)
  VIRTQ_SIZE,   \* descriptors, the bound on simultaneous allocations
  MaxLen        \* longest message the caller transmits

ASSUME PoolAssumption ==
  /\ PoolSize \in Nat \ {0}
  /\ VIRTQ_SIZE \in Nat \ {0}
  /\ MaxLen \in Nat

VARIABLES
  base,      \* base[i]: byte i of the pool is not zero
  offset,    \* where the next allocation starts
  reserved,  \* blocks allocated and not yet written: none or one
  live,      \* blocks handed to the device, in the order of the copies
  erased     \* history: bytes of these blocks a later copy's NUL overwrote

vars == <<base, offset, reserved, live, erased>>

Bytes == 0 .. PoolSize - 1

Block == [at : Bytes, len : Nat \ {0}]

Span(b) == b.at .. b.at + b.len - 1

(* The bytes of the blocks of a sequence.                                  *)
Held(s) == UNION {Span(s[k]) : k \in 1 .. Len(s)}

Null == -1

Clear(at, n) == \A i \in at .. at + n - 1 : ~base[i]

-----------------------------------------------------------------------------
virtio_memory_pool_init ==
  /\ base = [i \in Bytes |-> FALSE]
  /\ offset = 0

Init == virtio_memory_pool_init /\ reserved = {} /\ live = << >> /\ erased = {}

AllocNeverWraps(n) ==
  IF offset + n <= PoolSize /\ Clear(offset, n) THEN offset ELSE Null

ChecksFirstByteOnly(n) ==
  IF n > PoolSize THEN Null
  ELSE IF offset + n <= PoolSize THEN (IF Clear(offset, 1) THEN offset ELSE Null)
  ELSE IF n <= offset THEN (IF Clear(0, 1) THEN 0 ELSE Null)
  ELSE Null

(* The address virtio_memory_pool_alloc returns for n bytes.               *)
virtio_memory_pool_alloc(n) ==
  IF n > PoolSize THEN Null
  ELSE IF offset + n <= PoolSize THEN (IF Clear(offset, n) THEN offset ELSE Null)
  ELSE IF n <= offset THEN (IF Clear(0, n) THEN 0 ELSE Null)
  ELSE Null

(* virtio_console_transmit: a descriptor is free and the allocation        *)
(* succeeds.  When it fails the pool is unchanged.                         *)
Allocate(n) ==
  /\ reserved = {}
  /\ Len(live) < VIRTQ_SIZE
  /\ virtio_memory_pool_alloc(n) # Null
  /\ offset' = virtio_memory_pool_alloc(n) + n
  /\ reserved' = {[at |-> virtio_memory_pool_alloc(n), len |-> n]}
  /\ UNCHANGED <<base, live, erased>>

(* strcpy of a message of b.len characters: its NUL goes to the byte after *)
(* the block, which may be the first byte of an older one, or past the end *)
(* of the pool.                                                            *)
Strcpy(b) ==
  /\ b \in reserved
  /\ base' = [i \in Bytes |-> (i \in Span(b)) \/ (i # b.at + b.len /\ base[i])]
  /\ reserved' = {}
  /\ live' = Append(live, b)
  /\ erased' = erased \cup ({b.at + b.len} \cap Held(live))
  /\ UNCHANGED offset

FreeOneShort(k) ==
  /\ base' = [i \in Bytes |-> base[i] /\ i \notin (Span(live[k]) \ {live[k].at + live[k].len - 1})]
  /\ live' = RemoveAt(live, k)
  /\ erased' = erased \cap Held(RemoveAt(live, k))
  /\ UNCHANGED <<offset, reserved>>

(* virtio_memory_pool_free of a block the device has used.  A block lies   *)
(* within the pool, so none of the early returns is taken.                 *)
virtio_memory_pool_free(k) ==
  /\ base' = [i \in Bytes |-> base[i] /\ i \notin Span(live[k])]
  /\ live' = RemoveAt(live, k)
  /\ erased' = erased \cap Held(RemoveAt(live, k))
  /\ UNCHANGED <<offset, reserved>>

Next ==
  \/ \E n \in 1 .. MaxLen : Allocate(n)
  \/ \E b \in reserved : Strcpy(b)
  \/ \E k \in 1 .. Len(live) : virtio_memory_pool_free(k)

Spec == Init /\ [][Next]_vars

-----------------------------------------------------------------------------
(* The offset stays in the pool and every block lies within it: no strcpy  *)
(* writes more than its NUL outside, and no free is refused.               *)
TypeOK ==
  /\ base \in [Bytes -> BOOLEAN]
  /\ offset \in 0 .. PoolSize
  /\ \A b \in reserved : b \in Block /\ Span(b) \subseteq Bytes
  /\ live \in Seq(Block)
  /\ \A k \in 1 .. Len(live) : Span(live[k]) \subseteq Bytes
  /\ erased \subseteq Held(live)

(* Freed memory is really free: every byte that is not zero belongs to a   *)
(* block the device still holds, so no sequence of allocations, copies and *)
(* out-of-order frees makes a part of the pool unusable for ever.          *)
NoResidue ==
  \A i \in Bytes : base[i] => \E k \in 1 .. Len(live) : i \in Span(live[k])

(* With no buffer outstanding an allocation of up to half the pool         *)
(* succeeds, wherever the offset was left.                                 *)
IdlePoolServes ==
  reserved = {} /\ live = << >> =>
    \A n \in 1 .. PoolSize : 2 * n <= PoolSize => virtio_memory_pool_alloc(n) # Null

(* "Check if the memory is already allocated", in the one form the code    *)
(* gives it: two outstanding blocks share a byte only where the NUL of a   *)
(* copy overwrote that byte while the older block was outstanding.  With   *)
(* single characters or completions out of order this does happen.         *)
SharedOnlyErased ==
  /\ \A j, k \in 1 .. Len(live) : j # k => Span(live[j]) \cap Span(live[k]) \subseteq erased
  /\ \A b \in reserved, k \in 1 .. Len(live) : Span(b) \cap Span(live[k]) \subseteq erased
=============================================================================
