---------------------------- MODULE BufferProofs ----------------------------
(***************************************************************************)
(* The memory pool for every pool size, message length and completion      *)
(* order: freed memory is reusable, an idle pool serves requests of up to  *)
(* half its size, and blocks share only bytes that a NUL erased.           *)
(*                                                                         *)
(* The receive path for every size and number of buffers: the terminator   *)
(* fits, the first chunk is stored, and the reader prints nothing or       *)
(* chunks of one message, from its first on.                               *)
(***************************************************************************)
EXTENDS VirtioMemoryPool, VirtioConsoleRx, SequenceTheorems, WellFoundedInduction, TLAPS

(* RemoveAt drops one element and keeps every other. *)
LEMMA RemoveAtFacts ==
  ASSUME NEW S, NEW s \in Seq(S), NEW k \in 1 .. Len(s)
  PROVE  /\ RemoveAt(s, k) \in Seq(S)
         /\ Len(RemoveAt(s, k)) = Len(s) - 1
         /\ \A i \in 1 .. Len(s) - 1 :
              RemoveAt(s, k)[i] = IF i < k THEN s[i] ELSE s[i + 1]
<1> DEFINE a == SubSeq(s, 1, k - 1)  b == SubSeq(s, k + 1, Len(s))
<1>1. /\ a \in Seq(S) /\ Len(a) = k - 1
      /\ \A i \in 1 .. k - 1 : a[i] = s[i]
  OBVIOUS
<1>2. /\ b \in Seq(S) /\ Len(b) = Len(s) - k
      /\ \A i \in 1 .. Len(s) - k : b[i] = s[k + i]
  OBVIOUS
<1> HIDE DEF a, b
<1>3. /\ a \o b \in Seq(S) /\ Len(a \o b) = Len(s) - 1
      /\ \A i \in 1 .. Len(s) - 1 :
           (a \o b)[i] = IF i < k THEN a[i] ELSE b[i - (k - 1)]
  <2>1. /\ a \o b \in Seq(S) /\ Len(a \o b) = Len(a) + Len(b)
        /\ \A i \in 1 .. Len(a) + Len(b) :
             (a \o b)[i] = IF i <= Len(a) THEN a[i] ELSE b[i - Len(a)]
    BY <1>1, <1>2, ConcatProperties, Zenon
  <2> QED  BY <1>1, <1>2, <2>1
<1>4. \A i \in 1 .. Len(s) - 1 : i < k => i \in 1 .. k - 1
  OBVIOUS
<1>5. \A i \in 1 .. Len(s) - 1 :
        ~(i < k) => i - (k - 1) \in 1 .. Len(s) - k /\ k + (i - (k - 1)) = i + 1
  OBVIOUS
<1>6. \A i \in 1 .. Len(s) - 1 : (a \o b)[i] = IF i < k THEN s[i] ELSE s[i + 1]
  BY <1>1, <1>2, <1>3, <1>4, <1>5
<1> QED  BY <1>3, <1>6 DEF RemoveAt, a, b

(* Removing one outstanding buffer keeps the others and adds none.         *)
LEMMA RemoveAtKeeps ==
  ASSUME NEW S, NEW s \in Seq(S), NEW k \in 1 .. Len(s)
  PROVE  /\ \A i \in 1 .. Len(RemoveAt(s, k)) :
              \E j \in 1 .. Len(s) : RemoveAt(s, k)[i] = s[j]
         /\ \A j \in (1 .. Len(s)) \ {k} :
              \E i \in 1 .. Len(RemoveAt(s, k)) : RemoveAt(s, k)[i] = s[j]
<1> DEFINE r == RemoveAt(s, k)
<1>1. /\ Len(r) = Len(s) - 1
      /\ \A i \in 1 .. Len(s) - 1 : r[i] = IF i < k THEN s[i] ELSE s[i + 1]
  BY RemoveAtFacts
<1> HIDE DEF r
<1>2. ASSUME NEW i \in 1 .. Len(r) PROVE \E j \in 1 .. Len(s) : r[i] = s[j]
  <2>1. i \in 1 .. Len(s) /\ i + 1 \in 1 .. Len(s) /\ i \in 1 .. Len(s) - 1
    BY <1>1
  <2> QED  BY <1>1, <2>1
<1>3. ASSUME NEW j \in (1 .. Len(s)) \ {k} PROVE \E i \in 1 .. Len(r) : r[i] = s[j]
  <2>1. CASE j < k
    BY <1>1, <2>1
  <2>2. CASE j > k
    <3>1. j - 1 \in 1 .. Len(s) - 1 /\ ~(j - 1 < k) /\ (j - 1) + 1 = j
      BY <2>2
    <3> QED  BY <1>1, <3>1
  <2> QED  BY <2>1, <2>2
<1> QED  BY <1>2, <1>3 DEF r

(* An address that the pool returns starts a run of n bytes inside it. *)
LEMMA AllocInside ==
  ASSUME TypeOK, NEW n \in 1 .. MaxLen, virtio_memory_pool_alloc(n) # Null
  PROVE  /\ virtio_memory_pool_alloc(n) \in Bytes
         /\ virtio_memory_pool_alloc(n) + n \in 0 .. PoolSize
         /\ n \in Nat \ {0}
  BY PoolAssumption DEF virtio_memory_pool_alloc, TypeOK, Bytes, Null

Inv == TypeOK /\ NoResidue

(* virtio_memory_pool_init leaves a pool of zero bytes.                    *)
LEMMA InitInv == Init => Inv
  BY PoolAssumption
     DEF Init, virtio_memory_pool_init, Inv, TypeOK, NoResidue, Bytes, Block, Held

(* virtio_memory_pool_alloc keeps the invariant.                           *)
LEMMA AllocateInv ==
  ASSUME Inv, NEW n \in 1 .. MaxLen, Allocate(n)
  PROVE  Inv'
<1> USE DEF Inv
<1> DEFINE p == virtio_memory_pool_alloc(n)
<1>1. p \in Bytes /\ p + n \in 0 .. PoolSize /\ n \in Nat \ {0}
  BY AllocInside DEF Allocate
<1>2. /\ offset' = p + n /\ reserved' = {[at |-> p, len |-> n]}
      /\ UNCHANGED <<base, live, erased>>
  BY DEF Allocate
<1> HIDE DEF p
<1>3. Span([at |-> p, len |-> n]) \subseteq Bytes
  BY <1>1, PoolAssumption DEF Span, Bytes
<1>4. TypeOK'
  BY <1>1, <1>2, <1>3 DEF TypeOK, Block
<1>5. NoResidue'
  BY <1>2 DEF NoResidue
<1> QED  BY <1>4, <1>5

(* The copy writes the block and its NUL, and keeps the invariant.         *)
LEMMA StrcpyInv ==
  ASSUME Inv, NEW b \in reserved, Strcpy(b)
  PROVE  Inv'
<1> USE DEF Inv
<1>1. b \in Block /\ Span(b) \subseteq Bytes /\ live \in Seq(Block)
  BY DEF TypeOK
<1>2. /\ base' = [i \in Bytes |-> (i \in Span(b)) \/ (i # b.at + b.len /\ base[i])]
      /\ reserved' = {} /\ live' = Append(live, b) /\ offset' = offset
      /\ erased' = erased \cup ({b.at + b.len} \cap Held(live))
  BY DEF Strcpy
<1>3. /\ live' \in Seq(Block) /\ Len(live') = Len(live) + 1
      /\ \A k \in 1 .. Len(live) : live'[k] = live[k]
      /\ live'[Len(live) + 1] = b
  BY <1>1, <1>2
<1>4. \A k \in 1 .. Len(live') : k \in 1 .. Len(live) \/ k = Len(live) + 1
  BY <1>1, <1>3
<1>5. base' \in [Bytes -> BOOLEAN]
  BY <1>2, Zenon
<1>6. \A k \in 1 .. Len(live') : Span(live'[k]) \subseteq Bytes
  BY <1>1, <1>3, <1>4 DEF TypeOK
<1>7. TypeOK'
  <2>1. Held(live) \subseteq Held(live')
    <3>1. ASSUME NEW k \in 1 .. Len(live) PROVE Span(live[k]) \subseteq Held(live')
      <4>1. k \in 1 .. Len(live') /\ live'[k] = live[k]
        BY <1>1, <1>3
      <4> QED  BY <4>1 DEF Held
    <3> QED  BY <3>1 DEF Held
  <2>2. erased' \subseteq Held(live')
    BY <1>2, <2>1 DEF TypeOK
  <2> QED  BY <1>2, <1>3, <1>5, <1>6, <2>2 DEF TypeOK
<1>8. ASSUME NEW i \in Bytes, base'[i]
      PROVE  \E k \in 1 .. Len(live') : i \in Span(live'[k])
  <2>1. i \in Span(b) \/ base[i]
    BY <1>2, <1>8, Zenon
  <2>2. CASE i \in Span(b)
    <3>1. Len(live) + 1 \in 1 .. Len(live')  BY <1>1, <1>3
    <3> QED  BY <1>3, <2>2, <3>1
  <2>3. CASE base[i]
    <3>1. PICK k \in 1 .. Len(live) : i \in Span(live[k])
      BY <2>3 DEF NoResidue
    <3>2. k \in 1 .. Len(live')  BY <1>1, <1>3
    <3> QED  BY <1>3, <3>1, <3>2
  <2> QED  BY <2>1, <2>2, <2>3
<1>9. NoResidue'
  BY <1>8 DEF NoResidue
<1> QED  BY <1>7, <1>9

(* virtio_memory_pool_free keeps the invariant.                            *)
LEMMA FreeInv ==
  ASSUME Inv, NEW k \in 1 .. Len(live), virtio_memory_pool_free(k)
  PROVE  Inv'
<1> USE DEF Inv
<1>1. live \in Seq(Block) /\ base \in [Bytes -> BOOLEAN]
  BY DEF TypeOK
<1>2. /\ base' = [i \in Bytes |-> base[i] /\ i \notin Span(live[k])]
      /\ live' = RemoveAt(live, k) /\ UNCHANGED <<offset, reserved>>
      /\ erased' \subseteq Held(live')
  BY DEF virtio_memory_pool_free
<1>3. /\ live' \in Seq(Block)
      /\ \A i \in 1 .. Len(live') : \E j \in 1 .. Len(live) : live'[i] = live[j]
      /\ \A j \in (1 .. Len(live)) \ {k} : \E i \in 1 .. Len(live') : live'[i] = live[j]
  BY <1>1, <1>2, RemoveAtFacts, RemoveAtKeeps
<1>4. base' \in [Bytes -> BOOLEAN]
  BY <1>2, Zenon
<1>5. \A i \in 1 .. Len(live') : Span(live'[i]) \subseteq Bytes
  BY <1>3 DEF TypeOK
<1>6. TypeOK'
  BY <1>2, <1>3, <1>4, <1>5 DEF TypeOK
<1>7. ASSUME NEW i \in Bytes, base'[i]
      PROVE  \E m \in 1 .. Len(live') : i \in Span(live'[m])
  <2>1. base[i] /\ i \notin Span(live[k])
    BY <1>2, <1>7, Zenon
  <2>2. PICK j \in 1 .. Len(live) : i \in Span(live[j])
    BY <2>1 DEF NoResidue
  <2>3. j # k
    BY <2>1, <2>2
  <2> QED  BY <1>3, <2>2, <2>3
<1>8. NoResidue'
  BY <1>7 DEF NoResidue
<1> QED  BY <1>6, <1>8

(* The inductive invariant holds in every reachable state.                 *)
THEOREM Invariance == Spec => []Inv
<1>1. Inv /\ [Next]_vars => Inv'
  <2> SUFFICES ASSUME Inv, [Next]_vars PROVE Inv'
    OBVIOUS
  <2>1. CASE \E n \in 1 .. MaxLen : Allocate(n)  BY <2>1, AllocateInv
  <2>2. CASE \E b \in reserved : Strcpy(b)  BY <2>2, StrcpyInv
  <2>3. CASE \E k \in 1 .. Len(live) : virtio_memory_pool_free(k)
    BY <2>3, FreeInv
  <2>4. CASE UNCHANGED vars  BY <2>4 DEF vars, Inv, TypeOK, NoResidue
  <2> QED  BY <2>1, <2>2, <2>3, <2>4 DEF Next
<1> QED  BY InitInv, <1>1, PTL DEF Spec

(* Every block the pool hands out lies within it. *)
THEOREM TypeCorrect == Spec => []TypeOK
<1>1. Inv => TypeOK  BY DEF Inv
<1> QED  BY Invariance, <1>1, PTL

(* virtio_memory_pool_free leaves nothing behind, in whatever order the    *)
(* device completes the buffers.                                           *)
THEOREM FreedIsReusable == Spec => []NoResidue
<1>1. Inv => NoResidue  BY DEF Inv
<1> QED  BY Invariance, <1>1, PTL

(* With nothing outstanding, virtio_memory_pool_alloc serves any request   *)
(* of up to half the pool, wherever the offset was left.                   *)
THEOREM IdleServes == Spec => []IdlePoolServes
<1>1. Inv => IdlePoolServes
  <2> SUFFICES ASSUME Inv, reserved = {}, live = << >>,
                      NEW n \in 1 .. PoolSize, 2 * n <= PoolSize
               PROVE  virtio_memory_pool_alloc(n) # Null
    BY DEF IdlePoolServes
  <2>1. Len(live) = 0  OBVIOUS
  <2>2. \A i \in Bytes : ~base[i]
    BY <2>1 DEF Inv, NoResidue
  <2>3. offset \in 0 .. PoolSize  BY DEF Inv, TypeOK
  <2>4. CASE offset + n <= PoolSize
    <3>1. \A i \in offset .. offset + n - 1 : i \in Bytes
      BY <2>3, <2>4, PoolAssumption DEF Bytes
    <3>2. Clear(offset, n)  BY <2>2, <3>1 DEF Clear
    <3> QED  BY <2>3, <2>4, <3>2, PoolAssumption DEF virtio_memory_pool_alloc, Null
  <2>5. CASE ~(offset + n <= PoolSize)
    <3>1. n <= offset  BY <2>3, <2>5, PoolAssumption
    <3>2. \A i \in 0 .. 0 + n - 1 : i \in Bytes
      BY PoolAssumption DEF Bytes
    <3>3. Clear(0, n)  BY <2>2, <3>2 DEF Clear
    <3> QED  BY <2>3, <2>5, <3>1, <3>3, PoolAssumption DEF virtio_memory_pool_alloc, Null
  <2> QED  BY <2>4, <2>5
<1> QED  BY Invariance, <1>1, PTL
-----------------------------------------------------------------------------
(***************************************************************************)
(* Double allocation.  virtio_memory_pool_alloc takes a byte that is not   *)
(* zero to be allocated.  A byte of an outstanding block is zero only if a *)
(* NUL overwrote it, so only such a byte is handed out twice; and a free   *)
(* clears bytes of another block only where they share them.               *)
(***************************************************************************)
ZeroOnlyErased ==
  \A k \in 1 .. Len(live) : \A i \in Span(live[k]) : base[i] \/ i \in erased

ErasedInv == Inv /\ ZeroOnlyErased /\ SharedOnlyErased

(* What virtio_memory_pool_alloc finds clear was erased, if a live block   *)
(* has it.                                                                 *)
LEMMA AllocErased ==
  ASSUME ErasedInv, NEW n \in 1 .. MaxLen, Allocate(n)
  PROVE  ErasedInv'
<1> USE DEF ErasedInv
<1> DEFINE p == virtio_memory_pool_alloc(n)
           a == [at |-> p, len |-> n]
<1>1. reserved' = {a} /\ UNCHANGED <<base, live, erased>>
  BY DEF Allocate
<1>2. \A i \in p .. p + n - 1 : ~base[i]
  BY DEF Allocate, virtio_memory_pool_alloc, Clear, Null
<1> HIDE DEF p
<1>3. ASSUME NEW k \in 1 .. Len(live), NEW i \in Span(a), i \in Span(live[k])
      PROVE  i \in erased
  <2>1. i \in p .. p + n - 1
    BY <1>3 DEF Span
  <2> QED
    BY <1>2, <1>3, <2>1 DEF ZeroOnlyErased
<1>4. SharedOnlyErased'
  BY <1>1, <1>3 DEF SharedOnlyErased
<1>5. ZeroOnlyErased'
  BY <1>1 DEF ZeroOnlyErased
<1> QED
  BY <1>4, <1>5, AllocateInv

(* The NUL of a copy is the only zero it writes into another block.        *)
LEMMA StrcpyErased ==
  ASSUME ErasedInv, NEW b \in reserved, Strcpy(b)
  PROVE  ErasedInv'
<1> USE DEF ErasedInv
<1>1. b \in Block /\ Span(b) \subseteq Bytes /\ live \in Seq(Block) /\ Len(live) \in Nat
  BY DEF Inv, TypeOK
<1>2. /\ base' = [i \in Bytes |-> (i \in Span(b)) \/ (i # b.at + b.len /\ base[i])]
      /\ reserved' = {} /\ live' = Append(live, b)
      /\ erased' = erased \cup ({b.at + b.len} \cap Held(live))
  BY DEF Strcpy
<1>3. /\ Len(live') = Len(live) + 1 /\ \A k \in 1 .. Len(live) : live'[k] = live[k]
      /\ live'[Len(live) + 1] = b
  BY <1>1, <1>2
<1>4. \A k \in 1 .. Len(live') : k \in 1 .. Len(live) \/ k = Len(live) + 1
  BY <1>1, <1>3
<1>5. \A i \in Bytes : /\ i \in Span(b) => base'[i]
                       /\ i # b.at + b.len /\ base[i] => base'[i]
  BY <1>2, Zenon
<1>6. \A k \in 1 .. Len(live) : Span(live[k]) \subseteq Bytes
  BY DEF Inv, TypeOK
<1>7. ASSUME NEW k \in 1 .. Len(live), NEW i \in Span(live[k])
      PROVE  base'[i] \/ i \in erased'
  <2>1. i \in Bytes
    BY <1>6
  <2>2. CASE i = b.at + b.len
    <3>1. i \in Held(live)
      BY DEF Held
    <3> QED
      BY <1>2, <2>2, <3>1
  <2>3. CASE i # b.at + b.len
    BY <1>2, <1>5, <2>1, <2>3 DEF ZeroOnlyErased
  <2> QED
    BY <2>2, <2>3
<1>8. ZeroOnlyErased'
  <2>1. ASSUME NEW k \in 1 .. Len(live'), NEW i \in Span(live'[k])
        PROVE  base'[i] \/ i \in erased'
    <3>1. CASE k = Len(live) + 1
      BY <1>1, <1>3, <1>5, <3>1
    <3>2. CASE k \in 1 .. Len(live)
      BY <1>3, <1>7, <3>2
    <3> QED
      BY <1>4, <3>1, <3>2
  <2> QED
    BY <2>1 DEF ZeroOnlyErased
<1>9. SharedOnlyErased'
  <2>1. \A k \in 1 .. Len(live) : Span(b) \cap Span(live[k]) \subseteq erased
    BY DEF SharedOnlyErased
  <2>2. ASSUME NEW j \in 1 .. Len(live'), NEW k \in 1 .. Len(live'), j # k
        PROVE  Span(live'[j]) \cap Span(live'[k]) \subseteq erased
    <3>1. CASE j = Len(live) + 1
      BY <1>3, <1>4, <2>1, <2>2, <3>1
    <3>2. CASE k = Len(live) + 1
      BY <1>3, <1>4, <2>1, <2>2, <3>2
    <3>3. CASE j \in 1 .. Len(live) /\ k \in 1 .. Len(live)
      BY <1>3, <2>2, <3>3 DEF SharedOnlyErased
    <3> QED
      BY <1>4, <3>1, <3>2, <3>3
  <2> QED
    BY <1>2, <2>2 DEF SharedOnlyErased
<1> QED
  BY <1>8, <1>9, StrcpyInv

(* A free clears bytes of another block only where the two share them.     *)
LEMMA FreeErased ==
  ASSUME ErasedInv, NEW k \in 1 .. Len(live), virtio_memory_pool_free(k)
  PROVE  ErasedInv'
<1> USE DEF ErasedInv
<1>1. live \in Seq(Block) /\ Len(live) \in Nat
  BY DEF Inv, TypeOK
<1>2. /\ base' = [i \in Bytes |-> base[i] /\ i \notin Span(live[k])]
      /\ live' = RemoveAt(live, k) /\ UNCHANGED reserved
      /\ erased' = erased \cap Held(live')
  BY DEF virtio_memory_pool_free
<1> DEFINE old(m) == IF m < k THEN m ELSE m + 1
<1>3. /\ Len(live') = Len(live) - 1
      /\ \A m \in 1 .. Len(live) - 1 : live'[m] = IF m < k THEN live[m] ELSE live[m + 1]
  BY <1>1, <1>2, RemoveAtFacts
<1>4. \A m \in 1 .. Len(live') :
        old(m) \in 1 .. Len(live) /\ old(m) # k /\ live'[m] = live[old(m)]
  BY <1>1, <1>3
<1>5. \A m, l \in 1 .. Len(live') : m # l => old(m) # old(l)
  OBVIOUS
<1> HIDE DEF old
<1>6. \A m \in 1 .. Len(live') : Span(live'[m]) \subseteq Held(live')
  BY DEF Held
<1>7. ASSUME NEW m \in 1 .. Len(live'), NEW i \in Span(live'[m])
      PROVE  base'[i] \/ i \in erased'
  <2>1. i \in Bytes /\ i \in Span(live[old(m)])
    BY <1>4 DEF Inv, TypeOK
  <2>2. CASE i \in Span(live[k])
    <3>1. i \in erased
      BY <1>4, <2>1, <2>2 DEF SharedOnlyErased
    <3> QED
      BY <1>2, <1>6, <3>1
  <2>3. CASE i \notin Span(live[k])
    <3>1. base[i] \/ i \in erased
      BY <1>4, <2>1 DEF ZeroOnlyErased
    <3>2. base[i] => base'[i]
      BY <1>2, <2>1, <2>3, Zenon
    <3> QED
      BY <1>2, <1>6, <3>1, <3>2
  <2> QED
    BY <2>2, <2>3
<1>8. ZeroOnlyErased'
  BY <1>7 DEF ZeroOnlyErased
<1>9. SharedOnlyErased'
  <2>1. ASSUME NEW m \in 1 .. Len(live'), NEW l \in 1 .. Len(live'), m # l
        PROVE  Span(live'[m]) \cap Span(live'[l]) \subseteq erased'
    <3>1. Span(live[old(m)]) \cap Span(live[old(l)]) \subseteq erased
      BY <1>4, <1>5, <2>1 DEF SharedOnlyErased
    <3> QED
      BY <1>2, <1>4, <1>6, <3>1
  <2>2. ASSUME NEW b \in reserved, NEW m \in 1 .. Len(live')
        PROVE  Span(b) \cap Span(live'[m]) \subseteq erased'
    BY <1>2, <1>4, <1>6 DEF SharedOnlyErased
  <2> QED
    BY <1>2, <2>1, <2>2 DEF SharedOnlyErased
<1> QED
  BY <1>8, <1>9, FreeInv

(* "Check if the memory is already allocated": for every pool size, every  *)
(* message length from one character on and every order of completions,    *)
(* virtio_memory_pool_alloc hands out a byte of an outstanding block only  *)
(* when the NUL of a strcpy had overwritten it.                            *)
THEOREM DoubleOnlyAfterNul == Spec => []SharedOnlyErased
<1>1. Init => ErasedInv
  BY InitInv DEF Init, ErasedInv, ZeroOnlyErased, SharedOnlyErased
<1>2. ErasedInv /\ [Next]_vars => ErasedInv'
  <2> SUFFICES ASSUME ErasedInv, [Next]_vars PROVE ErasedInv'
    OBVIOUS
  <2>1. CASE \E n \in 1 .. MaxLen : Allocate(n)
    BY <2>1, AllocErased
  <2>2. CASE \E b \in reserved : Strcpy(b)
    BY <2>2, StrcpyErased
  <2>3. CASE \E k \in 1 .. Len(live) : virtio_memory_pool_free(k)
    BY <2>3, FreeErased
  <2>4. CASE UNCHANGED vars
    BY <2>4 DEF vars, ErasedInv, Inv, TypeOK, NoResidue, ZeroOnlyErased, SharedOnlyErased
  <2> QED
    BY <2>1, <2>2, <2>3, <2>4 DEF Next
<1>3. ErasedInv => SharedOnlyErased
  BY DEF ErasedInv
<1> QED
  BY <1>1, <1>2, <1>3, PTL DEF Spec
-----------------------------------------------------------------------------
(***************************************************************************)
(* The console receive buffer, for every buffer size, number of chunks and *)
(* interleaving with the reader.                                           *)
(***************************************************************************)
RxTypeOK ==
  /\ ready \in BOOLEAN
  /\ disturbed \in BOOLEAN
  /\ offered \in 0 .. RX_BUFFERS /\ sent \in 0 .. MaxSend /\ txUsed \in 0 .. MaxTx
  /\ used \in Seq(Chunk) /\ got \in Seq(Chunk)
  /\ InterruptStatus \subseteq {"VRING", "CONFIG"} /\ cause \subseteq InterruptStatus
  /\ rx_buffer \in [0 .. RX_CONSOLE_SIZE - 1 -> Chars \cup {Nul, Junk}]
  /\ rx_buffer_pos \in 0 .. RX_CONSOLE_SIZE
  /\ rx_lock \in {"free", "reader"}
  /\ hpc \in {"idle", "ack", "reset", "take", "append", "tx", "null"}
  /\ received \in BOOLEAN

(* The position: every append leaves room for the terminator and moves it  *)
(* behind the part of the buffer that appends write.                       *)
PosOK ==
  hpc \in {"take", "append", "tx", "null"} =>
    /\ rx_buffer_pos <= RX_CONSOLE_SIZE - 2
    /\ hpc = "append" => got # << >>
    /\ LET appended == IF hpc = "append" THEN Len(got) - 1 ELSE Len(got)
       IN /\ appended = 0 => rx_buffer_pos = 0
          /\ appended = 1 => rx_buffer_pos = RX_BUFFER_SIZE - 1
          /\ appended >= 1 => rx_buffer_pos >= RX_BUFFER_SIZE - 1

(* No chunk of the current message has reached the buffer yet.             *)
NothingStored == got = << >> \/ (hpc = "append" /\ Len(got) = 1)

BytesOK ==
  /\ NothingStored => rx_buffer[0] = Nul
  /\ ~NothingStored =>
       \A i \in 0 .. RX_BUFFER_SIZE - 2 : rx_buffer[i] = Data(got[1])[i]
  /\ \A i \in RX_BUFFER_SIZE - 1 .. RX_CONSOLE_SIZE - 1 : rx_buffer[i] \in {Nul, Junk}

(* What receive leaves behind when it returns true.                        *)
Terminated ==
  hpc = "idle" /\ received =>
    /\ got # << >>
    /\ rx_buffer_pos \in RX_BUFFER_SIZE .. RX_CONSOLE_SIZE - 1
    /\ rx_buffer[rx_buffer_pos - 1] = Nul
    /\ Len(got) = 1 => rx_buffer_pos = RX_BUFFER_SIZE

RetOK == hpc \in {"reset", "take", "append", "tx", "null"} => ~received

RxInv == RxTypeOK /\ PosOK /\ BytesOK /\ Terminated /\ RetOK

(* virtio_console_init establishes the invariant: the first byte is NUL.   *)
LEMMA RxInitInv == RxInit => RxInv
<1> SUFFICES ASSUME RxInit PROVE RxInv
  OBVIOUS
<1> USE ConsoleRxAssumption
<1>1. got = << >> /\ hpc = "idle" /\ received = FALSE
  BY DEF RxInit
<1>2. RxTypeOK
  <2>1. rx_buffer \in [0 .. RX_CONSOLE_SIZE - 1 -> Chars \cup {Nul, Junk}]
    BY DEF RxInit
  <2>2. ready \in BOOLEAN /\ received \in BOOLEAN /\ disturbed \in BOOLEAN
    BY DEF RxInit
  <2>3. offered \in 0 .. RX_BUFFERS /\ sent \in 0 .. MaxSend /\ txUsed \in 0 .. MaxTx
    BY DEF RxInit
  <2> QED  BY <2>1, <2>2, <2>3 DEF RxInit, RxTypeOK
<1>3. BytesOK
  BY <1>1 DEF RxInit, BytesOK, NothingStored
<1> QED
  BY <1>1, <1>2, <1>3 DEF RxInv, PosOK, Terminated, RetOK

(* A chunk is stored as its characters and the zeros behind them.          *)
LEMMA DataFacts ==
  ASSUME NEW k \in Chunk
  PROVE  /\ k.len \in 1 .. RX_BUFFER_SIZE /\ k.ch \in Chars
         /\ \A i \in 0 .. RX_BUFFER_SIZE - 1 :
              Data(k)[i] = IF i < k.len THEN k.ch ELSE Nul
  BY DEF Chunk, Data

(* The steps that move neither the buffer nor the message.                 *)
LEMMA RxQuietSteps ==
  ASSUME RxInv,
         \/ HandlerEnter \/ HandlerAck \/ TakeNone \/ DrainTx \/ PrintLock \/ PrintUnlock
         \/ (\E k \in Chunk : DeviceFill(k)) \/ DeviceTxDone \/ DeviceConfig
         \/ ConsoleReady \/ UNCHANGED rxVars
  PROVE  RxInv'
<1> USE ConsoleRxAssumption DEF RxInv
<1>1. rx_buffer' = rx_buffer /\ rx_buffer_pos' = rx_buffer_pos /\ got' = got
  BY DEF HandlerEnter, HandlerAck, TakeNone, DrainTx, PrintLock, PrintUnlock,
         DeviceFill, DeviceTxDone, DeviceConfig, ConsoleReady, rxOwn, rxVars, bufVars
<1>2. \/ hpc \in {"idle", "ack"} /\ hpc' \in {"ack", "idle", "reset"} /\ (hpc' # "ack" => received' = FALSE)
      \/ hpc \in {"take", "tx"} /\ hpc' \in {"tx", "null"} /\ received' = received
      \/ hpc' = hpc /\ received' = received
  <2>1. CASE HandlerEnter \/ HandlerAck
    BY <2>1 DEF HandlerEnter, HandlerAck
  <2>2. CASE TakeNone \/ DrainTx
    BY <2>2 DEF TakeNone, DrainTx
  <2>3. CASE PrintLock \/ PrintUnlock \/ ConsoleReady \/ UNCHANGED rxVars
    BY <2>3 DEF PrintLock, PrintUnlock, ConsoleReady, rxOwn, rxVars
  <2>4. CASE (\E k \in Chunk : DeviceFill(k)) \/ DeviceTxDone \/ DeviceConfig
    BY <2>4 DEF DeviceFill, DeviceTxDone, DeviceConfig
  <2> QED  BY <2>1, <2>2, <2>3, <2>4
<1>3. RxTypeOK'
  <2> USE DEF RxTypeOK
  <2>1. CASE HandlerEnter
    BY <2>1 DEF HandlerEnter, devVars, bufVars
  <2>2. CASE HandlerAck
    BY <2>2 DEF HandlerAck, bufVars
  <2>3. CASE TakeNone
    BY <2>3 DEF TakeNone, devVars, bufVars
  <2>4. CASE DrainTx
    BY <2>4 DEF DrainTx, bufVars
  <2>5. CASE PrintLock \/ PrintUnlock
    BY <2>5 DEF PrintLock, PrintUnlock, devVars, bufVars
  <2>6. CASE \E k \in Chunk : DeviceFill(k)
    BY <2>6 DEF DeviceFill, bufVars
  <2>7. CASE DeviceTxDone
    BY <2>7 DEF DeviceTxDone, bufVars
  <2>8. CASE DeviceConfig
    BY <2>8 DEF DeviceConfig, bufVars
  <2>9. CASE ConsoleReady \/ UNCHANGED rxVars
    BY <2>9 DEF ConsoleReady, rxOwn, rxVars
  <2> QED  BY <2>1, <2>2, <2>3, <2>4, <2>5, <2>6, <2>7, <2>8, <2>9
<1>4. PosOK'
  BY <1>1, <1>2 DEF PosOK, RxTypeOK
<1>5. NothingStored' = NothingStored
  BY <1>1, <1>2 DEF NothingStored
<1>6. BytesOK'
  BY <1>1, <1>5 DEF BytesOK
<1>7. Terminated' /\ RetOK'
  BY <1>1, <1>2 DEF Terminated, RetOK
<1> QED  BY <1>3, <1>4, <1>6, <1>7

(* virtio_console_rx_reset_buffer begins a message.                        *)
LEMMA RxResetStep == RxInv /\ virtio_console_rx_reset_buffer => RxInv'
<1> SUFFICES ASSUME RxInv, virtio_console_rx_reset_buffer PROVE RxInv'
  OBVIOUS
<1> USE ConsoleRxAssumption DEF RxInv, virtio_console_rx_reset_buffer
<1>1. PICK z \in Int : z = 0
  OBVIOUS
<1>2. rx_buffer' = [rx_buffer EXCEPT ![z] = Nul]
  BY <1>1
<1>3. /\ \A i \in 0 .. RX_CONSOLE_SIZE - 1 : rx_buffer'[i] = IF i = z THEN Nul ELSE rx_buffer[i]
      /\ rx_buffer' \in [0 .. RX_CONSOLE_SIZE - 1 -> Chars \cup {Nul, Junk}]
  BY <1>1, <1>2 DEF RxTypeOK
<1>4. RxTypeOK'
  BY <1>3 DEF RxTypeOK, devVars
<1>5. PosOK' /\ Terminated' /\ RetOK'
  BY DEF PosOK, Terminated, RetOK
<1>6. BytesOK'
  BY <1>1, <1>3 DEF BytesOK, NothingStored, RxTypeOK
<1> QED  BY <1>4, <1>5, <1>6

(* A chunk is taken from the used ring; it is not in the buffer yet.       *)
LEMMA RxTakeStep == RxInv /\ TakeUsed => RxInv'
<1> SUFFICES ASSUME RxInv, TakeUsed PROVE RxInv'
  OBVIOUS
<1> USE ConsoleRxAssumption DEF RxInv
<1>1. /\ got \in Seq(Chunk) /\ Head(used) \in Chunk /\ Tail(used) \in Seq(Chunk)
      /\ got' = Append(got, Head(used)) /\ used' = Tail(used)
      /\ hpc = "take" /\ hpc' = "append"
      /\ UNCHANGED <<disturbed, ready, offered, sent, txUsed, InterruptStatus, rx_buffer, rx_buffer_pos, rx_lock, cause, received>>
  BY DEF TakeUsed, RxTypeOK, bufVars
<1>2. /\ got' \in Seq(Chunk) /\ Len(got') = Len(got) + 1 /\ got' # << >>
      /\ got # << >> => Len(got) >= 1 /\ got'[1] = got[1]
      /\ Len(got) \in Nat /\ (got = << >> <=> Len(got) = 0)
  BY <1>1
<1>3. RxTypeOK'
  BY <1>1, <1>2 DEF RxTypeOK
<1>4. PosOK'
  <2>1. /\ rx_buffer_pos <= RX_CONSOLE_SIZE - 2
        /\ Len(got) = 0 => rx_buffer_pos = 0
        /\ Len(got) = 1 => rx_buffer_pos = RX_BUFFER_SIZE - 1
        /\ Len(got) >= 1 => rx_buffer_pos >= RX_BUFFER_SIZE - 1
    BY <1>1 DEF PosOK
  <2>2. Len(got') - 1 = Len(got)
    BY <1>2
  <2> QED  BY <1>1, <1>2, <2>1, <2>2 DEF PosOK
<1>5. NothingStored' = NothingStored
  BY <1>1, <1>2 DEF NothingStored
<1>6. BytesOK'
  BY <1>1, <1>2, <1>5 DEF BytesOK, NothingStored
<1>7. Terminated' /\ RetOK'
  BY <1>1 DEF Terminated, RetOK
<1> QED  BY <1>3, <1>4, <1>6, <1>7

(* virtio_console_rx_append_buffer stores the first chunk, leaves the      *)
(* bytes alone for the others, and stops when the buffer is full.          *)
LEMMA RxAppendStep == RxInv /\ virtio_console_rx_append_buffer => RxInv'
<1> SUFFICES ASSUME RxInv, virtio_console_rx_append_buffer PROVE RxInv'
  OBVIOUS
<1> USE ConsoleRxAssumption DEF RxInv
<1>1. /\ hpc = "append" /\ got # << >> /\ Len(got) \in Nat /\ Len(got) >= 1
      /\ received = FALSE /\ received' = FALSE /\ got' = got /\ got \in Seq(Chunk)
      /\ UNCHANGED <<disturbed, ready, offered, used, sent, txUsed, InterruptStatus, rx_lock, cause>>
      /\ rx_buffer \in [0 .. RX_CONSOLE_SIZE - 1 -> Chars \cup {Nul, Junk}]
      /\ rx_buffer_pos \in 0 .. RX_CONSOLE_SIZE - 2
  BY DEF virtio_console_rx_append_buffer, PosOK, RetOK, RxTypeOK, devVars
<1>2. /\ Len(got) = 1 => rx_buffer_pos = 0
      /\ Len(got) = 2 => rx_buffer_pos = RX_BUFFER_SIZE - 1
      /\ Len(got) >= 2 => rx_buffer_pos >= RX_BUFFER_SIZE - 1
  BY <1>1 DEF PosOK
<1>3. CASE RxFull
  <2>1. hpc' = "idle" /\ rx_buffer' = rx_buffer /\ rx_buffer_pos' = rx_buffer_pos
    BY <1>3 DEF virtio_console_rx_append_buffer, bufVars
  <2>2. Len(got) # 1
    BY <1>2, <1>3 DEF RxFull
  <2>3. RxTypeOK'
    BY <1>1, <2>1 DEF RxTypeOK
  <2>4. BytesOK'
    BY <1>1, <2>1, <2>2 DEF BytesOK, NothingStored
  <2> QED
    BY <1>1, <2>1, <2>3, <2>4 DEF PosOK, Terminated, RetOK
<1>4. CASE ~RxFull
  <2> DEFINE chunk == Data(Last(got))
  <2>1. /\ hpc' = "take" /\ rx_buffer_pos' = rx_buffer_pos + RX_BUFFER_SIZE - 1
        /\ rx_buffer' = [i \in 0 .. RX_CONSOLE_SIZE - 1 |->
                           IF i \in rx_buffer_pos .. RX_BUFFER_SIZE - 2 THEN chunk[i] ELSE rx_buffer[i]]
    BY <1>1, <1>4 DEF virtio_console_rx_append_buffer
  <2>2. Last(got) \in Chunk /\ (Len(got) = 1 => Last(got) = got[1])
    BY <1>1 DEF Last
  <2>3. \A i \in 0 .. RX_BUFFER_SIZE - 1 : chunk[i] \in Chars \cup {Nul}
    BY <2>2, DataFacts
  <2> HIDE DEF chunk
  <2>4. rx_buffer' \in [0 .. RX_CONSOLE_SIZE - 1 -> Chars \cup {Nul, Junk}]
    <3>1. ASSUME NEW i \in 0 .. RX_CONSOLE_SIZE - 1
          PROVE  (IF i \in rx_buffer_pos .. RX_BUFFER_SIZE - 2 THEN chunk[i] ELSE rx_buffer[i])
                   \in Chars \cup {Nul, Junk}
      <4>1. CASE i \in rx_buffer_pos .. RX_BUFFER_SIZE - 2
        <5>1. i \in 0 .. RX_BUFFER_SIZE - 1
          BY <1>1, <4>1
        <5> QED  BY <2>3, <4>1, <5>1
      <4>2. CASE i \notin rx_buffer_pos .. RX_BUFFER_SIZE - 2
        BY <1>1, <4>2
      <4> QED  BY <4>1, <4>2
    <3> QED  BY <2>1, <3>1
  <2>5. rx_buffer_pos' \in 0 .. RX_CONSOLE_SIZE - 2
    BY <1>1, <1>4, <2>1 DEF RxFull
  <2>6. RxTypeOK'
    <3>1. rx_buffer_pos' \in 0 .. RX_CONSOLE_SIZE
      BY <2>5
    <3>2. hpc' \in {"idle", "ack", "reset", "take", "append", "tx", "null"}
      BY <2>1
    <3> QED  BY <1>1, <2>4, <3>1, <3>2 DEF RxTypeOK
  <2>7. PosOK'
    BY <1>1, <1>2, <2>1, <2>5 DEF PosOK
  <2>8. \A i \in 0 .. RX_BUFFER_SIZE - 2 : rx_buffer'[i] = Data(got[1])[i]
    <3>1. CASE Len(got) = 1
      <4>1. chunk = Data(got[1])
        BY <2>2, <3>1 DEF chunk
      <4>2. \A i \in 0 .. RX_BUFFER_SIZE - 2 : i \in 0 .. RX_CONSOLE_SIZE - 1 /\ i \in rx_buffer_pos .. RX_BUFFER_SIZE - 2
        BY <1>2, <3>1
      <4> QED  BY <2>1, <4>1, <4>2
    <3>2. CASE Len(got) # 1
      <4>1. Len(got) >= 2 /\ ~NothingStored
        BY <1>1, <3>2 DEF NothingStored
      <4>2. \A i \in 0 .. RX_BUFFER_SIZE - 2 : i \in 0 .. RX_CONSOLE_SIZE - 1 /\ i \notin rx_buffer_pos .. RX_BUFFER_SIZE - 2
        BY <1>1, <1>2, <4>1
      <4> QED  BY <2>1, <4>1, <4>2 DEF BytesOK
    <3> QED  BY <3>1, <3>2
  <2>9. \A i \in RX_BUFFER_SIZE - 1 .. RX_CONSOLE_SIZE - 1 : rx_buffer'[i] \in {Nul, Junk}
    <3>1. \A i \in RX_BUFFER_SIZE - 1 .. RX_CONSOLE_SIZE - 1 : i \in 0 .. RX_CONSOLE_SIZE - 1 /\ i \notin rx_buffer_pos .. RX_BUFFER_SIZE - 2
      OBVIOUS
    <3> QED  BY <2>1, <3>1 DEF BytesOK
  <2>10. BytesOK'
    BY <1>1, <2>1, <2>8, <2>9 DEF BytesOK, NothingStored
  <2> QED
    BY <1>1, <2>1, <2>6, <2>7, <2>10 DEF Terminated, RetOK
<1> QED  BY <1>3, <1>4

(* virtio_console_rx_append_null writes behind the first chunk's bytes.    *)
LEMMA RxNullStep == RxInv /\ virtio_console_rx_append_null => RxInv'
<1> SUFFICES ASSUME RxInv, virtio_console_rx_append_null PROVE RxInv'
  OBVIOUS
<1> USE ConsoleRxAssumption DEF RxInv
<1>1. /\ hpc = "null" /\ hpc' = "idle" /\ got' = got /\ got \in Seq(Chunk) /\ Len(got) \in Nat
      /\ UNCHANGED <<disturbed, ready, offered, used, sent, txUsed, InterruptStatus, rx_lock, cause>>
      /\ rx_buffer \in [0 .. RX_CONSOLE_SIZE - 1 -> Chars \cup {Nul, Junk}]
      /\ rx_buffer_pos \in 0 .. RX_CONSOLE_SIZE - 2
      /\ got = << >> <=> Len(got) = 0
  BY DEF virtio_console_rx_append_null, PosOK, RxTypeOK, devVars
<1>2. /\ Len(got) = 0 => rx_buffer_pos = 0
      /\ Len(got) = 1 => rx_buffer_pos = RX_BUFFER_SIZE - 1
      /\ Len(got) >= 1 => rx_buffer_pos >= RX_BUFFER_SIZE - 1
  BY <1>1 DEF PosOK
<1>3. /\ rx_buffer' = [rx_buffer EXCEPT ![rx_buffer_pos] = Nul]
      /\ rx_buffer_pos' = rx_buffer_pos + 1
      /\ received' = (rx_buffer_pos + 1 > 1)
  BY <1>1 DEF virtio_console_rx_append_null, NullHasRoom
<1>4. /\ \A i \in 0 .. RX_CONSOLE_SIZE - 1 :
           rx_buffer'[i] = IF i = rx_buffer_pos THEN Nul ELSE rx_buffer[i]
      /\ rx_buffer' \in [0 .. RX_CONSOLE_SIZE - 1 -> Chars \cup {Nul, Junk}]
  BY <1>1, <1>3
<1>5. RxTypeOK'
  BY <1>1, <1>3, <1>4 DEF RxTypeOK
<1>6. BytesOK'
  <2>1. NothingStored <=> got = << >>
    BY <1>1 DEF NothingStored
  <2>2. NothingStored' <=> got = << >>
    BY <1>1 DEF NothingStored
  <2>3. \A i \in 0 .. RX_BUFFER_SIZE - 2 : i \in 0 .. RX_CONSOLE_SIZE - 1
    OBVIOUS
  <2>4. \A i \in RX_BUFFER_SIZE - 1 .. RX_CONSOLE_SIZE - 1 : i \in 0 .. RX_CONSOLE_SIZE - 1
    OBVIOUS
  <2>5. got = << >> => rx_buffer'[0] = Nul
    BY <1>1, <1>4, <2>1 DEF BytesOK
  <2>6. got # << >> => \A i \in 0 .. RX_BUFFER_SIZE - 2 : rx_buffer'[i] = Data(got[1])[i]
    BY <1>1, <1>2, <1>4, <2>1, <2>3 DEF BytesOK
  <2>7. \A i \in RX_BUFFER_SIZE - 1 .. RX_CONSOLE_SIZE - 1 : rx_buffer'[i] \in {Nul, Junk}
    BY <1>4, <2>4 DEF BytesOK
  <2> QED  BY <1>1, <2>2, <2>5, <2>6, <2>7 DEF BytesOK
<1>7. Terminated'
  BY <1>1, <1>2, <1>3, <1>4 DEF Terminated
<1> QED
  BY <1>1, <1>5, <1>6, <1>7 DEF PosOK, RetOK

(* The invariant of the receive path.                                      *)
LEMMA RxInvariance == RxSpec => []RxInv
<1>1. RxInv /\ [RxNext]_rxVars => RxInv'
  BY RxQuietSteps, RxResetStep, RxTakeStep, RxAppendStep, RxNullStep
     DEF RxNext, HandlerRest
<1> QED  BY RxInitInv, <1>1, PTL DEF RxSpec

-----------------------------------------------------------------------------
(* A set of numbers that is not empty has a least element, which Min is.   *)
LEMMA MinFacts ==
  ASSUME NEW S \in SUBSET Nat, S # {}
  PROVE  Min(S) \in S /\ \A y \in S : Min(S) <= y
<1>1. PICK x \in S : \A y \in S : ~(<<y, x>> \in OpToRel(<, Nat))
  BY NatLessThanWellFounded, WFMin, Zenon
<1>2. \A y \in S : x <= y
  <2>1. ASSUME NEW y \in S PROVE ~(y < x)
    BY <1>1, <2>1 DEF OpToRel
  <2> QED  BY <2>1
<1> QED  BY <1>2 DEF Min

(* The driver keeps the characters of a chunk that fit before the last     *)
(* byte of a receive buffer.                                               *)
LEMMA TextFacts ==
  ASSUME NEW k \in Chunk
  PROVE  \E n \in Nat :
           /\ n = IF k.len < RX_BUFFER_SIZE - 1 THEN k.len ELSE RX_BUFFER_SIZE - 1
           /\ Text(k) \in Seq(Chars) /\ Len(Text(k)) = n
           /\ \A i \in 1 .. n : Text(k)[i] = k.ch
<1> USE ConsoleRxAssumption
<1>1. k.len \in 1 .. RX_BUFFER_SIZE /\ k.ch \in Chars
  BY DataFacts
<1> DEFINE n == Min({k.len, RX_BUFFER_SIZE - 1})
<1>2. n = IF k.len < RX_BUFFER_SIZE - 1 THEN k.len ELSE RX_BUFFER_SIZE - 1
  <2>1. {k.len, RX_BUFFER_SIZE - 1} \in SUBSET Nat
    BY <1>1
  <2>2. n \in {k.len, RX_BUFFER_SIZE - 1} /\ n <= k.len /\ n <= RX_BUFFER_SIZE - 1
    BY <2>1, MinFacts
  <2> HIDE DEF n
  <2> QED  BY <1>1, <2>2
<1>3. n \in Nat
  BY <1>1, <1>2
<1>4. Text(k) = [i \in 1 .. n |-> k.ch]
  BY DEF Text
<1> HIDE DEF n
<1>5. Text(k) \in [1 .. n -> Chars]
  BY <1>1, <1>4
<1>6. Text(k) \in Seq(Chars) /\ Len(Text(k)) = n
  BY <1>3, <1>5
<1>7. \A i \in 1 .. n : Text(k)[i] = k.ch
  BY <1>4
<1> WITNESS n \in Nat
<1> QED  BY <1>2, <1>6, <1>7

(* A terminated buffer holds the string before its first NUL.              *)
LEMMA CStringFacts ==
  ASSUME RxTypeOK, NEW t \in 0 .. RX_CONSOLE_SIZE - 1, rx_buffer[t] = Nul
  PROVE  \E n \in 0 .. t :
           /\ rx_buffer[n] = Nul
           /\ \A i \in 0 .. n - 1 : rx_buffer[i] # Nul
           /\ CString \in Seq(Chars \cup {Nul, Junk}) /\ Len(CString) = n
           /\ \A i \in 1 .. n : CString[i] = rx_buffer[i - 1]
<1> USE ConsoleRxAssumption
<1> DEFINE nuls == {i \in DOMAIN rx_buffer : rx_buffer[i] = Nul}
           n == Min(nuls)
<1>1. rx_buffer \in [0 .. RX_CONSOLE_SIZE - 1 -> Chars \cup {Nul, Junk}]
  BY DEF RxTypeOK
<1>2. nuls \in SUBSET Nat /\ t \in nuls
  BY <1>1
<1>3. n \in nuls /\ \A y \in nuls : n <= y
  BY <1>2, MinFacts
<1>4. CString = [i \in 1 .. n |-> rx_buffer[i - 1]]
  BY <1>2 DEF CString
<1> HIDE DEF n
<1>5. n \in 0 .. t /\ rx_buffer[n] = Nul
  BY <1>1, <1>2, <1>3
<1>6. \A i \in 0 .. n - 1 : rx_buffer[i] # Nul
  <2>1. ASSUME NEW i \in 0 .. n - 1, rx_buffer[i] = Nul PROVE FALSE
    <3>1. i \in nuls
      BY <1>1, <1>5, <2>1
    <3> QED  BY <1>3, <1>5, <3>1
  <2> QED  BY <2>1
<1>7. CString \in [1 .. n -> Chars \cup {Nul, Junk}]
  <2>1. \A i \in 1 .. n : i - 1 \in 0 .. RX_CONSOLE_SIZE - 1
    BY <1>5
  <2>2. \A i \in 1 .. n : rx_buffer[i - 1] \in Chars \cup {Nul, Junk}
    BY <1>1, <2>1
  <2> QED  BY <1>4, <2>2
<1>8. CString \in Seq(Chars \cup {Nul, Junk}) /\ Len(CString) = n
  BY <1>5, <1>7
<1> QED  BY <1>4, <1>5, <1>6, <1>8

(* With the first chunk of a message in the buffer and a NUL at t behind   *)
(* it, the string begins with the chunk's text; it is that text when       *)
(* nothing of the buffer lies between.                                     *)
LEMMA StoredText ==
  ASSUME RxInv, ~NothingStored,
         NEW t \in RX_BUFFER_SIZE - 1 .. RX_CONSOLE_SIZE - 1, rx_buffer[t] = Nul
  PROVE  /\ got # << >>
         /\ Len(CString) < RX_CONSOLE_SIZE
         /\ IsPrefix(Text(Head(got)), CString)
         /\ t = RX_BUFFER_SIZE - 1 => CString = Text(Head(got))
<1> USE ConsoleRxAssumption
<1>1. /\ RxTypeOK /\ BytesOK /\ got # << >> /\ got \in Seq(Chunk)
      /\ Head(got) \in Chunk /\ Head(got) = got[1]
  BY DEF RxInv, RxTypeOK, NothingStored
<1> DEFINE k == Head(got)
<1>2. PICK m \in Nat :
        /\ m = IF k.len < RX_BUFFER_SIZE - 1 THEN k.len ELSE RX_BUFFER_SIZE - 1
        /\ Text(k) \in Seq(Chars) /\ Len(Text(k)) = m
        /\ \A i \in 1 .. m : Text(k)[i] = k.ch
  BY <1>1, TextFacts
<1>3. PICK n \in 0 .. t :
        /\ rx_buffer[n] = Nul
        /\ \A i \in 0 .. n - 1 : rx_buffer[i] # Nul
        /\ CString \in Seq(Chars \cup {Nul, Junk}) /\ Len(CString) = n
        /\ \A i \in 1 .. n : CString[i] = rx_buffer[i - 1]
  <2>1. t \in 0 .. RX_CONSOLE_SIZE - 1
    OBVIOUS
  <2> QED  BY <1>1, <2>1, CStringFacts
<1>4. /\ k.len \in 1 .. RX_BUFFER_SIZE /\ k.ch \in Chars
      /\ \A i \in 0 .. RX_BUFFER_SIZE - 1 : Data(k)[i] = IF i < k.len THEN k.ch ELSE Nul
  BY <1>1, DataFacts
<1>5. \A i \in 0 .. RX_BUFFER_SIZE - 2 : rx_buffer[i] = IF i < k.len THEN k.ch ELSE Nul
  <2>1. \A i \in 0 .. RX_BUFFER_SIZE - 2 : i \in 0 .. RX_BUFFER_SIZE - 1
    OBVIOUS
  <2> QED  BY <1>1, <1>4, <2>1 DEF BytesOK
<1>6. k.ch # Nul
  BY <1>4
<1> HIDE DEF k
<1>7. m <= n
  <2>1. ASSUME n < m PROVE FALSE
    <3>1. n \in 0 .. RX_BUFFER_SIZE - 2 /\ n < k.len
      BY <1>2, <1>4, <2>1
    <3> QED  BY <1>3, <1>5, <1>6, <3>1
  <2> QED  BY <1>2, <1>3, <2>1
<1>8. \A i \in 1 .. m : CString[i] = k.ch
  <2>1. ASSUME NEW i \in 1 .. m PROVE CString[i] = k.ch
    <3>1. i \in 1 .. n /\ i - 1 \in 0 .. RX_BUFFER_SIZE - 2 /\ i - 1 < k.len
      BY <1>2, <1>4, <1>7
    <3> QED  BY <1>3, <1>5, <3>1
  <2> QED  BY <2>1
<1>9. Len(CString) < RX_CONSOLE_SIZE
  BY <1>3
<1>10. IsPrefix(Text(k), CString)
  <2>1. SubSeq(Text(k), 1, m) = [i \in 1 .. m |-> k.ch]
    BY <1>2
  <2>2. SubSeq(CString, 1, m) = [i \in 1 .. m |-> k.ch]
    BY <1>3, <1>7, <1>8
  <2> QED  BY <1>2, <1>3, <1>7, <2>1, <2>2 DEF IsPrefix
<1>11. ASSUME t = RX_BUFFER_SIZE - 1 PROVE CString = Text(k)
  <2>1. n <= m
    <3>1. ASSUME m < n PROVE FALSE
      <4>1. m \in 0 .. n - 1 /\ m \in 0 .. RX_BUFFER_SIZE - 2 /\ ~(m < k.len)
        BY <1>2, <1>3, <1>4, <1>11, <3>1
      <4> QED  BY <1>3, <1>5, <4>1
    <3> QED  BY <1>2, <1>3, <3>1
  <2>2. n = m
    BY <1>2, <1>3, <1>7, <2>1
  <2>3. Text(k) \in Seq(Chars \cup {Nul, Junk})
    BY <1>2
  <2>4. \A i \in 1 .. m : CString[i] = Text(k)[i]
    BY <1>2, <1>8
  <2> QED  BY <1>2, <1>3, <2>2, <2>3, <2>4, SeqEqual
<1> QED  BY <1>1, <1>9, <1>10, <1>11 DEF k

-----------------------------------------------------------------------------
(* Every variable of the receive path keeps its type: the position never   *)
(* leaves the console receive buffer.                                      *)
THEOREM RxTypeCorrect == RxSpec => []RxTypeOK
  BY RxInvariance, PTL DEF RxInv

(* The failing branch of virtio_console_rx_append_null is dead code, for   *)
(* every buffer size and any number of chunks.                             *)
THEOREM TerminatorFits == RxSpec => []NullFits
<1>1. RxInv => NullFits
  BY ConsoleRxAssumption DEF RxInv, RxTypeOK, PosOK, NullFits, NullHasRoom
<1> QED  BY <1>1, RxInvariance, PTL

(* A receive that returns true leaves a terminated string that begins with *)
(* the first chunk, and is that chunk when it came alone.                  *)
THEOREM ReceiveStoresFirst == RxSpec => []FirstChunkStored
<1>1. RxInv => FirstChunkStored
  <2> SUFFICES ASSUME RxInv, hpc = "idle", received
               PROVE  /\ got # << >>
                      /\ Len(CString) < RX_CONSOLE_SIZE
                      /\ IsPrefix(Text(Head(got)), CString)
                      /\ Len(got) = 1 => CString = Text(Head(got))
    BY DEF FirstChunkStored
  <2> DEFINE t == rx_buffer_pos - 1
  <2>1. /\ ~NothingStored /\ rx_buffer[t] = Nul
        /\ t \in RX_BUFFER_SIZE - 1 .. RX_CONSOLE_SIZE - 1
        /\ Len(got) = 1 => t = RX_BUFFER_SIZE - 1
    BY ConsoleRxAssumption DEF RxInv, Terminated, NothingStored
  <2> HIDE DEF t
  <2> QED  BY <2>1, StoredText
<1> QED  BY <1>1, RxInvariance, PTL

(* What the reader prints under rx_lock is nothing or one chunk's text, at *)
(* whatever point of a receive it took the lock.                           *)
THEOREM ReaderSeesOneMessage == RxSpec => []PrintsWholeMessage
<1>1. RxInv => PrintsWholeMessage
  <2> USE ConsoleRxAssumption
  <2> SUFFICES ASSUME RxInv, \A i \in DOMAIN rx_buffer : rx_buffer[i] # Junk
               PROVE  CString = << >> \/ \E m \in 1 .. Len(got) : CString = Joined(m)
    BY DEF PrintsWholeMessage
  <2>1. CASE NothingStored
    <3>1. RxTypeOK /\ rx_buffer[0] = Nul
      BY <2>1 DEF RxInv, BytesOK
    <3>2. PICK n \in 0 .. 0 : CString \in Seq(Chars \cup {Nul, Junk}) /\ Len(CString) = n
      <4>1. 0 \in 0 .. RX_CONSOLE_SIZE - 1
        OBVIOUS
      <4> QED  BY <3>1, <4>1, CStringFacts
    <3> QED  BY <3>2
  <2>2. CASE ~NothingStored
    <3> DEFINE t == RX_BUFFER_SIZE - 1
    <3>1. /\ t \in RX_BUFFER_SIZE - 1 .. RX_CONSOLE_SIZE - 1
          /\ rx_buffer[t] \in {Nul, Junk} /\ t \in DOMAIN rx_buffer
      BY DEF RxInv, BytesOK, RxTypeOK
    <3>2. rx_buffer[t] = Nul
      BY <3>1
    <3>3. got # << >> /\ CString = Text(Head(got))
      BY <2>2, <3>1, <3>2, StoredText
    <3>4. CString = Joined(1)
      BY <3>3 DEF Joined
    <3>5. 1 \in 1 .. Len(got)
      BY <3>3 DEF RxInv, RxTypeOK
    <3> QED  BY <3>4, <3>5
  <2> QED  BY <2>1, <2>2
<1> QED  BY <1>1, RxInvariance, PTL

=============================================================================
