--------------------------- MODULE VirtQueueProofs ---------------------------
(***************************************************************************)
(* VirtQueue for every queue size and every index width that is a multiple *)
(* of it: the free list, the two ring windows, the assertions of           *)
(* virtio_queue.h, and the refinement of the pair of queues.               *)
(***************************************************************************)
EXTENDS VirtQueueRefinement, FiniteSetTheorems, SequenceTheorems, TLAPS

-----------------------------------------------------------------------------
(* Arithmetic of % for a positive divisor.                                 *)

(* A positive multiple of n is at least n.                                 *)
LEMMA MulAtLeast ==
  ASSUME NEW n \in Nat, NEW a \in Int, a >= 1
  PROVE  a * n >= n
  OBVIOUS

(* Quotient and remainder, in the form the ring arithmetic needs.          *)
LEMMA DivMod ==
  ASSUME NEW n \in Nat \ {0}, NEW x \in Int
  PROVE  /\ x % n \in 0 .. n - 1
         /\ x \div n \in Int
         /\ x = n * (x \div n) + (x % n)
  OBVIOUS

(* Quotient and remainder are unique. *)
LEMMA ModUnique ==
  ASSUME NEW n \in Nat \ {0},
         NEW q1 \in Int, NEW r1 \in 0 .. n - 1,
         NEW q2 \in Int, NEW r2 \in 0 .. n - 1,
         n * q1 + r1 = n * q2 + r2
  PROVE  q1 = q2 /\ r1 = r2
<1>1. CASE q1 - q2 >= 1
  <2>1. (q1 - q2) * n >= n  BY <1>1, MulAtLeast
  <2>2. (q1 - q2) * n = n * q1 - n * q2  OBVIOUS
  <2> QED  BY <2>1, <2>2
<1>2. CASE q2 - q1 >= 1
  <2>1. (q2 - q1) * n >= n  BY <1>2, MulAtLeast
  <2>2. (q2 - q1) * n = n * q2 - n * q1  OBVIOUS
  <2> QED  BY <2>1, <2>2
<1>3. CASE q1 = q2  BY <1>3
<1> QED  BY <1>1, <1>2, <1>3

(* A number written as quotient and remainder has that remainder. *)
LEMMA ModValue ==
  ASSUME NEW n \in Nat \ {0}, NEW x \in Int,
         NEW q \in Int, NEW r \in 0 .. n - 1, x = n * q + r
  PROVE  x % n = r
<1>1. /\ x \div n \in Int /\ x % n \in 0 .. n - 1
      /\ x = n * (x \div n) + (x % n)
  BY DivMod
<1> DEFINE q2 == x \div n  r2 == x % n
<1> HIDE DEF q2, r2
<1>2. q2 \in Int /\ r2 \in 0 .. n - 1 /\ n * q + r = n * q2 + r2
  BY <1>1 DEF q2, r2
<1>3. r = r2  BY <1>2, ModUnique
<1> QED  BY <1>3 DEF r2

(* Two numbers less than n apart have different remainders. *)
LEMMA ModDistinct ==
  ASSUME NEW n \in Nat \ {0}, NEW a \in Int, NEW b \in Int,
         a < b, b < a + n
  PROVE  a % n # b % n
<1> DEFINE qa == a \div n  qb == b \div n  r == a % n
<1>1. SUFFICES ASSUME a % n = b % n PROVE FALSE
  OBVIOUS
<1>2. /\ qa \in Int /\ qb \in Int
      /\ a = n * qa + r /\ b = n * qb + r
  BY <1>1, DivMod
<1>3. b - a = (qb - qa) * n
  BY <1>2
<1>4. CASE qb - qa >= 1
  BY <1>2, <1>3, <1>4, MulAtLeast
<1>5. CASE qb - qa <= 0
  <2>1. CASE qa = qb  BY <1>2, <2>1
  <2>2. CASE qa - qb >= 1
    <3>1. (qa - qb) * n >= n  BY <1>2, <2>2, MulAtLeast
    <3>2. (qa - qb) * n = a - b  BY <1>2
    <3> QED  BY <3>1, <3>2
  <2> QED  BY <1>2, <1>5, <2>1, <2>2
<1> QED  BY <1>2, <1>4, <1>5

(* Adding a multiple of n does not change the remainder. *)
LEMMA ModShift ==
  ASSUME NEW n \in Nat \ {0}, NEW x \in Int, NEW k \in Int
  PROVE  (x + n * k) % n = x % n
<1> DEFINE y == x + n * k  qx == x \div n  qy == y \div n
<1>1. y \in Int  OBVIOUS
<1>2. /\ qx \in Int /\ x % n \in 0 .. n - 1 /\ x = n * qx + (x % n)
  BY DivMod
<1>3. /\ qy \in Int /\ y % n \in 0 .. n - 1 /\ y = n * qy + (y % n)
  BY <1>1, DivMod
<1>4. n * (qx + k) = n * qx + n * k
  BY <1>2
<1>5. n * (qx + k) + (x % n) = n * qy + (y % n)
  BY <1>2, <1>3, <1>4
<1>6. qx + k \in Int  BY <1>2
<1> HIDE DEF qx, qy, y
<1>7. x % n = y % n  BY <1>2, <1>3, <1>5, <1>6, ModUnique
<1> QED  BY <1>7 DEF y
-----------------------------------------------------------------------------
(* Ring slots and ring indices.                                            *)

(* idx % VIRTQ_SIZE is an index of the rings.                              *)
LEMMA SlotType ==
  ASSUME NEW x \in Int
  PROVE  Slot(x) \in Desc
  BY QueueAssumption, DivMod DEF Slot, Desc

(* Wrapping an index at IDX_WRAP does not change the slot it addresses. *)
LEMMA SlotWrap ==
  ASSUME NEW x \in Int
  PROVE  Slot(x + IDX_WRAP) = Slot(x)
<1>1. /\ IDX_WRAP \div VIRTQ_SIZE \in Int
      /\ IDX_WRAP = VIRTQ_SIZE * (IDX_WRAP \div VIRTQ_SIZE)
  BY QueueAssumption, DivMod
<1>2. (x + VIRTQ_SIZE * (IDX_WRAP \div VIRTQ_SIZE)) % VIRTQ_SIZE = x % VIRTQ_SIZE
  BY <1>1, QueueAssumption, ModShift
<1> QED  BY <1>1, <1>2 DEF Slot

(* A ring index is incremented, or wraps to zero at IDX_WRAP.              *)
LEMMA IncCases ==
  ASSUME NEW i \in Idx
  PROVE  /\ Inc(i) \in Idx
         /\ Inc(i) = i + 1 \/ (i = IDX_WRAP - 1 /\ Inc(i) = i + 1 - IDX_WRAP)
<1>1. IDX_WRAP \in Nat \ {0} /\ i \in Int /\ i >= 0 /\ i <= IDX_WRAP - 1
  BY QueueAssumption DEF Idx
<1>2. CASE i = IDX_WRAP - 1
  <2>1. i + 1 = IDX_WRAP * 1 + 0 /\ 0 \in 0 .. IDX_WRAP - 1 /\ i + 1 \in Int
    BY <1>1, <1>2
  <2>2. (i + 1) % IDX_WRAP = 0
    BY <1>1, <2>1, ModValue
  <2> QED  BY <1>1, <1>2, <2>2 DEF Inc, Idx
<1>3. CASE i # IDX_WRAP - 1
  <2>1. i + 1 = IDX_WRAP * 0 + (i + 1) /\ i + 1 \in 0 .. IDX_WRAP - 1 /\ i + 1 \in Int
    BY <1>1, <1>3
  <2>2. (i + 1) % IDX_WRAP = i + 1
    BY <1>1, <2>1, ModValue
  <2> QED  BY <1>1, <2>1, <2>2 DEF Inc, Idx
<1> QED  BY <1>2, <1>3

(* The uint16_t difference of two indices, wrapped or not.                 *)
LEMMA PendingCases ==
  ASSUME NEW i \in Idx, NEW l \in Idx
  PROVE  /\ Pending(i, l) \in 0 .. IDX_WRAP - 1
         /\ \/ l <= i /\ Pending(i, l) = i - l
            \/ i < l /\ Pending(i, l) = i - l + IDX_WRAP
<1> DEFINE d == i - l
<1>1. /\ IDX_WRAP \in Nat \ {0} /\ d \in Int /\ i \in Int /\ l \in Int
      /\ i >= 0 /\ i <= IDX_WRAP - 1 /\ l >= 0 /\ l <= IDX_WRAP - 1
  BY QueueAssumption DEF Idx
<1>2. CASE l <= i
  <2>1. d = IDX_WRAP * 0 + d /\ d \in 0 .. IDX_WRAP - 1
    BY <1>1, <1>2
  <2>2. d % IDX_WRAP = d
    BY <1>1, <2>1, ModValue
  <2> QED  BY <1>2, <2>1, <2>2 DEF Pending
<1>3. CASE i < l
  <2>1. d = IDX_WRAP * (-1) + (d + IDX_WRAP) /\ d + IDX_WRAP \in 0 .. IDX_WRAP - 1
    BY <1>1, <1>3
  <2>2. d % IDX_WRAP = d + IDX_WRAP
    BY <1>1, <2>1, ModValue
  <2> QED  BY <1>3, <2>1, <2>2 DEF Pending
<1> QED  BY <1>1, <1>2, <1>3

(* The producer's slot is the one after the window. *)
LEMMA SlotAhead ==
  ASSUME NEW i \in Idx, NEW l \in Idx
  PROVE  Slot(l + Pending(i, l)) = Slot(i)
<1>1. i \in Int /\ l \in Int /\ IDX_WRAP \in Int
  BY QueueAssumption DEF Idx
<1>2. CASE Pending(i, l) = i - l
  BY <1>1, <1>2
<1>3. CASE Pending(i, l) = i - l + IDX_WRAP
  <2>1. l + Pending(i, l) = i + IDX_WRAP  BY <1>1, <1>3
  <2> QED  BY <1>1, <2>1, SlotWrap
<1> QED  BY <1>2, <1>3, PendingCases

(* Advancing the reader by one shifts the window by one slot.              *)
LEMMA SlotAfterInc ==
  ASSUME NEW l \in Idx, NEW j \in Int
  PROVE  Slot(Inc(l) + j) = Slot(l + (j + 1))
<1>1. l \in Int /\ IDX_WRAP \in Int
  BY QueueAssumption DEF Idx
<1>2. CASE Inc(l) = l + 1
  <2>1. Inc(l) + j = l + (j + 1)  BY <1>1, <1>2
  <2> QED  BY <2>1
<1>3. CASE Inc(l) = l + 1 - IDX_WRAP
  <2>1. (Inc(l) + j) + IDX_WRAP = l + (j + 1) /\ Inc(l) + j \in Int
    BY <1>1, <1>3
  <2> QED  BY <2>1, SlotWrap
<1> QED  BY <1>2, <1>3, IncCases

(* Publishing lengthens a window by one, reading shortens it.              *)
LEMMA PendingInc ==
  ASSUME NEW i \in Idx, NEW l \in Idx
  PROVE  /\ Pending(i, l) < VIRTQ_SIZE => Pending(Inc(i), l) = Pending(i, l) + 1
         /\ i # l => Pending(i, Inc(l)) = Pending(i, l) - 1
         /\ i # l <=> Pending(i, l) > 0
<1>1. Inc(i) \in Idx /\ Inc(l) \in Idx
  BY IncCases
<1>2. /\ VIRTQ_SIZE \in Nat \ {0} /\ IDX_WRAP \in Nat /\ VIRTQ_SIZE < IDX_WRAP
      /\ i \in Int /\ i >= 0 /\ i < IDX_WRAP /\ l \in Int /\ l >= 0 /\ l < IDX_WRAP
  BY QueueAssumption DEF Idx
<1>3. Pending(i, l) < VIRTQ_SIZE => Pending(Inc(i), l) = Pending(i, l) + 1
  BY <1>1, <1>2, IncCases, PendingCases
<1>4. i # l => Pending(i, Inc(l)) = Pending(i, l) - 1
  BY <1>1, <1>2, IncCases, PendingCases
<1>5. i # l <=> Pending(i, l) > 0
  BY <1>2, PendingCases
<1> QED  BY <1>3, <1>4, <1>5
-----------------------------------------------------------------------------
(* Counting: an injection of m elements into a part of Desc that misses    *)
(* one descriptor has m < VIRTQ_SIZE.                                      *)

(* There are VIRTQ_SIZE descriptors.                                       *)
LEMMA DescFinite == IsFiniteSet(Desc) /\ Cardinality(Desc) = VIRTQ_SIZE
  BY QueueAssumption, FS_Interval DEF Desc

(* A list of different descriptors has at most VIRTQ_SIZE entries ...      *)
LEMMA InjectionBound ==
  ASSUME NEW a \in Int, NEW b \in Int, b >= a - 1,
         NEW f \in [a .. b -> Desc],
         \A i, j \in a .. b : f[i] = f[j] => i = j
  PROVE  b - a + 1 <= VIRTQ_SIZE
<1>1. IsFiniteSet(a .. b) /\ Cardinality(a .. b) = b - a + 1
  BY FS_Interval
<1>2. ~ (Cardinality(Desc) < Cardinality(a .. b))
  BY <1>1, DescFinite, FS_PigeonHole
<1> QED  BY <1>1, <1>2, DescFinite, QueueAssumption

(* ... and fewer when some descriptor is not on it.                        *)
LEMMA InjectionMisses ==
  ASSUME NEW a \in Int, NEW b \in Int, b >= a - 1,
         NEW f \in [a .. b -> Desc],
         \A i, j \in a .. b : f[i] = f[j] => i = j,
         NEW d \in Desc, \A i \in a .. b : f[i] # d
  PROVE  b - a + 1 < VIRTQ_SIZE
<1> DEFINE g == [i \in a .. (b + 1) |-> IF i = b + 1 THEN d ELSE f[i]]
<1>1. g \in [a .. (b + 1) -> Desc]
  OBVIOUS
<1>2. \A i, j \in a .. (b + 1) : g[i] = g[j] => i = j
  OBVIOUS
<1>3. (b + 1) - a + 1 <= VIRTQ_SIZE
  <2> HIDE DEF g
  <2> QED  BY <1>1, <1>2, InjectionBound
<1> QED  BY <1>3, QueueAssumption

-----------------------------------------------------------------------------
(* The window of a ring: what storing, publishing and consuming do to it.  *)

(* A ring is not full while a descriptor is elsewhere.                     *)
LEMMA WindowMisses ==
  ASSUME NEW ring \in [Desc -> Desc], NEW idx \in Idx, NEW last \in Idx,
         NEW S, WindowOK(ring, idx, last, S), NEW d \in Desc, d \notin S
  PROVE  Pending(idx, last) < VIRTQ_SIZE
<1> DEFINE m == Pending(idx, last)
           f == [i \in 0 .. m - 1 |-> ring[Slot(last + i)]]
<1>1. m \in Nat /\ last \in Int
  BY PendingCases, QueueAssumption DEF Idx
<1> HIDE DEF m
<1>2. \A i \in 0 .. m - 1 : Slot(last + i) \in Desc
  BY <1>1, SlotType
<1>3. f \in [0 .. m - 1 -> Desc]
  BY <1>2
<1>4. \A i, j \in 0 .. m - 1 : f[i] = f[j] => i = j
  BY DEF WindowOK, m
<1>5. \A i \in 0 .. m - 1 : f[i] # d
  BY DEF WindowOK, m
<1> HIDE DEF f
<1>6. (m - 1) - 0 + 1 < VIRTQ_SIZE
  BY <1>1, <1>3, <1>4, <1>5, InjectionMisses
<1> QED  BY <1>1, <1>6, QueueAssumption DEF m

(* Storing at the producer's slot leaves a window that is not full alone. *)
LEMMA WindowStore ==
  ASSUME NEW ring \in [Desc -> Desc], NEW idx \in Idx, NEW last \in Idx,
         NEW S, WindowOK(ring, idx, last, S), NEW d \in Desc,
         Pending(idx, last) < VIRTQ_SIZE
  PROVE  WindowOK([ring EXCEPT ![Slot(idx)] = d], idx, last, S)
<1> DEFINE m == Pending(idx, last)
           r2 == [ring EXCEPT ![Slot(idx)] = d]
<1>1. m \in Nat /\ last \in Int /\ idx \in Int /\ VIRTQ_SIZE \in Nat \ {0}
  BY PendingCases, QueueAssumption DEF Idx
<1>2. ASSUME NEW i \in 0 .. m - 1
      PROVE  Slot(last + i) # Slot(idx) /\ Slot(last + i) \in Desc
  <2>1. last + i < last + m /\ last + m < (last + i) + VIRTQ_SIZE
    BY <1>1
  <2>2. last + i \in Int /\ last + m \in Int
    BY <1>1
  <2>3. (last + i) % VIRTQ_SIZE # (last + m) % VIRTQ_SIZE
    <3> HIDE DEF m
    <3> QED  BY <1>1, <2>1, <2>2, ModDistinct
  <2> QED  BY <2>2, <2>3, SlotAhead, SlotType DEF Slot
<1>3. \A i \in 0 .. m - 1 : r2[Slot(last + i)] = ring[Slot(last + i)]
  BY <1>2
<1> HIDE DEF r2
<1> QED  BY <1>3 DEF WindowOK, m, r2

(* Advancing the producer's index adds the entry stored at its slot. *)
LEMMA WindowPublish ==
  ASSUME NEW ring \in [Desc -> Desc], NEW idx \in Idx, NEW last \in Idx,
         NEW S, WindowOK(ring, idx, last, S),
         Pending(idx, last) < VIRTQ_SIZE, ring[Slot(idx)] \notin S
  PROVE  WindowOK(ring, Inc(idx), last, S \cup {ring[Slot(idx)]})
<1> DEFINE m == Pending(idx, last)
           W(i) == ring[Slot(last + i)]
<1>1. m \in Nat /\ last \in Int /\ VIRTQ_SIZE \in Nat \ {0}
  BY PendingCases, QueueAssumption DEF Idx
<1>2. Pending(Inc(idx), last) = m + 1
  BY PendingInc
<1>3. W(m) = ring[Slot(idx)]
  BY SlotAhead
<1>4. /\ \A i, j \in 0 .. m - 1 : W(i) = W(j) => i = j
      /\ {W(i) : i \in 0 .. m - 1} = S
      /\ m < VIRTQ_SIZE /\ W(m) \notin S
  BY <1>3 DEF WindowOK
<1> HIDE DEF W, m
<1>5. \A i \in 0 .. (m + 1) - 1 : i = m \/ i \in 0 .. m - 1
  BY <1>1
<1>6. \A i \in 0 .. m - 1 : W(i) \in S
  BY <1>4
<1>7. \A i, j \in 0 .. (m + 1) - 1 : W(i) = W(j) => i = j
  BY <1>4, <1>5, <1>6
<1>8. {W(i) : i \in 0 .. (m + 1) - 1} = S \cup {W(m)}
  <2>1. m \in 0 .. (m + 1) - 1 /\ 0 .. m - 1 \subseteq 0 .. (m + 1) - 1
    BY <1>1
  <2> QED  BY <1>4, <1>5, <2>1
<1>9. m + 1 <= VIRTQ_SIZE
  BY <1>1, <1>4
<1> QED  BY <1>2, <1>3, <1>7, <1>8, <1>9 DEF WindowOK, W

(* Advancing the consumer's index removes the oldest entry. *)
LEMMA WindowConsume ==
  ASSUME NEW ring \in [Desc -> Desc], NEW idx \in Idx, NEW last \in Idx,
         NEW S, WindowOK(ring, idx, last, S), idx # last
  PROVE  /\ ring[Slot(last)] \in S
         /\ WindowOK(ring, idx, Inc(last), S \ {ring[Slot(last)]})
<1> DEFINE m == Pending(idx, last)
           W(i) == ring[Slot(last + i)]
<1>1. m \in Nat /\ last \in Int /\ VIRTQ_SIZE \in Nat \ {0} /\ m > 0
  BY PendingCases, PendingInc, QueueAssumption DEF Idx
<1>2. Pending(idx, Inc(last)) = m - 1
  BY PendingInc
<1>3. W(0) = ring[Slot(last)]
  BY <1>1
<1>4. \A i \in 0 .. (m - 1) - 1 : ring[Slot(Inc(last) + i)] = W(i + 1)
  BY <1>1, SlotAfterInc
<1>5. /\ \A i, j \in 0 .. m - 1 : W(i) = W(j) => i = j
      /\ {W(i) : i \in 0 .. m - 1} = S
      /\ m <= VIRTQ_SIZE
  BY DEF WindowOK
<1> HIDE DEF W, m
<1>6. W(0) \in S
  BY <1>1, <1>5
<1>7. \A i \in 0 .. (m - 1) - 1 : i + 1 \in 0 .. m - 1 /\ i + 1 # 0
  BY <1>1
<1>8. \A i, j \in 0 .. (m - 1) - 1 : W(i + 1) = W(j + 1) => i = j
  BY <1>1, <1>5, <1>7
<1>9. {W(i + 1) : i \in 0 .. (m - 1) - 1} = S \ {W(0)}
  <2>1. 0 \in 0 .. m - 1  BY <1>1
  <2>2. \A i \in 0 .. (m - 1) - 1 : W(i + 1) \in S \ {W(0)}
    BY <1>5, <1>7, <2>1
  <2>3. ASSUME NEW x \in S \ {W(0)}
        PROVE  \E i \in 0 .. (m - 1) - 1 : x = W(i + 1)
    <3>1. PICK k \in 0 .. m - 1 : x = W(k)  BY <1>5
    <3>2. k # 0  BY <3>1
    <3>3. k - 1 \in 0 .. (m - 1) - 1 /\ (k - 1) + 1 = k  BY <1>1, <3>2
    <3> QED  BY <3>1, <3>3
  <2> QED  BY <2>2, <2>3
<1>10. m - 1 <= VIRTQ_SIZE
  BY <1>1, <1>5
<1>11. \A i, j \in 0 .. (m - 1) - 1 :
         ring[Slot(Inc(last) + i)] = ring[Slot(Inc(last) + j)] => i = j
  BY <1>4, <1>8
<1>12. {ring[Slot(Inc(last) + i)] : i \in 0 .. (m - 1) - 1} = S \ {W(0)}
  BY <1>4, <1>9
<1> QED  BY <1>2, <1>3, <1>6, <1>10, <1>11, <1>12 DEF WindowOK
-----------------------------------------------------------------------------
(* The inductive invariant.  None of its parts is inductive alone: a ring  *)
(* window has room because the descriptor to be stored is in no other      *)
(* place, and desc_num_free stays in range because the chain is injective. *)

IndInv == TypeOK /\ FreeListOK /\ AvailWindowOK /\ UsedWindowOK

(* What moving one descriptor does to the places.                          *)
LEMMA MoveAt ==
  ASSUME owner \in [Desc -> Places], NEW d \in Desc, NEW p \in Places, Move(d, p)
  PROVE  /\ owner' \in [Desc -> Places]
         /\ At(p)' = At(p) \cup {d}
         /\ \A q \in Places \ {p} : At(q)' = At(q) \ {d}
         /\ \A q \in Places \ {p, owner[d]} : At(q)' = At(q)
  BY DEF Move, At

(* A free list is a property of the free descriptors' fields only. *)
LEMMA FreeListFrame ==
  ASSUME TypeOK, FreeListOK, At("free")' = At("free"),
         UNCHANGED <<desc_next_free, desc_num_free>>,
         \A d \in At("free") : desc'[d].next = desc[d].next
  PROVE  FreeListOK'
<1>1. PICK c \in [1 .. desc_num_free -> Desc] : FreeChain(c)
  BY DEF FreeListOK
<1>2. \A i \in 1 .. desc_num_free : c[i] \in At("free")
  BY <1>1 DEF FreeChain
<1>3. \A i \in 1 .. desc_num_free - 1 : desc'[c[i]].next = desc[c[i]].next
  BY <1>2, QueueAssumption DEF TypeOK
<1>4. FreeChain(c)'
  BY <1>1, <1>3 DEF FreeChain
<1> QED  BY <1>4 DEF FreeListOK

(* The free list is not longer than the queue, and shorter when some       *)
(* descriptor is not free.                                                 *)
LEMMA FreeListBound ==
  ASSUME FreeListOK, desc_num_free \in Nat, NEW d \in Desc, owner[d] # "free"
  PROVE  desc_num_free < VIRTQ_SIZE
<1>1. PICK c \in [1 .. desc_num_free -> Desc] : FreeChain(c)
  BY DEF FreeListOK
<1>2. \A i \in 1 .. desc_num_free : c[i] # d
  BY <1>1 DEF FreeChain, At
<1>3. \A i, j \in 1 .. desc_num_free : c[i] = c[j] => i = j
  BY <1>1 DEF FreeChain
<1>4. desc_num_free - 1 + 1 < VIRTQ_SIZE
  BY <1>2, <1>3, InjectionMisses
<1> QED  BY <1>4, QueueAssumption

(* virtq_init builds the chain 0, 1, ..., VIRTQ_SIZE - 1. *)
LEMMA InitInv == Init => IndInv
<1> SUFFICES ASSUME Init PROVE IndInv
  OBVIOUS
<1> USE DEF Init, virtq_init
<1>1. TypeOK
  BY QueueAssumption DEF TypeOK, Desc, Idx, Places
<1>2. FreeListOK
  <2> DEFINE c == [i \in 1 .. VIRTQ_SIZE |-> i - 1]
  <2>1. c \in [1 .. VIRTQ_SIZE -> Desc]
    BY QueueAssumption DEF Desc
  <2>2. {c[i] : i \in 1 .. VIRTQ_SIZE} = Desc
    <3>1. \A d \in Desc : d + 1 \in 1 .. VIRTQ_SIZE /\ c[d + 1] = d
      BY QueueAssumption DEF Desc
    <3> QED  BY <2>1, <3>1
  <2>3. At("free") = Desc
    BY DEF At
  <2>4. \A i \in 1 .. VIRTQ_SIZE - 1 : desc[c[i]].next = c[i + 1]
    BY QueueAssumption DEF Desc
  <2>5. \A i, j \in 1 .. VIRTQ_SIZE : c[i] = c[j] => i = j
    BY QueueAssumption
  <2>6. c[1] = 0 /\ desc_num_free = VIRTQ_SIZE /\ desc_next_free = 0
    BY QueueAssumption
  <2> HIDE DEF c, Init, virtq_init
  <2>7. FreeChain(c)
    BY <2>2, <2>3, <2>4, <2>5, <2>6 DEF FreeChain
  <2> QED  BY <2>1, <2>6, <2>7 DEF FreeListOK
<1>3. At("avail") = {} /\ At("placed") = {} /\ At("used") = {} /\ At("stored") = {}
  BY DEF At
<1>4. Pending(0, 0) = 0
  BY QueueAssumption, PendingCases DEF Idx
<1>5. AvailWindowOK
  BY <1>3, <1>4, QueueAssumption DEF AvailWindowOK, WindowOK, AheadOK
<1>6. UsedWindowOK
  BY <1>3, <1>4, QueueAssumption DEF UsedWindowOK, WindowOK, AheadOK
<1> QED  BY <1>1, <1>2, <1>5, <1>6 DEF IndInv

(* Taking the head of the chain leaves the rest of it. *)
LEMMA GetFreeInv ==
  ASSUME IndInv, virtq_get_free_desc_id
  PROVE  IndInv' /\ owner[desc_next_free] = "free"
<1> USE DEF IndInv
<1>1. PICK c \in [1 .. desc_num_free -> Desc] : FreeChain(c)
  BY DEF FreeListOK
<1>2. /\ desc_num_free \in Nat /\ desc_num_free > 0
      /\ c[1] = desc_next_free /\ desc_next_free \in At("free") /\ desc_next_free \in Desc
  BY <1>1, QueueAssumption
     DEF FreeChain, TypeOK, virtq_get_free_desc_id, virtq_has_free_slots, At
<1>3. Slot(desc_next_free) = desc_next_free
  <2>1. VIRTQ_SIZE \in Nat \ {0} /\ desc_next_free \in 0 .. VIRTQ_SIZE - 1
        /\ desc_next_free \in Int /\ desc_next_free = VIRTQ_SIZE * 0 + desc_next_free
    BY <1>2, QueueAssumption DEF Desc
  <2> QED  BY <2>1, ModValue DEF Slot
<1>4. /\ desc_next_free' = desc[desc_next_free].next
      /\ desc_num_free' = desc_num_free - 1
      /\ Move(desc_next_free, "taken")
      /\ UNCHANGED <<desc, availVars, usedVars>>
  BY <1>3 DEF virtq_get_free_desc_id
<1>5. /\ owner[desc_next_free] = "free" /\ owner' \in [Desc -> Places]
      /\ At("free")' = At("free") \ {desc_next_free}
      /\ At("avail")' = At("avail") /\ At("placed")' = At("placed")
      /\ At("used")' = At("used") /\ At("stored")' = At("stored")
  <2>1. owner[desc_next_free] = "free"
    BY <1>2 DEF At
  <2> QED  BY <1>2, <1>4, <2>1, MoveAt DEF TypeOK, Places
<1>6. TypeOK'
  BY <1>2, <1>4, <1>5, QueueAssumption DEF TypeOK, availVars, usedVars
<1>7. FreeListOK'
  <2> DEFINE n == desc_num_free
  <2>0. PICK e : e = [i \in 1 .. n - 1 |-> c[i + 1]]
    OBVIOUS
  <2>1. e \in [1 .. n - 1 -> Desc]
    BY <1>2, <2>0
  <2>2. \A i, j \in 1 .. n - 1 : e[i] = e[j] => i = j
    BY <1>1, <1>2, <2>0 DEF FreeChain
  <2>3. {e[i] : i \in 1 .. n - 1} = At("free") \ {desc_next_free}
    <3>1. \A i \in 1 .. n - 1 : i + 1 \in 1 .. n /\ i + 1 # 1 /\ 1 \in 1 .. n
      BY <1>2
    <3>2. \A i \in 1 .. n - 1 : e[i] \in At("free") \ {c[1]}
      BY <1>1, <2>0, <3>1 DEF FreeChain
    <3>3. ASSUME NEW x \in At("free") \ {c[1]}
          PROVE  \E i \in 1 .. n - 1 : x = e[i]
      <4>1. PICK k \in 1 .. n : x = c[k]  BY <1>1 DEF FreeChain
      <4>2. k # 1  BY <4>1
      <4>3. k - 1 \in 1 .. n - 1 /\ (k - 1) + 1 = k  BY <1>2, <4>2
      <4> QED  BY <2>0, <4>1, <4>3
    <3> QED  BY <1>2, <3>2, <3>3
  <2>4. n - 1 > 0 => e[1] = desc[desc_next_free].next
    BY <1>1, <1>2, <2>0 DEF FreeChain
  <2>5. \A i \in 1 .. (n - 1) - 1 : desc[e[i]].next = e[i + 1]
    BY <1>1, <1>2, <2>0 DEF FreeChain
  <2>6. FreeChain(e)'
    BY <1>4, <1>5, <2>2, <2>3, <2>4, <2>5 DEF FreeChain
  <2> QED  BY <1>4, <2>1, <2>6 DEF FreeListOK
<1>8. AvailWindowOK' /\ UsedWindowOK'
  BY <1>4, <1>5 DEF AvailWindowOK, UsedWindowOK, WindowOK, AheadOK, Pending, Slot,
                    availVars, usedVars
<1> QED  BY <1>5, <1>6, <1>7, <1>8

(* Returning a descriptor puts it in front of the chain. *)
LEMMA PutFreeInv ==
  ASSUME IndInv, NEW id \in Desc, virtq_put_free_desc(id)
  PROVE  IndInv'
<1> USE DEF IndInv
<1>1. PICK c \in [1 .. desc_num_free -> Desc] : FreeChain(c)
  BY DEF FreeListOK
<1>2. /\ desc_num_free \in Nat /\ owner[id] = "reaped" /\ id \notin At("free")
      /\ desc_num_free < VIRTQ_SIZE
  BY QueueAssumption, FreeListBound DEF TypeOK, virtq_put_free_desc, At
<1>3. /\ owner' \in [Desc -> Places]
      /\ At("free")' = At("free") \cup {id}
      /\ At("avail")' = At("avail") /\ At("placed")' = At("placed")
      /\ At("used")' = At("used") /\ At("stored")' = At("stored")
  BY <1>2, MoveAt DEF virtq_put_free_desc, TypeOK, Places
<1>4. /\ desc'[id].next = desc_next_free
      /\ \A d \in Desc \ {id} : desc'[d] = desc[d]
      /\ desc_next_free' = id /\ desc_num_free' = desc_num_free + 1
      /\ UNCHANGED <<availVars, usedVars>>
  BY DEF virtq_put_free_desc, TypeOK
<1>5. TypeOK'
  <2>1. desc' \in [Desc -> [buf : Buffers \cup {NoBuffer}, next : Desc]]
    BY DEF virtq_put_free_desc, TypeOK
  <2> QED  BY <1>2, <1>3, <1>4, <2>1, QueueAssumption DEF TypeOK, availVars, usedVars
<1>6. FreeListOK'
  <2> DEFINE n == desc_num_free
  <2>0. PICK e : e = [i \in 1 .. n + 1 |-> IF i = 1 THEN id ELSE c[i - 1]]
    OBVIOUS
  <2>1. e \in [1 .. n + 1 -> Desc]
    BY <1>2, <2>0
  <2>2. \A i \in 1 .. n + 1 : i = 1 \/ i - 1 \in 1 .. n
    BY <1>2
  <2>3. \A i \in 1 .. n : c[i] \in At("free") /\ c[i] # id
    BY <1>1, <1>2 DEF FreeChain
  <2>4. \A i, j \in 1 .. n + 1 : e[i] = e[j] => i = j
    BY <1>1, <1>2, <2>0, <2>2, <2>3 DEF FreeChain
  <2>5. {e[i] : i \in 1 .. n + 1} = At("free") \cup {id}
    <3>1. \A i \in 1 .. n + 1 : e[i] \in At("free") \cup {id}
      BY <2>0, <2>2, <2>3
    <3>2. 1 \in 1 .. n + 1 /\ e[1] = id
      BY <1>2, <2>0
    <3>3. ASSUME NEW x \in At("free") PROVE \E i \in 1 .. n + 1 : x = e[i]
      <4>1. PICK k \in 1 .. n : x = c[k]  BY <1>1 DEF FreeChain
      <4>2. k + 1 \in 1 .. n + 1 /\ e[k + 1] = c[k]  BY <1>2, <2>0
      <4> QED  BY <4>1, <4>2
    <3> QED  BY <3>1, <3>2, <3>3
  <2>6. ASSUME NEW i \in 1 .. (n + 1) - 1 PROVE desc'[e[i]].next = e[i + 1]
    <3>1. CASE i = 1
      <4>1. e[i] = id /\ e[i + 1] = c[1] /\ n > 0
        BY <1>2, <2>0, <3>1
      <4> QED  BY <1>1, <1>4, <4>1 DEF FreeChain
    <3>2. CASE i # 1
      <4>1. i - 1 \in 1 .. n - 1 /\ i - 1 \in 1 .. n /\ (i - 1) + 1 = i
        BY <1>2, <3>2
      <4>2. e[i] = c[i - 1] /\ e[i + 1] = c[(i - 1) + 1]
        BY <1>2, <2>0, <3>2
      <4>3. desc'[c[i - 1]] = desc[c[i - 1]]
        BY <1>4, <2>3, <4>1
      <4>4. desc[c[i - 1]].next = c[(i - 1) + 1]
        BY <1>1, <4>1 DEF FreeChain
      <4> QED  BY <4>2, <4>3, <4>4
    <3> QED  BY <3>1, <3>2
  <2>7. e[1] = id
    BY <1>2, <2>0
  <2>8. FreeChain(e)'
    BY <1>2, <1>3, <1>4, <2>4, <2>5, <2>6, <2>7 DEF FreeChain
  <2> QED  BY <1>4, <2>1, <2>8 DEF FreeListOK
<1>7. AvailWindowOK' /\ UsedWindowOK'
  BY <1>3, <1>4 DEF AvailWindowOK, UsedWindowOK, WindowOK, AheadOK, Pending, Slot,
                    availVars, usedVars
<1> QED  BY <1>5, <1>6, <1>7

(* Filling a taken descriptor touches neither chain nor rings. *)
LEMMA DescInitInv ==
  ASSUME IndInv, NEW id \in Desc, NEW b \in Buffers, virtq_desc_init(id, b)
  PROVE  IndInv'
<1> USE DEF IndInv
<1>1. /\ owner' \in [Desc -> Places] /\ id \notin At("free")
      /\ At("free")' = At("free")
      /\ At("avail")' = At("avail") /\ At("placed")' = At("placed")
      /\ At("used")' = At("used") /\ At("stored")' = At("stored")
  BY MoveAt DEF virtq_desc_init, TypeOK, Places, At
<1>2. /\ desc' = [desc EXCEPT ![id] = [buf |-> b, next |-> 0]]
      /\ \A d \in Desc \ {id} : desc'[d] = desc[d]
      /\ UNCHANGED <<desc_next_free, desc_num_free, availVars, usedVars>>
  BY DEF virtq_desc_init, TypeOK
<1>3. desc' \in [Desc -> [buf : Buffers \cup {NoBuffer}, next : Desc]]
  <2>1. 0 \in Desc  BY QueueAssumption DEF Desc
  <2> QED  BY <1>2, <2>1 DEF TypeOK
<1>4. TypeOK'
  BY <1>1, <1>2, <1>3 DEF TypeOK, availVars, usedVars
<1>5. FreeListOK'
  <2>1. \A d \in At("free") : desc'[d].next = desc[d].next
    BY <1>1, <1>2 DEF At
  <2> QED  BY <1>1, <1>2, <2>1, FreeListFrame
<1>6. AvailWindowOK' /\ UsedWindowOK'
  BY <1>1, <1>2 DEF AvailWindowOK, UsedWindowOK, WindowOK, AheadOK, Pending, Slot,
                    availVars, usedVars
<1> QED  BY <1>4, <1>5, <1>6

(* Storing the offered id ahead of avail_idx overwrites no pending entry.  *)
LEMMA AddAvailRingInv ==
  ASSUME IndInv, NEW id \in Desc, virtq_add_avail_buf_ring(id)
  PROVE  IndInv'
<1> USE DEF IndInv
<1>1. /\ owner' \in [Desc -> Places] /\ id \notin At("avail") /\ At("placed") = {}
      /\ At("free")' = At("free")
      /\ At("avail")' = At("avail") /\ At("placed")' = {id}
      /\ At("used")' = At("used") /\ At("stored")' = At("stored")
  BY MoveAt DEF virtq_add_avail_buf_ring, TypeOK, Places, At
<1>2. /\ avail_ring' = [avail_ring EXCEPT ![Slot(avail_idx)] = id]
      /\ UNCHANGED <<descVars, avail_idx, avail_last_idx, usedVars>>
  BY DEF virtq_add_avail_buf_ring
<1>3. /\ avail_ring \in [Desc -> Desc] /\ avail_idx \in Idx /\ avail_last_idx \in Idx
      /\ Slot(avail_idx) \in Desc
      /\ WindowOK(avail_ring, avail_idx, avail_last_idx, At("avail"))
  BY QueueAssumption, SlotType DEF TypeOK, AvailWindowOK, Idx
<1>4. avail_ring' \in [Desc -> Desc]
  BY <1>2, <1>3
<1>5. TypeOK'
  BY <1>1, <1>2, <1>4 DEF TypeOK, descVars, usedVars
<1>6. FreeListOK'
  BY <1>1, <1>2, FreeListFrame DEF descVars
<1>7. WindowOK(avail_ring, avail_idx, avail_last_idx, At("avail"))'
  <2>1. Pending(avail_idx, avail_last_idx) < VIRTQ_SIZE
    BY <1>1, <1>3, WindowMisses
  <2>2. WindowOK([avail_ring EXCEPT ![Slot(avail_idx)] = id],
                 avail_idx, avail_last_idx, At("avail"))
    BY <1>3, <2>1, WindowStore
  <2> QED  BY <1>1, <1>2, <2>2
<1>8. AheadOK(avail_ring, avail_idx, At("placed"))'
  BY <1>1, <1>2, <1>3 DEF AheadOK
<1>9. UsedWindowOK'
  BY <1>1, <1>2 DEF UsedWindowOK, WindowOK, AheadOK, Pending, Slot, usedVars
<1> QED  BY <1>5, <1>6, <1>7, <1>8, <1>9 DEF AvailWindowOK

(* Publishing avail->idx adds the placed descriptor to the window.         *)
LEMMA AddAvailIdxInv ==
  ASSUME IndInv, NEW id \in Desc, virtq_add_avail_buf_idx(id)
  PROVE  IndInv'
<1> USE DEF IndInv
<1>1. /\ owner' \in [Desc -> Places] /\ id \in At("placed") /\ id \notin At("avail")
      /\ At("free")' = At("free")
      /\ At("avail")' = At("avail") \cup {id} /\ At("placed")' = At("placed") \ {id}
      /\ At("used")' = At("used") /\ At("stored")' = At("stored")
  BY MoveAt DEF virtq_add_avail_buf_idx, TypeOK, Places, At
<1>2. /\ avail_idx' = Inc(avail_idx)
      /\ UNCHANGED <<descVars, avail_ring, avail_last_idx, usedVars>>
  BY DEF virtq_add_avail_buf_idx
<1>3. /\ avail_ring \in [Desc -> Desc] /\ avail_idx \in Idx /\ avail_last_idx \in Idx
      /\ WindowOK(avail_ring, avail_idx, avail_last_idx, At("avail"))
      /\ avail_ring[Slot(avail_idx)] = id /\ At("placed") \ {id} = {}
  BY <1>1 DEF TypeOK, AvailWindowOK, AheadOK
<1>4. avail_idx' \in Idx
  BY <1>2, <1>3, IncCases
<1>5. TypeOK'
  BY <1>1, <1>2, <1>4 DEF TypeOK, descVars, usedVars
<1>6. FreeListOK'
  BY <1>1, <1>2, FreeListFrame DEF descVars
<1>7. WindowOK(avail_ring, avail_idx, avail_last_idx, At("avail"))'
  <2>1. Pending(avail_idx, avail_last_idx) < VIRTQ_SIZE
    BY <1>1, <1>3, WindowMisses
  <2>2. WindowOK(avail_ring, Inc(avail_idx), avail_last_idx, At("avail") \cup {id})
    BY <1>1, <1>3, <2>1, WindowPublish
  <2> QED  BY <1>1, <1>2, <2>2
<1>8. AheadOK(avail_ring, avail_idx, At("placed"))'
  BY <1>1, <1>3 DEF AheadOK
<1>9. UsedWindowOK'
  BY <1>1, <1>2 DEF UsedWindowOK, WindowOK, AheadOK, Pending, Slot, usedVars
<1> QED  BY <1>5, <1>6, <1>7, <1>8, <1>9 DEF AvailWindowOK

(* What the device reads from the available ring has been offered. *)
LEMMA GetAvailInv ==
  ASSUME IndInv, virtq_get_avail_buf_id
  PROVE  IndInv' /\ owner[avail_ring[Slot(avail_last_idx)]] = "avail"
<1> USE DEF IndInv
<1> DEFINE id == avail_ring[Slot(avail_last_idx)]
<1>1. /\ avail_ring \in [Desc -> Desc] /\ avail_idx \in Idx /\ avail_last_idx \in Idx
      /\ WindowOK(avail_ring, avail_idx, avail_last_idx, At("avail"))
      /\ avail_idx # avail_last_idx
  BY DEF TypeOK, AvailWindowOK, virtq_get_avail_buf_id, virtq_avail_has_buf
<1>2. /\ id \in At("avail")
      /\ WindowOK(avail_ring, avail_idx, Inc(avail_last_idx), At("avail") \ {id})
  BY <1>1, WindowConsume
<1>3. /\ avail_last_idx' = Inc(avail_last_idx) /\ Move(id, "device")
      /\ UNCHANGED <<descVars, avail_ring, avail_idx, usedVars>>
  BY DEF virtq_get_avail_buf_id
<1> HIDE DEF id
<1>4. /\ id \in Desc /\ owner[id] = "avail" /\ owner' \in [Desc -> Places]
      /\ At("free")' = At("free")
      /\ At("avail")' = At("avail") \ {id} /\ At("placed")' = At("placed")
      /\ At("used")' = At("used") /\ At("stored")' = At("stored")
  <2>1. id \in Desc /\ owner[id] = "avail"
    BY <1>2 DEF At
  <2> QED  BY <1>3, <2>1, MoveAt DEF TypeOK, Places
<1>5. avail_last_idx' \in Idx
  BY <1>1, <1>3, IncCases
<1>6. TypeOK'
  BY <1>3, <1>4, <1>5 DEF TypeOK, descVars, usedVars
<1>7. FreeListOK'
  BY <1>3, <1>4, FreeListFrame DEF descVars
<1>8. WindowOK(avail_ring, avail_idx, avail_last_idx, At("avail"))'
  BY <1>2, <1>3, <1>4
<1>9. AheadOK(avail_ring, avail_idx, At("placed"))'
  BY <1>3, <1>4 DEF AheadOK, AvailWindowOK
<1>10. UsedWindowOK'
  BY <1>3, <1>4 DEF UsedWindowOK, WindowOK, AheadOK, Pending, Slot, usedVars
<1> QED  BY <1>4, <1>6, <1>7, <1>8, <1>9, <1>10 DEF AvailWindowOK, id

(* The device's side, on the used ring. *)
LEMMA AddUsedRingInv ==
  ASSUME IndInv, NEW id \in Desc, virtq_add_used_buf_ring(id)
  PROVE  IndInv'
<1> USE DEF IndInv
<1>1. /\ owner' \in [Desc -> Places] /\ id \notin At("used") /\ At("stored") = {}
      /\ At("free")' = At("free")
      /\ At("used")' = At("used") /\ At("stored")' = {id}
      /\ At("avail")' = At("avail") /\ At("placed")' = At("placed")
  BY MoveAt DEF virtq_add_used_buf_ring, TypeOK, Places, At
<1>2. /\ used_ring' = [used_ring EXCEPT ![Slot(used_idx)] = id]
      /\ UNCHANGED <<descVars, used_idx, last_used_idx, availVars>>
  BY DEF virtq_add_used_buf_ring
<1>3. /\ used_ring \in [Desc -> Desc] /\ used_idx \in Idx /\ last_used_idx \in Idx
      /\ Slot(used_idx) \in Desc
      /\ WindowOK(used_ring, used_idx, last_used_idx, At("used"))
  BY QueueAssumption, SlotType DEF TypeOK, UsedWindowOK, Idx
<1>4. used_ring' \in [Desc -> Desc]
  BY <1>2, <1>3
<1>5. TypeOK'
  BY <1>1, <1>2, <1>4 DEF TypeOK, descVars, availVars
<1>6. FreeListOK'
  BY <1>1, <1>2, FreeListFrame DEF descVars
<1>7. WindowOK(used_ring, used_idx, last_used_idx, At("used"))'
  <2>1. Pending(used_idx, last_used_idx) < VIRTQ_SIZE
    BY <1>1, <1>3, WindowMisses
  <2>2. WindowOK([used_ring EXCEPT ![Slot(used_idx)] = id],
                 used_idx, last_used_idx, At("used"))
    BY <1>3, <2>1, WindowStore
  <2> QED  BY <1>1, <1>2, <2>2
<1>8. AheadOK(used_ring, used_idx, At("stored"))'
  BY <1>1, <1>2, <1>3 DEF AheadOK
<1>9. AvailWindowOK'
  BY <1>1, <1>2 DEF AvailWindowOK, WindowOK, AheadOK, Pending, Slot, availVars
<1> QED  BY <1>5, <1>6, <1>7, <1>8, <1>9 DEF UsedWindowOK

(* Publishing used->idx adds the stored descriptor to the window.          *)
LEMMA AddUsedIdxInv ==
  ASSUME IndInv, NEW id \in Desc, virtq_add_used_buf_idx(id)
  PROVE  IndInv'
<1> USE DEF IndInv
<1>1. /\ owner' \in [Desc -> Places] /\ id \in At("stored") /\ id \notin At("used")
      /\ At("free")' = At("free")
      /\ At("used")' = At("used") \cup {id} /\ At("stored")' = At("stored") \ {id}
      /\ At("avail")' = At("avail") /\ At("placed")' = At("placed")
  BY MoveAt DEF virtq_add_used_buf_idx, TypeOK, Places, At
<1>2. /\ used_idx' = Inc(used_idx)
      /\ UNCHANGED <<descVars, used_ring, last_used_idx, availVars>>
  BY DEF virtq_add_used_buf_idx
<1>3. /\ used_ring \in [Desc -> Desc] /\ used_idx \in Idx /\ last_used_idx \in Idx
      /\ WindowOK(used_ring, used_idx, last_used_idx, At("used"))
      /\ used_ring[Slot(used_idx)] = id /\ At("stored") \ {id} = {}
  BY <1>1 DEF TypeOK, UsedWindowOK, AheadOK
<1>4. used_idx' \in Idx
  BY <1>2, <1>3, IncCases
<1>5. TypeOK'
  BY <1>1, <1>2, <1>4 DEF TypeOK, descVars, availVars
<1>6. FreeListOK'
  BY <1>1, <1>2, FreeListFrame DEF descVars
<1>7. WindowOK(used_ring, used_idx, last_used_idx, At("used"))'
  <2>1. Pending(used_idx, last_used_idx) < VIRTQ_SIZE
    BY <1>1, <1>3, WindowMisses
  <2>2. WindowOK(used_ring, Inc(used_idx), last_used_idx, At("used") \cup {id})
    BY <1>1, <1>3, <2>1, WindowPublish
  <2> QED  BY <1>1, <1>2, <2>2
<1>8. AheadOK(used_ring, used_idx, At("stored"))'
  BY <1>1, <1>3 DEF AheadOK
<1>9. AvailWindowOK'
  BY <1>1, <1>2 DEF AvailWindowOK, WindowOK, AheadOK, Pending, Slot, availVars
<1> QED  BY <1>5, <1>6, <1>7, <1>8, <1>9 DEF UsedWindowOK

(* What the driver reads from the used ring has been completed. *)
LEMMA GetUsedInv ==
  ASSUME IndInv, virtq_get_used_buf_id
  PROVE  IndInv' /\ owner[used_ring[Slot(last_used_idx)]] = "used"
<1> USE DEF IndInv
<1> DEFINE id == used_ring[Slot(last_used_idx)]
<1>1. /\ used_ring \in [Desc -> Desc] /\ used_idx \in Idx /\ last_used_idx \in Idx
      /\ WindowOK(used_ring, used_idx, last_used_idx, At("used"))
      /\ used_idx # last_used_idx
  BY DEF TypeOK, UsedWindowOK, virtq_get_used_buf_id, virtq_used_has_buf
<1>2. /\ id \in At("used")
      /\ WindowOK(used_ring, used_idx, Inc(last_used_idx), At("used") \ {id})
  BY <1>1, WindowConsume
<1>3. /\ last_used_idx' = Inc(last_used_idx) /\ Move(id, "reaped")
      /\ UNCHANGED <<descVars, used_ring, used_idx, availVars>>
  BY DEF virtq_get_used_buf_id
<1> HIDE DEF id
<1>4. /\ id \in Desc /\ owner[id] = "used" /\ owner' \in [Desc -> Places]
      /\ At("free")' = At("free")
      /\ At("used")' = At("used") \ {id} /\ At("stored")' = At("stored")
      /\ At("avail")' = At("avail") /\ At("placed")' = At("placed")
  <2>1. id \in Desc /\ owner[id] = "used"
    BY <1>2 DEF At
  <2> QED  BY <1>3, <2>1, MoveAt DEF TypeOK, Places
<1>5. last_used_idx' \in Idx
  BY <1>1, <1>3, IncCases
<1>6. TypeOK'
  BY <1>3, <1>4, <1>5 DEF TypeOK, descVars, availVars
<1>7. FreeListOK'
  BY <1>3, <1>4, FreeListFrame DEF descVars
<1>8. WindowOK(used_ring, used_idx, last_used_idx, At("used"))'
  BY <1>2, <1>3, <1>4
<1>9. AheadOK(used_ring, used_idx, At("stored"))'
  BY <1>3, <1>4 DEF AheadOK, UsedWindowOK
<1>10. AvailWindowOK'
  BY <1>3, <1>4 DEF AvailWindowOK, WindowOK, AheadOK, Pending, Slot, availVars
<1> QED  BY <1>4, <1>6, <1>7, <1>8, <1>9, <1>10 DEF UsedWindowOK, id

(* One step of the driver or of the device. *)
LEMMA NextInv ==
  ASSUME IndInv, [Next]_vars
  PROVE  IndInv'
<1>1. CASE virtq_get_free_desc_id  BY <1>1, GetFreeInv
<1>2. CASE \E id \in Desc, b \in Buffers : virtq_desc_init(id, b)
  BY <1>2, DescInitInv
<1>3. CASE \E id \in Desc : virtq_add_avail_buf_ring(id)  BY <1>3, AddAvailRingInv
<1>4. CASE \E id \in Desc : virtq_add_avail_buf_idx(id)  BY <1>4, AddAvailIdxInv
<1>5. CASE virtq_get_used_buf_id  BY <1>5, GetUsedInv
<1>6. CASE \E id \in Desc : virtq_put_free_desc(id)  BY <1>6, PutFreeInv
<1>7. CASE virtq_get_avail_buf_id  BY <1>7, GetAvailInv
<1>8. CASE \E id \in Desc : virtq_add_used_buf_ring(id)  BY <1>8, AddUsedRingInv
<1>9. CASE \E id \in Desc : virtq_add_used_buf_idx(id)  BY <1>9, AddUsedIdxInv
<1>10. CASE UNCHANGED vars
  <2>1. At("free")' = At("free") /\ At("avail")' = At("avail")
        /\ At("placed")' = At("placed") /\ At("used")' = At("used")
        /\ At("stored")' = At("stored")
    BY <1>10 DEF vars, At
  <2>2. TypeOK'  BY <1>10 DEF IndInv, TypeOK, vars
  <2>3. FreeListOK'  BY <1>10, <2>1, FreeListFrame DEF IndInv, vars
  <2>4. AvailWindowOK' /\ UsedWindowOK'
    BY <1>10, <2>1 DEF IndInv, AvailWindowOK, UsedWindowOK, WindowOK, AheadOK,
                       Pending, Slot, vars
  <2> QED  BY <2>2, <2>3, <2>4 DEF IndInv
<1> QED  BY <1>1, <1>2, <1>3, <1>4, <1>5, <1>6, <1>7, <1>8, <1>9, <1>10
         DEF Next, Driver, Device

-----------------------------------------------------------------------------
(* The invariant holds of every virtqueue, whatever its size. *)
THEOREM Invariance == Spec => []IndInv
<1>1. IndInv /\ [Next]_vars => IndInv'  BY NextInv
<1> QED  BY InitInv, <1>1, PTL DEF Spec

(* Every field of the virtqueue stays in the range of its C type. *)
THEOREM TypeCorrect == Spec => []TypeOK
<1>1. IndInv => TypeOK  BY DEF IndInv
<1> QED  BY Invariance, <1>1, PTL

(* virtq_get_free_desc_id and virtq_put_free_desc maintain one chain of    *)
(* exactly the free descriptors: none is lost, none is handed out twice.   *)
THEOREM FreeListCorrect == Spec => []FreeListOK
<1>1. IndInv => FreeListOK  BY DEF IndInv
<1> QED  BY Invariance, <1>1, PTL

(* The available ring never overruns, at any wrap of its uint16_t indices. *)
THEOREM AvailRingCorrect == Spec => []AvailWindowOK
<1>1. IndInv => AvailWindowOK  BY DEF IndInv
<1> QED  BY Invariance, <1>1, PTL

(* Neither does the used ring. *)
THEOREM UsedRingCorrect == Spec => []UsedWindowOK
<1>1. IndInv => UsedWindowOK  BY DEF IndInv
<1> QED  BY Invariance, <1>1, PTL

(* The assertion of virtq_put_free_desc never fails. *)
THEOREM PutFreeAssertHolds == Spec => []PutFreeAssert
<1>1. IndInv => PutFreeAssert
  <2> SUFFICES ASSUME IndInv, NEW d \in At("reaped") PROVE desc_num_free < VIRTQ_SIZE
    BY DEF PutFreeAssert
  <2>1. d \in Desc /\ owner[d] # "free"  BY DEF At
  <2>2. desc_num_free \in Nat  BY QueueAssumption DEF IndInv, TypeOK
  <2> QED  BY <2>1, <2>2, FreeListBound DEF IndInv
<1> QED  BY Invariance, <1>1, PTL

(* A descriptor changes hands only along its life. *)
THEOREM LifeCycleHolds == Spec => LifeCycle
<1> DEFINE Step == \A d \in Desc : owner'[d] # owner[d] =>
                      <<owner[d], owner'[d]>> \in LifeSteps
<1>1. IndInv /\ [Next]_vars => [Step]_vars
  <2> SUFFICES ASSUME IndInv, Next PROVE Step
    OBVIOUS
  <2>0. owner \in [Desc -> Places]  BY DEF IndInv, TypeOK
  <2> USE DEF LifeSteps, Move
  <2>1. CASE virtq_get_free_desc_id
    BY <2>0, <2>1, GetFreeInv DEF virtq_get_free_desc_id
  <2>2. CASE \E id \in Desc, b \in Buffers : virtq_desc_init(id, b)
    BY <2>0, <2>2 DEF virtq_desc_init
  <2>3. CASE \E id \in Desc : virtq_add_avail_buf_ring(id)
    BY <2>0, <2>3 DEF virtq_add_avail_buf_ring
  <2>4. CASE \E id \in Desc : virtq_add_avail_buf_idx(id)
    BY <2>0, <2>4 DEF virtq_add_avail_buf_idx
  <2>5. CASE virtq_get_used_buf_id
    BY <2>0, <2>5, GetUsedInv DEF virtq_get_used_buf_id
  <2>6. CASE \E id \in Desc : virtq_put_free_desc(id)
    BY <2>0, <2>6 DEF virtq_put_free_desc
  <2>7. CASE virtq_get_avail_buf_id
    BY <2>0, <2>7, GetAvailInv DEF virtq_get_avail_buf_id
  <2>8. CASE \E id \in Desc : virtq_add_used_buf_ring(id)
    BY <2>0, <2>8 DEF virtq_add_used_buf_ring
  <2>9. CASE \E id \in Desc : virtq_add_used_buf_idx(id)
    BY <2>0, <2>9 DEF virtq_add_used_buf_idx
  <2> QED  BY <2>1, <2>2, <2>3, <2>4, <2>5, <2>6, <2>7, <2>8, <2>9
           DEF Next, Driver, Device
<1> QED  BY Invariance, <1>1, PTL DEF Spec, LifeCycle

-----------------------------------------------------------------------------
(* The queues of the refinement.                                           *)

(* A window is a sequence of descriptors.                                  *)
LEMMA WindowSeq ==
  ASSUME NEW ring \in [Desc -> Desc], NEW idx \in Idx, NEW last \in Idx
  PROVE  /\ Window(ring, idx, last) \in Seq(Desc)
         /\ Len(Window(ring, idx, last)) = Pending(idx, last)
         /\ \A i \in 1 .. Pending(idx, last) :
              Window(ring, idx, last)[i] = ring[Slot(last + i - 1)]
<1> DEFINE m == Pending(idx, last)
           w == [i \in 1 .. m |-> ring[Slot(last + i - 1)]]
<1>1. m \in Nat /\ last \in Int
  BY PendingCases, QueueAssumption DEF Idx
<1>2. \A i \in 1 .. m : Slot(last + i - 1) \in Desc
  BY <1>1, SlotType
<1> HIDE DEF m
<1>3. w \in [1 .. m -> Desc]
  BY <1>2
<1>4. w \in Seq(Desc) /\ Len(w) = m
  BY <1>1, <1>3
<1> QED
  BY <1>4 DEF Window, m

(* Storing ahead of the producer's index does not change the queue.        *)
LEMMA QueueStore ==
  ASSUME NEW ring \in [Desc -> Desc], NEW idx \in Idx, NEW last \in Idx,
         NEW d \in Desc, Pending(idx, last) < VIRTQ_SIZE
  PROVE  Window([ring EXCEPT ![Slot(idx)] = d], idx, last) = Window(ring, idx, last)
<1> DEFINE m == Pending(idx, last)
<1>1. m \in Nat /\ last \in Int /\ idx \in Int /\ VIRTQ_SIZE \in Nat \ {0}
  BY PendingCases, QueueAssumption DEF Idx
<1>2. ASSUME NEW i \in 1 .. m
      PROVE  Slot(last + i - 1) # Slot(idx) /\ Slot(last + i - 1) \in Desc
  <2>1. /\ last + i - 1 \in Int /\ last + m \in Int
        /\ last + i - 1 < last + m /\ last + m < (last + i - 1) + VIRTQ_SIZE
    BY <1>1
  <2>2. (last + i - 1) % VIRTQ_SIZE # (last + m) % VIRTQ_SIZE
    <3> HIDE DEF m
    <3> QED  BY <1>1, <2>1, ModDistinct
  <2> QED  BY <2>1, <2>2, SlotAhead, SlotType DEF Slot
<1> QED
  BY <1>2 DEF Window

(* Advancing the producer's index appends the entry stored at its slot.    *)
LEMMA QueuePublish ==
  ASSUME NEW ring \in [Desc -> Desc], NEW idx \in Idx, NEW last \in Idx,
         Pending(idx, last) < VIRTQ_SIZE
  PROVE  Window(ring, Inc(idx), last)
           = Append(Window(ring, idx, last), ring[Slot(idx)])
<1> DEFINE m == Pending(idx, last)
           w == Window(ring, idx, last)
           d == ring[Slot(idx)]
           v == Window(ring, Inc(idx), last)
<1>1. m \in Nat /\ last \in Int /\ idx \in Int /\ Inc(idx) \in Idx /\ d \in Desc
  BY PendingCases, IncCases, SlotType, QueueAssumption DEF Idx
<1>2. Pending(Inc(idx), last) = m + 1
  BY PendingInc
<1>3. /\ w \in Seq(Desc) /\ Len(w) = m
      /\ \A i \in 1 .. m : w[i] = ring[Slot(last + i - 1)]
  BY WindowSeq
<1>4. /\ v \in Seq(Desc) /\ Len(v) = m + 1
      /\ \A i \in 1 .. m + 1 : v[i] = ring[Slot(last + i - 1)]
  BY <1>1, <1>2, WindowSeq
<1>5. d = ring[Slot(last + (m + 1) - 1)]
  <2>1. last + (m + 1) - 1 = last + m
    BY <1>1
  <2> QED
    BY <2>1, SlotAhead
<1> HIDE DEF m, w, v, d
<1>6. /\ Append(w, d) \in Seq(Desc) /\ Len(Append(w, d)) = m + 1
      /\ \A i \in 1 .. m : Append(w, d)[i] = w[i]
      /\ Append(w, d)[m + 1] = d
  BY <1>1, <1>3, AppendProperties
<1>7. \A i \in 1 .. m + 1 : v[i] = Append(w, d)[i]
  <2> SUFFICES ASSUME NEW i \in 1 .. m + 1 PROVE v[i] = Append(w, d)[i]
    OBVIOUS
  <2>1. CASE i = m + 1
    BY <1>1, <1>4, <1>5, <1>6, <2>1
  <2>2. CASE i \in 1 .. m
    BY <1>3, <1>4, <1>6, <2>2
  <2>3. i = m + 1 \/ i \in 1 .. m
    BY <1>1
  <2> QED
    BY <2>1, <2>2, <2>3
<1>8. v = Append(w, d)
  BY <1>4, <1>6, <1>7, SeqEqual
<1> QED
  BY <1>8 DEF w, v, d

(* Advancing the consumer's index removes the head.                        *)
LEMMA QueueConsume ==
  ASSUME NEW ring \in [Desc -> Desc], NEW idx \in Idx, NEW last \in Idx, idx # last
  PROVE  /\ Window(ring, idx, last) # << >>
         /\ Head(Window(ring, idx, last)) = ring[Slot(last)]
         /\ Window(ring, idx, Inc(last)) = Tail(Window(ring, idx, last))
<1> DEFINE m == Pending(idx, last)
           w == Window(ring, idx, last)
           v == Window(ring, idx, Inc(last))
<1>1. m \in Nat /\ m > 0 /\ last \in Int /\ Inc(last) \in Idx /\ Inc(last) \in Int
  BY PendingCases, PendingInc, IncCases, QueueAssumption DEF Idx
<1>2. Pending(idx, Inc(last)) = m - 1
  BY PendingInc
<1>3. /\ w \in Seq(Desc) /\ Len(w) = m
      /\ \A i \in 1 .. m : w[i] = ring[Slot(last + i - 1)]
  BY WindowSeq
<1>4. /\ v \in Seq(Desc) /\ Len(v) = m - 1
      /\ \A i \in 1 .. m - 1 : v[i] = ring[Slot(Inc(last) + i - 1)]
  BY <1>1, <1>2, WindowSeq
<1>5. \A i \in 1 .. m - 1 : Slot(Inc(last) + i - 1) = Slot(last + (i + 1) - 1)
  <2> SUFFICES ASSUME NEW i \in 1 .. m - 1
               PROVE  Slot(Inc(last) + i - 1) = Slot(last + (i + 1) - 1)
    OBVIOUS
  <2>1. i - 1 \in Int /\ Inc(last) + i - 1 = Inc(last) + (i - 1)
        /\ last + (i + 1) - 1 = last + ((i - 1) + 1)
    BY <1>1
  <2> QED
    BY <2>1, SlotAfterInc
<1> HIDE DEF m, w, v
<1>6. w # << >> /\ Head(w) = w[1]
  BY <1>1, <1>3
<1>7. /\ Tail(w) \in Seq(Desc) /\ Len(Tail(w)) = m - 1
      /\ \A i \in 1 .. m - 1 : Tail(w)[i] = w[i + 1]
  BY <1>3, <1>6, HeadTailProperties
<1>8. \A i \in 1 .. m - 1 : v[i] = Tail(w)[i]
  <2> SUFFICES ASSUME NEW i \in 1 .. m - 1 PROVE v[i] = Tail(w)[i]
    OBVIOUS
  <2>1. i + 1 \in 1 .. m
    BY <1>1
  <2> QED
    BY <1>3, <1>4, <1>5, <1>7, <2>1
<1>9. v = Tail(w)
  BY <1>4, <1>7, <1>8, SeqEqual
<1>10. w[1] = ring[Slot(last)]
  <2>1. 1 \in 1 .. m /\ last + 1 - 1 = last
    BY <1>1
  <2> QED
    BY <1>3, <2>1
<1> QED
  BY <1>6, <1>9, <1>10 DEF w, v

-----------------------------------------------------------------------------
(* The steps of the refinement.                                            *)

(* A descriptor that is filled, placed or further describes the buffer of  *)
(* its virtq_desc_init.                                                    *)
ContentOK ==
  \A d \in Desc : owner[d] \in {"filled", "placed"} => desc[d].buf \in Buffers

RefInv == IndInv /\ ContentOK

(* virtq_desc_init is the only writer of a descriptor on its way.          *)
LEMMA ContentInv ==
  ASSUME RefInv, [Next]_vars
  PROVE  ContentOK'
<1> USE DEF ContentOK, RefInv, IndInv, TypeOK, Move
<1>1. CASE virtq_get_free_desc_id
  BY <1>1 DEF virtq_get_free_desc_id
<1>2. ASSUME NEW id \in Desc, NEW b \in Buffers, virtq_desc_init(id, b)
      PROVE  ContentOK'
  BY <1>2 DEF virtq_desc_init
<1>3. ASSUME NEW id \in Desc,
             \/ virtq_add_avail_buf_ring(id) \/ virtq_add_avail_buf_idx(id)
             \/ virtq_add_used_buf_ring(id) \/ virtq_add_used_buf_idx(id)
      PROVE  ContentOK'
  BY <1>3 DEF virtq_add_avail_buf_ring, virtq_add_avail_buf_idx,
              virtq_add_used_buf_ring, virtq_add_used_buf_idx, descVars
<1>4. ASSUME NEW id \in Desc, virtq_put_free_desc(id)
      PROVE  ContentOK'
  BY <1>4 DEF virtq_put_free_desc
<1>5. CASE virtq_get_used_buf_id
  BY <1>5, GetUsedInv DEF virtq_get_used_buf_id, descVars
<1>6. CASE virtq_get_avail_buf_id
  BY <1>6, GetAvailInv DEF virtq_get_avail_buf_id, descVars
<1>7. CASE UNCHANGED vars
  BY <1>7 DEF vars
<1> QED
  BY <1>1, <1>2, <1>3, <1>4, <1>5, <1>6, <1>7 DEF Next, Driver, Device

(* What moving one descriptor does to the holders and the contents.        *)
LEMMA MovePlace ==
  ASSUME TypeOK, NEW d \in Desc, NEW p \in Places, Move(d, p)
  PROVE  /\ Place' = [Place EXCEPT ![d] = Holder(p)]
         /\ Holder(p) = Holder(owner[d]) => Place' = Place
  BY DEF Place, Move, TypeOK

LEMMA MoveContent ==
  ASSUME TypeOK, NEW d \in Desc, NEW p \in Places, Move(d, p),
         \A e \in Desc \ {d} : desc'[e].buf = desc[e].buf
  PROVE  Content' = [Content EXCEPT ![d] =
                       IF Holder(p) \in {"free", "driver"} THEN {}
                       ELSE {desc'[d].buf}]
  BY DEF Content, Move, TypeOK

(* A queue and the contents are functions of the fields they show.         *)
LEMMA Frames ==
  /\ UNCHANGED availVars => AvailQ' = AvailQ
  /\ UNCHANGED usedVars => UsedQ' = UsedQ
  /\ UNCHANGED <<owner, desc>> => Place' = Place /\ Content' = Content
<1>1. UNCHANGED availVars => AvailQ' = AvailQ
  BY DEF availVars, AvailQ, Window, Pending, Slot
<1>2. UNCHANGED usedVars => UsedQ' = UsedQ
  BY DEF usedVars, UsedQ, Window, Pending, Slot
<1>3. UNCHANGED <<owner, desc>> => Place' = Place /\ Content' = Content
  BY DEF Place, Content
<1> QED
  BY <1>1, <1>2, <1>3

(* virtq_init leaves two empty queues and every descriptor free.           *)
LEMMA InitChannel == Init => Channel!CInit
<1> SUFFICES ASSUME Init PROVE Channel!CInit
  OBVIOUS
<1>1. Place = [d \in Desc |-> "free"] /\ Content = [d \in Desc |-> {}]
  BY DEF Init, Place, Content, Holder
<1>2. 0 \in Idx /\ Pending(0, 0) = 0
  BY QueueAssumption, PendingCases DEF Idx
<1>3. AvailQ = << >> /\ UsedQ = << >>
  BY <1>2 DEF Init, virtq_init, AvailQ, UsedQ, Window
<1> QED
  BY <1>1, <1>3 DEF Channel!CInit

(* virtq_get_free_desc_id takes a descriptor that nobody holds.            *)
LEMMA TakeImplemented ==
  ASSUME RefInv, virtq_get_free_desc_id
  PROVE  Channel!Take(desc_next_free)
<1> USE DEF RefInv, IndInv
<1> DEFINE id == desc_next_free
<1>1. id \in Desc /\ owner[id] = "free" /\ Move(id, "taken") /\ UNCHANGED desc
  BY GetFreeInv DEF virtq_get_free_desc_id, TypeOK
<1>2. Place[id] = "free" /\ Content[id] = {}
  BY <1>1 DEF Place, Content, Holder
<1> HIDE DEF id
<1>3. Place' = [Place EXCEPT ![id] = "driver"]
  BY <1>1, MovePlace DEF Places, Holder
<1>4. Content' = [Content EXCEPT ![id] = {}]
  BY <1>1, MoveContent DEF Places, Holder
<1>5. Content' = Content
  BY <1>2, <1>4 DEF Content
<1>6. AvailQ' = AvailQ /\ UsedQ' = UsedQ
  BY Frames DEF virtq_get_free_desc_id
<1> QED
  BY <1>2, <1>3, <1>5, <1>6 DEF Channel!Take, id

(* virtq_put_free_desc gives one of the driver's descriptors back.         *)
LEMMA ReturnImplemented ==
  ASSUME RefInv, NEW id \in Desc, virtq_put_free_desc(id)
  PROVE  Channel!Return(id)
<1> USE DEF RefInv, IndInv
<1>1. owner[id] = "reaped" /\ Move(id, "free")
  BY DEF virtq_put_free_desc
<1>2. \A e \in Desc \ {id} : desc'[e].buf = desc[e].buf
  BY DEF virtq_put_free_desc, TypeOK
<1>3. Place[id] = "driver" /\ Content[id] = {}
  BY <1>1 DEF Place, Content, Holder
<1>4. Place' = [Place EXCEPT ![id] = "free"]
  BY <1>1, MovePlace DEF Places, Holder
<1>5. Content' = [Content EXCEPT ![id] = {}]
  BY <1>1, <1>2, MoveContent DEF Places, Holder
<1>6. Content' = Content
  BY <1>3, <1>5 DEF Content
<1>7. AvailQ' = AvailQ /\ UsedQ' = UsedQ
  BY Frames DEF virtq_put_free_desc
<1> QED
  BY <1>3, <1>4, <1>6, <1>7 DEF Channel!Return

(* Filling a descriptor shows nothing to the other side ...                *)
LEMMA FillHidden ==
  ASSUME RefInv, NEW id \in Desc, NEW b \in Buffers, virtq_desc_init(id, b)
  PROVE  UNCHANGED Channel!cvars
<1> USE DEF RefInv, IndInv
<1>1. owner[id] = "taken" /\ Move(id, "filled")
  BY DEF virtq_desc_init
<1>2. \A e \in Desc \ {id} : desc'[e].buf = desc[e].buf
  BY DEF virtq_desc_init, TypeOK
<1>3. Place' = Place
  BY <1>1, MovePlace DEF Places, Holder
<1>4. Content[id] = {} /\ Content' = [Content EXCEPT ![id] = {}]
  <2>1. Content[id] = {}
    BY <1>1 DEF Content, Holder
  <2> QED
    BY <1>1, <1>2, <2>1, MoveContent DEF Places, Holder
<1>5. Content' = Content
  BY <1>4 DEF Content
<1>6. AvailQ' = AvailQ /\ UsedQ' = UsedQ
  BY Frames DEF virtq_desc_init
<1> QED
  BY <1>3, <1>5, <1>6 DEF Channel!cvars

(* ... nor does the ring entry stored ahead of avail->idx ...              *)
LEMMA AvailStoreHidden ==
  ASSUME RefInv, NEW id \in Desc, virtq_add_avail_buf_ring(id)
  PROVE  UNCHANGED Channel!cvars
<1> USE DEF RefInv, IndInv
<1>1. /\ owner[id] = "filled" /\ Move(id, "placed")
      /\ UNCHANGED <<desc, avail_idx, avail_last_idx, usedVars>>
      /\ avail_ring' = [avail_ring EXCEPT ![Slot(avail_idx)] = id]
  BY DEF virtq_add_avail_buf_ring, descVars
<1>2. Place' = Place
  BY <1>1, MovePlace DEF Places, Holder
<1>3. Content' = Content
  <2>1. Content[id] = {}
    BY <1>1 DEF Content, Holder
  <2>2. Content' = [Content EXCEPT ![id] = {}]
    BY <1>1, MoveContent DEF Places, Holder
  <2> QED
    BY <2>1, <2>2 DEF Content
<1>4. Pending(avail_idx, avail_last_idx) < VIRTQ_SIZE
  BY <1>1, WindowMisses DEF TypeOK, AvailWindowOK, At
<1>5. AvailQ' = AvailQ
  <2>1. avail_ring \in [Desc -> Desc] /\ avail_idx \in Idx /\ avail_last_idx \in Idx
    BY DEF TypeOK
  <2>2. Window([avail_ring EXCEPT ![Slot(avail_idx)] = id], avail_idx, avail_last_idx)
          = Window(avail_ring, avail_idx, avail_last_idx)
    BY <1>4, <2>1, QueueStore
  <2> QED  BY <1>1, <2>2 DEF AvailQ
<1>6. UsedQ' = UsedQ
  BY <1>1, Frames
<1> QED
  BY <1>2, <1>3, <1>5, <1>6 DEF Channel!cvars

(* ... nor the device's entry ahead of used->idx.                          *)
LEMMA UsedStoreHidden ==
  ASSUME RefInv, NEW id \in Desc, virtq_add_used_buf_ring(id)
  PROVE  UNCHANGED Channel!cvars
<1> USE DEF RefInv, IndInv
<1>1. /\ owner[id] = "device" /\ Move(id, "stored")
      /\ UNCHANGED <<desc, used_idx, last_used_idx, availVars>>
      /\ used_ring' = [used_ring EXCEPT ![Slot(used_idx)] = id]
  BY DEF virtq_add_used_buf_ring, descVars
<1>2. Place' = Place
  BY <1>1, MovePlace DEF Places, Holder
<1>3. Content' = Content
  <2>1. Content[id] = {desc[id].buf}
    BY <1>1 DEF Content, Holder
  <2>2. Content' = [Content EXCEPT ![id] = {desc[id].buf}]
    BY <1>1, MoveContent DEF Places, Holder
  <2> QED
    BY <2>1, <2>2 DEF Content
<1>4. Pending(used_idx, last_used_idx) < VIRTQ_SIZE
  BY <1>1, WindowMisses DEF TypeOK, UsedWindowOK, At
<1>5. UsedQ' = UsedQ
  <2>1. used_ring \in [Desc -> Desc] /\ used_idx \in Idx /\ last_used_idx \in Idx
    BY DEF TypeOK
  <2>2. Window([used_ring EXCEPT ![Slot(used_idx)] = id], used_idx, last_used_idx)
          = Window(used_ring, used_idx, last_used_idx)
    BY <1>4, <2>1, QueueStore
  <2> QED  BY <1>1, <2>2 DEF UsedQ
<1>6. AvailQ' = AvailQ
  BY <1>1, Frames
<1> QED
  BY <1>2, <1>3, <1>5, <1>6 DEF Channel!cvars

(* Advancing avail->idx offers the placed descriptor with its buffer.      *)
LEMMA OfferImplemented ==
  ASSUME RefInv, NEW id \in Desc, virtq_add_avail_buf_idx(id)
  PROVE  Channel!Offer(id, desc[id].buf) /\ desc[id].buf \in Buffers
<1> USE DEF RefInv, IndInv
<1>1. /\ owner[id] = "placed" /\ Move(id, "avail") /\ avail_idx' = Inc(avail_idx)
      /\ UNCHANGED <<desc, avail_ring, avail_last_idx, usedVars>>
  BY DEF virtq_add_avail_buf_idx, descVars
<1>2. Place[id] = "driver"
  BY <1>1 DEF Place, Holder
<1>3. Place' = [Place EXCEPT ![id] = "avail"]
  BY <1>1, MovePlace DEF Places, Holder
<1>4. Content' = [Content EXCEPT ![id] = {desc[id].buf}]
  BY <1>1, MoveContent DEF Places, Holder
<1>5. Pending(avail_idx, avail_last_idx) < VIRTQ_SIZE
  BY <1>1, WindowMisses DEF TypeOK, AvailWindowOK, At
<1>6. avail_ring[Slot(avail_idx)] = id
  BY <1>1 DEF AvailWindowOK, AheadOK, At
<1>7. AvailQ' = Append(AvailQ, id)
  BY <1>1, <1>5, <1>6, QueuePublish DEF AvailQ, TypeOK
<1>8. UsedQ' = UsedQ
  BY <1>1, Frames
<1> QED
  BY <1>1, <1>2, <1>3, <1>4, <1>7, <1>8 DEF Channel!Offer, ContentOK

(* Advancing used->idx completes the stored descriptor.                    *)
LEMMA CompleteImplemented ==
  ASSUME RefInv, NEW id \in Desc, virtq_add_used_buf_idx(id)
  PROVE  Channel!Complete(id)
<1> USE DEF RefInv, IndInv
<1>1. /\ owner[id] = "stored" /\ Move(id, "used") /\ used_idx' = Inc(used_idx)
      /\ UNCHANGED <<desc, used_ring, last_used_idx, availVars>>
  BY DEF virtq_add_used_buf_idx, descVars
<1>2. Place[id] = "device" /\ Content[id] = {desc[id].buf}
  BY <1>1 DEF Place, Content, Holder
<1>3. Place' = [Place EXCEPT ![id] = "used"]
  BY <1>1, MovePlace DEF Places, Holder
<1>4. Content' = [Content EXCEPT ![id] = {desc[id].buf}]
  BY <1>1, MoveContent DEF Places, Holder
<1>5. Content' = Content
  BY <1>2, <1>4 DEF Content
<1>6. Pending(used_idx, last_used_idx) < VIRTQ_SIZE
  BY <1>1, WindowMisses DEF TypeOK, UsedWindowOK, At
<1>7. used_ring[Slot(used_idx)] = id
  BY <1>1 DEF UsedWindowOK, AheadOK, At
<1>8. UsedQ' = Append(UsedQ, id)
  BY <1>1, <1>6, <1>7, QueuePublish DEF UsedQ, TypeOK
<1>9. AvailQ' = AvailQ
  BY <1>1, Frames
<1> QED
  BY <1>2, <1>3, <1>5, <1>8, <1>9 DEF Channel!Complete

(* virtq_get_avail_buf_id fetches the oldest offer.                        *)
LEMMA FetchImplemented ==
  ASSUME RefInv, virtq_get_avail_buf_id
  PROVE  Channel!Fetch
<1> USE DEF RefInv, IndInv
<1> DEFINE id == avail_ring[Slot(avail_last_idx)]
<1>1. /\ id \in Desc /\ owner[id] = "avail" /\ Move(id, "device")
      /\ avail_idx # avail_last_idx /\ avail_last_idx' = Inc(avail_last_idx)
      /\ UNCHANGED <<desc, avail_ring, avail_idx, usedVars>>
  <2>1. avail_last_idx \in Int
    BY QueueAssumption DEF TypeOK, Idx
  <2> QED
    BY <2>1, GetAvailInv, SlotType
       DEF virtq_get_avail_buf_id, virtq_avail_has_buf, descVars, TypeOK
<1>2. AvailQ # << >> /\ Head(AvailQ) = id /\ AvailQ' = Tail(AvailQ)
  BY <1>1, QueueConsume DEF AvailQ, TypeOK
<1>3. Content[id] = {desc[id].buf}
  BY <1>1 DEF Content, Holder
<1> HIDE DEF id
<1>4. Place' = [Place EXCEPT ![id] = "device"]
  BY <1>1, MovePlace DEF Places, Holder
<1>5. Content' = [Content EXCEPT ![id] = {desc[id].buf}]
  BY <1>1, MoveContent DEF Places, Holder
<1>6. Content' = Content
  BY <1>3, <1>5 DEF Content
<1>7. UsedQ' = UsedQ
  BY <1>1, Frames
<1> QED
  BY <1>2, <1>4, <1>6, <1>7 DEF Channel!Fetch

(* virtq_get_used_buf_id reaps the oldest completion.                      *)
LEMMA ReapImplemented ==
  ASSUME RefInv, virtq_get_used_buf_id
  PROVE  Channel!Reap
<1> USE DEF RefInv, IndInv
<1> DEFINE id == used_ring[Slot(last_used_idx)]
<1>1. /\ id \in Desc /\ owner[id] = "used" /\ Move(id, "reaped")
      /\ used_idx # last_used_idx /\ last_used_idx' = Inc(last_used_idx)
      /\ UNCHANGED <<desc, used_ring, used_idx, availVars>>
  <2>1. last_used_idx \in Int
    BY QueueAssumption DEF TypeOK, Idx
  <2> QED
    BY <2>1, GetUsedInv, SlotType
       DEF virtq_get_used_buf_id, virtq_used_has_buf, descVars, TypeOK
<1>2. UsedQ # << >> /\ Head(UsedQ) = id /\ UsedQ' = Tail(UsedQ)
  BY <1>1, QueueConsume DEF UsedQ, TypeOK
<1> HIDE DEF id
<1>3. Place' = [Place EXCEPT ![id] = "driver"]
  BY <1>1, MovePlace DEF Places, Holder
<1>4. Content' = [Content EXCEPT ![id] = {}]
  BY <1>1, MoveContent DEF Places, Holder
<1>5. AvailQ' = AvailQ
  BY <1>1, Frames
<1> QED
  BY <1>2, <1>3, <1>4, <1>5 DEF Channel!Reap

(* Every step of the rings is a step of the two queues or none.            *)
LEMMA NextChannel ==
  ASSUME RefInv, [Next]_vars
  PROVE  [Channel!CNext]_(Channel!cvars)
<1>1. CASE virtq_get_free_desc_id
  <2>1. desc_next_free \in Desc
    BY DEF RefInv, IndInv, TypeOK
  <2> QED
    BY <1>1, <2>1, TakeImplemented DEF Channel!CNext
<1>2. ASSUME NEW id \in Desc, NEW b \in Buffers, virtq_desc_init(id, b)
      PROVE  UNCHANGED Channel!cvars
  BY <1>2, FillHidden
<1>3. ASSUME NEW id \in Desc,
             virtq_add_avail_buf_ring(id) \/ virtq_add_used_buf_ring(id)
      PROVE  UNCHANGED Channel!cvars
  BY <1>3, AvailStoreHidden, UsedStoreHidden
<1>4. ASSUME NEW id \in Desc, virtq_add_avail_buf_idx(id)
      PROVE  Channel!CNext
  BY <1>4, OfferImplemented DEF Channel!CNext
<1>5. ASSUME NEW id \in Desc, virtq_add_used_buf_idx(id)
      PROVE  Channel!CNext
  BY <1>5, CompleteImplemented DEF Channel!CNext
<1>6. ASSUME NEW id \in Desc, virtq_put_free_desc(id)
      PROVE  Channel!CNext
  BY <1>6, ReturnImplemented DEF Channel!CNext
<1>7. CASE virtq_get_avail_buf_id
  BY <1>7, FetchImplemented DEF Channel!CNext
<1>8. CASE virtq_get_used_buf_id
  BY <1>8, ReapImplemented DEF Channel!CNext
<1>9. CASE UNCHANGED vars
  BY <1>9, Frames DEF vars, availVars, usedVars, Channel!cvars
<1> QED
  BY <1>1, <1>2, <1>3, <1>4, <1>5, <1>6, <1>7, <1>8, <1>9 DEF Next, Driver, Device

(* The virtqueue of virtio_queue.h implements a pair of lossless FIFO      *)
(* queues, for every queue size and every wrap of the ring indices.        *)
THEOREM ChannelRefined == Spec => ChannelSpec
<1>1. Init => RefInv
  <2>1. Init => ContentOK
    BY DEF Init, ContentOK
  <2> QED
    BY <2>1, InitInv DEF RefInv
<1>2. RefInv /\ [Next]_vars => RefInv'
  BY ContentInv, NextInv DEF RefInv
<1>3. RefInv /\ [Next]_vars => [Channel!CNext]_(Channel!cvars)
  BY NextChannel
<1> QED
  BY <1>1, <1>2, <1>3, InitChannel, PTL DEF Spec, ChannelSpec, Channel!CSpec
=============================================================================
