------------------------ MODULE VirtioConsoleTxProofs ------------------------
(***************************************************************************)
(* VirtioConsoleTx for any queue size, CPUs and blocks, when the           *)
(* application keeps the interrupt handler out of transmit (Handler =      *)
(* "excluded"): the free list, the rings and the memory pool stay          *)
(* consistent although virtio_console_receive takes no lock.               *)
(***************************************************************************)
EXTENDS VirtioConsoleTx, FiniteSetTheorems, SequenceTheorems, TLAPS

TxSteps == {"idle", "head", "link", "load", "store", "alloc", "offer", "unlock", "aborted"}
RxSteps == {"idle", "ack", "rxq", "used", "link", "head", "load", "store", "free", "aborted"}
Causes  == {"VRING", "CONFIG"}

(* The values of the state, however the handler runs.                      *)
TypeOK ==
  /\ disturbed \in BOOLEAN
  /\ free \in [next : [Desc -> Desc], head : Desc, num : Int]
  /\ addr \in [Desc -> Blocks \cup {None}]
  /\ pool \subseteq Blocks
  /\ availQ \in Seq(Desc) /\ usedQ \in Seq(Desc) /\ held \subseteq Desc
  /\ InterruptStatus \subseteq Causes
  /\ tx_lock \in Cpus \cup {None}
  /\ tx \in [Cpus -> [pc : TxSteps, id : Desc, num : Int]]
  /\ rx \in [pc : RxSteps, id : Desc, num : Int, stat : SUBSET Causes]
  /\ leaked \subseteq Desc

(* One CPU is inside transmit, and then the handler is not running.        *)
LockInv ==
  /\ \A c \in Cpus : tx[c].pc # "idle" <=> tx_lock = c
  /\ tx_lock # None => rx.pc = "idle"

(* What was loaded from the free list is not stale.                        *)
LoadedInv ==
  /\ \A c \in Cpus :
       /\ tx[c].pc = "link" => free.num # 0 /\ tx[c].id = free.head
       /\ tx[c].pc = "store" => tx[c].num = free.num
       /\ tx[c].pc = "aborted" => free.num = 0
  /\ rx.pc = "head" => free.next[rx.id] = free.head
  /\ rx.pc = "store" => rx.num = free.num

(* A descriptor is in one ring at most, and once.                          *)
Once(s) == \A i, j \in 1 .. Len(s) : s[i] = s[j] => i = j

RingInv ==
  /\ Once(availQ) /\ Once(usedQ)
  /\ Elements(availQ) \cap held = {}
  /\ Elements(availQ) \cap Elements(usedQ) = {}
  /\ held \cap Elements(usedQ) = {}

(* The n descriptors of S are linked up from head.                         *)
Chain(next, head, n, S) ==
  /\ n \in Nat
  /\ \E ch \in [1 .. n -> S] :
       /\ \A k, l \in 1 .. n : ch[k] = ch[l] => k = l
       /\ \A d \in S : \E k \in 1 .. n : ch[k] = d
       /\ n > 0 => ch[1] = head
       /\ \A k \in 1 .. n - 1 : next[ch[k]] = ch[k + 1]

(* The allocated blocks are those of the descriptors of S, one each.       *)
Allocated(S) ==
  /\ pool = {addr[d] : d \in S}
  /\ \A d, e \in S : addr[d] = addr[e] => d = e

(***************************************************************************)
(* Descriptors "taken" off the free list are in the hands of a CPU, n are  *)
(* linked up, and those in "filled" have a block that no ring knows of.    *)
(***************************************************************************)
Shape(taken, n, filled) ==
  /\ (taken \cup filled \cup Outstanding) \cap leaked = {}
  /\ (taken \cup filled) \cap Outstanding = {}
  /\ Chain(free.next, free.head, n, Desc \ (Outstanding \cup leaked \cup taken))
  /\ Allocated(Outstanding \cup filled)

TxShape(t) ==
  /\ t.pc \in {"head", "link", "unlock", "aborted"} => Shape({}, free.num, {})
  /\ t.pc \in {"load", "store"} => Shape({t.id}, free.num - 1, {})
  /\ t.pc = "alloc" => Shape({t.id}, free.num, {})
  /\ t.pc = "offer" => Shape({t.id}, free.num, {t.id})

RxShape ==
  /\ rx.pc \in {"idle", "ack", "rxq", "used"} => Shape({}, free.num, {})
  /\ rx.pc \in {"link", "head"} => Shape({rx.id}, free.num, {rx.id})
  /\ rx.pc \in {"load", "store"} => Shape({}, free.num + 1, {rx.id})
  /\ rx.pc = "free" => Shape({}, free.num, {rx.id})

ShapeInv ==
  /\ \A c \in Cpus : tx_lock = c => TxShape(tx[c])
  /\ tx_lock = None => RxShape

IndInv == TypeOK /\ LockInv /\ LoadedInv /\ RingInv /\ ShapeInv /\ PutAssertHolds
-----------------------------------------------------------------------------
(* The free list: taking the first descriptor off it ...                   *)
LEMMA ChainPop ==
  ASSUME NEW next, NEW head, NEW n \in Nat \ {0}, NEW S, Chain(next, head, n, S)
  PROVE  head \in S /\ Chain(next, next[head], n - 1, S \ {head})
<1>1. PICK ch \in [1 .. n -> S] :
        /\ \A k, l \in 1 .. n : ch[k] = ch[l] => k = l
        /\ \A d \in S : \E k \in 1 .. n : ch[k] = d
        /\ n > 0 => ch[1] = head
        /\ \A k \in 1 .. n - 1 : next[ch[k]] = ch[k + 1]
  BY DEF Chain
<1>2. 1 \in 1 .. n /\ ch[1] = head /\ head \in S
  BY <1>1
<1> DEFINE m == n - 1
           tl == [k \in 1 .. m |-> ch[k + 1]]
<1>3. m \in Nat /\ \A k \in 1 .. m : k + 1 \in 1 .. n /\ k + 1 # 1
  OBVIOUS
<1>4. tl \in [1 .. m -> S \ {head}]
  BY <1>1, <1>2, <1>3
<1>5. \A k, l \in 1 .. m : tl[k] = tl[l] => k = l
  <2> SUFFICES ASSUME NEW k \in 1 .. m, NEW l \in 1 .. m, tl[k] = tl[l] PROVE k = l
    OBVIOUS
  <2>1. k + 1 = l + 1
    BY <1>1, <1>3
  <2> QED
    BY <2>1
<1>6. \A d \in S \ {head} : \E k \in 1 .. m : tl[k] = d
  <2> SUFFICES ASSUME NEW d \in S \ {head} PROVE \E k \in 1 .. m : tl[k] = d
    OBVIOUS
  <2>1. PICK k \in 1 .. n : ch[k] = d
    BY <1>1
  <2>2. k # 1
    BY <1>2, <2>1
  <2>3. k - 1 \in 1 .. m /\ (k - 1) + 1 = k
    BY <2>2
  <2> QED
    BY <2>1, <2>3
<1>7. m > 0 => tl[1] = next[head]
  <2> SUFFICES ASSUME m > 0 PROVE tl[1] = next[head]
    OBVIOUS
  <2>1. 1 \in 1 .. n - 1 /\ 1 \in 1 .. m /\ 1 + 1 = 2
    OBVIOUS
  <2> QED
    BY <1>1, <1>2, <2>1
<1>8. \A k \in 1 .. m - 1 : next[tl[k]] = tl[k + 1]
  <2> SUFFICES ASSUME NEW k \in 1 .. m - 1 PROVE next[tl[k]] = tl[k + 1]
    OBVIOUS
  <2>1. k \in 1 .. m /\ k + 1 \in 1 .. m /\ k + 1 \in 1 .. n - 1
    BY <1>3
  <2> QED
    BY <1>1, <2>1
<1> HIDE DEF tl
<1> QED
  BY <1>2, <1>3, <1>4, <1>5, <1>6, <1>7, <1>8 DEF Chain

(* ... putting one in front ...                                            *)
LEMMA ChainPush ==
  ASSUME NEW next, NEW head, NEW n, NEW S, Chain(next, head, n, S),
         NEW d, d \notin S, next[d] = head
  PROVE  Chain(next, d, n + 1, S \cup {d})
<1>1. n \in Nat
  BY DEF Chain
<1>2. PICK ch \in [1 .. n -> S] :
        /\ \A k, l \in 1 .. n : ch[k] = ch[l] => k = l
        /\ \A e \in S : \E k \in 1 .. n : ch[k] = e
        /\ n > 0 => ch[1] = head
        /\ \A k \in 1 .. n - 1 : next[ch[k]] = ch[k + 1]
  BY DEF Chain
<1> DEFINE m == n + 1
           lg == [k \in 1 .. m |-> IF k = 1 THEN d ELSE ch[k - 1]]
<1>3. m \in Nat /\ 1 \in 1 .. m /\ \A k \in 1 .. m : k # 1 => k - 1 \in 1 .. n
  BY <1>1
<1>4. lg \in [1 .. m -> S \cup {d}]
  BY <1>2, <1>3
<1>5. \A k, l \in 1 .. m : lg[k] = lg[l] => k = l
  <2> SUFFICES ASSUME NEW k \in 1 .. m, NEW l \in 1 .. m, lg[k] = lg[l] PROVE k = l
    OBVIOUS
  <2>1. CASE k = 1 \/ l = 1
    <3>1. \A j \in 1 .. m : j # 1 => lg[j] \in S
      BY <1>2, <1>3
    <3> QED
      BY <1>3, <2>1, <3>1
  <2>2. CASE k # 1 /\ l # 1
    <3>1. k - 1 = l - 1
      BY <1>2, <1>3, <2>2
    <3> QED
      BY <3>1
  <2> QED
    BY <2>1, <2>2
<1>6. \A e \in S \cup {d} : \E k \in 1 .. m : lg[k] = e
  <2> SUFFICES ASSUME NEW e \in S PROVE \E k \in 1 .. m : lg[k] = e
    BY <1>3
  <2>1. PICK k \in 1 .. n : ch[k] = e
    BY <1>2
  <2>2. k + 1 \in 1 .. m /\ k + 1 # 1 /\ (k + 1) - 1 = k
    BY <1>1
  <2> QED
    BY <2>1, <2>2
<1>7. lg[1] = d
  BY <1>3
<1>8. \A k \in 1 .. m - 1 : next[lg[k]] = lg[k + 1]
  <2> SUFFICES ASSUME NEW k \in 1 .. m - 1 PROVE next[lg[k]] = lg[k + 1]
    OBVIOUS
  <2>1. k \in 1 .. m /\ k + 1 \in 1 .. m /\ k + 1 # 1 /\ (k + 1) - 1 = k /\ k \in 1 .. n
    BY <1>1
  <2>2. lg[k + 1] = ch[k]
    BY <2>1
  <2>3. CASE k = 1
    <3>1. n > 0 /\ lg[k] = d /\ lg[k + 1] = ch[1]
      BY <1>1, <1>7, <2>1, <2>2, <2>3
    <3> QED
      BY <1>2, <3>1
  <2>4. CASE k # 1
    <3>1. k - 1 \in 1 .. n - 1 /\ (k - 1) + 1 = k /\ lg[k] = ch[k - 1]
      BY <1>1, <2>1, <2>4
    <3> QED
      BY <1>2, <2>2, <3>1
  <2> QED
    BY <2>3, <2>4
<1> HIDE DEF lg
<1> QED
  BY <1>3, <1>4, <1>5, <1>6, <1>7, <1>8 DEF Chain

(* ... and a change of a link elsewhere.                                   *)
LEMMA ChainElsewhere ==
  ASSUME NEW next \in [Desc -> Desc], NEW head, NEW n, NEW S, S \subseteq Desc,
         Chain(next, head, n, S), NEW d \in Desc, d \notin S, NEW v
  PROVE  Chain([next EXCEPT ![d] = v], head, n, S)
<1> DEFINE nx == [next EXCEPT ![d] = v]
<1>1. \A e \in S : nx[e] = next[e]
  OBVIOUS
<1> HIDE DEF nx
<1>2. n \in Nat
  BY DEF Chain
<1>3. \A k \in 1 .. n - 1 : k \in 1 .. n
  BY <1>2
<1> QED
  BY <1>1, <1>3 DEF Chain, nx

(* It holds as many descriptors as it is long.                             *)
LEMMA ChainLength ==
  ASSUME NEW next, NEW head, NEW n, NEW S, Chain(next, head, n, S)
  PROVE  n \in Nat /\ IsFiniteSet(S) /\ Cardinality(S) = n
<1>1. n \in Nat
  BY DEF Chain
<1>2. PICK ch \in [1 .. n -> S] :
        /\ \A k, l \in 1 .. n : ch[k] = ch[l] => k = l
        /\ \A e \in S : \E k \in 1 .. n : ch[k] = e
  BY DEF Chain
<1>3. ch \in Bijection(1 .. n, S)
  BY <1>2 DEF Bijection, Injection, Surjection, IsInjective
<1>4. IsFiniteSet(1 .. n) /\ Cardinality(1 .. n) = n
  BY <1>1, FS_Interval
<1> QED
  BY <1>1, <1>3, <1>4, FS_Bijection DEF ExistsBijection

LEMMA DescFinite == IsFiniteSet(Desc) /\ Cardinality(Desc) = VIRTQ_SIZE
<1>1. 0 \in Int /\ VIRTQ_SIZE - 1 \in Int /\ ~(0 > VIRTQ_SIZE - 1)
  BY ConsoleTxAssumption
<1>2. Cardinality(Desc) = (VIRTQ_SIZE - 1) - 0 + 1 /\ IsFiniteSet(Desc)
  BY <1>1, FS_Interval DEF Desc
<1> QED
  BY <1>2, ConsoleTxAssumption

-----------------------------------------------------------------------------
(* The rings.                                                              *)
LEMMA RingAppend ==
  ASSUME NEW s \in Seq(Desc), NEW d \in Desc
  PROVE  /\ Append(s, d) \in Seq(Desc)
         /\ Elements(Append(s, d)) = Elements(s) \cup {d}
         /\ Once(s) /\ d \notin Elements(s) => Once(Append(s, d))
<1> DEFINE n == Len(s)
           t == Append(s, d)
<1>1. /\ n \in Nat /\ DOMAIN s = 1 .. n
      /\ t \in Seq(Desc) /\ Len(t) = n + 1 /\ t[n + 1] = d
      /\ \A i \in 1 .. n : t[i] = s[i]
  BY AppendProperties, LenProperties
<1>2. DOMAIN t = 1 .. n + 1
  BY <1>1, LenProperties
<1> HIDE DEF t, n
<1>3. \A i \in 1 .. n + 1 : i \in 1 .. n \/ i = n + 1
  BY <1>1
<1>4. /\ \A i \in 1 .. n : i \in 1 .. n + 1
      /\ n + 1 \in 1 .. n + 1
  BY <1>1
<1>5. Elements(t) = Elements(s) \cup {d}
  BY <1>1, <1>2, <1>3, <1>4 DEF Elements
<1>6. ASSUME Once(s), d \notin Elements(s) PROVE Once(t)
  <2>1. \A i \in 1 .. n : s[i] # d
    BY <1>1, <1>6 DEF Elements
  <2>2. \A i, j \in 1 .. n : s[i] = s[j] => i = j
    BY <1>6 DEF Once, n
  <2> QED
    BY <1>1, <1>3, <2>1, <2>2 DEF Once
<1> QED
  BY <1>1, <1>5, <1>6 DEF t

LEMMA RingTail ==
  ASSUME NEW s \in Seq(Desc), s # << >>, Once(s)
  PROVE  /\ Tail(s) \in Seq(Desc) /\ Head(s) \in Elements(s) /\ Head(s) \in Desc
         /\ Elements(Tail(s)) = Elements(s) \ {Head(s)}
         /\ Once(Tail(s))
<1> DEFINE n == Len(s)
           t == Tail(s)
<1>1. /\ n \in Nat \ {0} /\ DOMAIN s = 1 .. n /\ Head(s) = s[1]
      /\ t \in Seq(Desc) /\ Len(t) = n - 1
      /\ \A i \in 1 .. n - 1 : t[i] = s[i + 1]
  BY HeadTailProperties, LenProperties, EmptySeq
<1>2. DOMAIN t = 1 .. n - 1
  BY <1>1, LenProperties
<1>3. \A i, j \in 1 .. n : s[i] = s[j] => i = j
  BY DEF Once
<1> HIDE DEF t, n
<1>4. 1 \in 1 .. n /\ \A i \in 1 .. n - 1 : i + 1 \in 1 .. n /\ i + 1 # 1
  BY <1>1
<1>5. \A i \in 1 .. n : i # 1 => i - 1 \in 1 .. n - 1 /\ (i - 1) + 1 = i
  BY <1>1
<1>6. s[1] \in Elements(s) /\ s[1] \in Desc
  BY <1>1, <1>4, ElementOfSeq DEF Elements, n
<1>7. ASSUME NEW d PROVE d \in Elements(t) <=> d \in Elements(s) \ {s[1]}
  <2>1. ASSUME d \in Elements(t) PROVE d \in Elements(s) \ {s[1]}
    <3>1. PICK i \in 1 .. n - 1 : d = t[i]
      BY <1>2, <2>1 DEF Elements
    <3>2. d = s[i + 1] /\ i + 1 \in 1 .. n /\ i + 1 # 1
      BY <1>1, <1>4, <3>1
    <3> QED
      BY <1>1, <1>3, <1>4, <3>2 DEF Elements
  <2>2. ASSUME d \in Elements(s) \ {s[1]} PROVE d \in Elements(t)
    <3>1. PICK i \in 1 .. n : d = s[i]
      BY <1>1, <2>2 DEF Elements
    <3>2. i - 1 \in 1 .. n - 1 /\ (i - 1) + 1 = i
      BY <1>5, <2>2, <3>1
    <3>3. t[i - 1] = d
      BY <1>1, <3>1, <3>2
    <3> QED
      BY <1>2, <3>2, <3>3 DEF Elements
  <2> QED
    BY <2>1, <2>2
<1>8. Once(t)
  <2> SUFFICES ASSUME NEW i \in 1 .. n - 1, NEW j \in 1 .. n - 1, t[i] = t[j] PROVE i = j
    BY <1>1 DEF Once
  <2>1. i + 1 = j + 1
    BY <1>1, <1>3, <1>4
  <2> QED
    BY <1>1, <2>1
<1> QED
  BY <1>1, <1>6, <1>7, <1>8 DEF t

LEMMA RingLength ==
  ASSUME NEW s \in Seq(Desc), Once(s)
  PROVE  IsFiniteSet(Elements(s)) /\ Cardinality(Elements(s)) = Len(s)
<1>1. Len(s) \in Nat /\ DOMAIN s = 1 .. Len(s) /\ s \in [1 .. Len(s) -> Desc]
  BY LenProperties
<1>2. s \in Bijection(1 .. Len(s), Elements(s))
  BY <1>1 DEF Bijection, Injection, Surjection, IsInjective, Elements, Once
<1>3. IsFiniteSet(1 .. Len(s)) /\ Cardinality(1 .. Len(s)) = Len(s)
  BY <1>1, FS_Interval
<1> QED
  BY <1>2, <1>3, FS_Bijection DEF ExistsBijection

(* What is in the rings are descriptors.                                   *)
LEMMA RingDesc ==
  ASSUME NEW s \in Seq(Desc)
  PROVE  Elements(s) \subseteq Desc
  BY LenProperties DEF Elements

-----------------------------------------------------------------------------
(* virtq_init links the descriptors up in order.                           *)
LEMMA ChainInit ==
  Chain([d \in Desc |-> IF d = VIRTQ_SIZE - 1 THEN 0 ELSE d + 1], 0, VIRTQ_SIZE, Desc)
<1> DEFINE next == [d \in Desc |-> IF d = VIRTQ_SIZE - 1 THEN 0 ELSE d + 1]
           ch == [k \in 1 .. VIRTQ_SIZE |-> k - 1]
<1>1. VIRTQ_SIZE \in Nat /\ VIRTQ_SIZE > 0
  BY ConsoleTxAssumption
<1>2. \A k \in 1 .. VIRTQ_SIZE : k - 1 \in Desc
  BY <1>1 DEF Desc
<1>3. ch \in [1 .. VIRTQ_SIZE -> Desc]
  BY <1>2
<1>4. \A k, l \in 1 .. VIRTQ_SIZE : ch[k] = ch[l] => k = l
  BY <1>1
<1>5. \A d \in Desc : \E k \in 1 .. VIRTQ_SIZE : ch[k] = d
  <2> SUFFICES ASSUME NEW d \in Desc PROVE \E k \in 1 .. VIRTQ_SIZE : ch[k] = d
    OBVIOUS
  <2>1. d + 1 \in 1 .. VIRTQ_SIZE /\ (d + 1) - 1 = d
    BY <1>1 DEF Desc
  <2> QED
    BY <2>1
<1>6. ch[1] = 0
  BY <1>1
<1>7. \A k \in 1 .. VIRTQ_SIZE - 1 : next[ch[k]] = ch[k + 1]
  <2> SUFFICES ASSUME NEW k \in 1 .. VIRTQ_SIZE - 1 PROVE next[ch[k]] = ch[k + 1]
    OBVIOUS
  <2>1. /\ k \in 1 .. VIRTQ_SIZE /\ k + 1 \in 1 .. VIRTQ_SIZE /\ k - 1 \in Desc
        /\ k - 1 # VIRTQ_SIZE - 1 /\ (k - 1) + 1 = k /\ (k + 1) - 1 = k
    BY <1>1 DEF Desc
  <2>2. ch[k] = k - 1 /\ ch[k + 1] = k
    BY <2>1
  <2> QED
    BY <2>1, <2>2
<1> HIDE DEF ch, next
<1>8. Chain(next, 0, VIRTQ_SIZE, Desc)
  BY <1>1, <1>3, <1>4, <1>5, <1>6, <1>7 DEF Chain
<1> QED
  BY <1>8 DEF next

LEMMA InitInv == Init => IndInv
<1> SUFFICES ASSUME Init PROVE IndInv
  OBVIOUS
<1> USE ConsoleTxAssumption
<1>1. 0 \in Desc
  BY DEF Desc
<1>2. [d \in Desc |-> IF d = VIRTQ_SIZE - 1 THEN 0 ELSE d + 1] \in [Desc -> Desc]
  BY DEF Desc
<1>3. TypeOK
  BY <1>1, <1>2, EmptySeq DEF Init, TypeOK, TxSteps, RxSteps, Causes
<1>4. Elements(availQ) = {} /\ Elements(usedQ) = {} /\ Outstanding = {}
  BY EmptySeq DEF Init, Elements, Outstanding
<1>5. LockInv /\ LoadedInv /\ PutAssertHolds
  BY DEF Init, LockInv, LoadedInv, PutAssertHolds
<1>6. RingInv
  BY <1>4, EmptySeq DEF Init, RingInv, Once
<1>7. Chain(free.next, free.head, free.num, Desc)
  BY ChainInit DEF Init
<1>8. Shape({}, free.num, {})
  <2>1. Desc \ (Outstanding \cup leaked \cup {}) = Desc
    BY <1>4 DEF Init
  <2>2. pool = {addr[d] : d \in Outstanding \cup {}}
    BY <1>4 DEF Init
  <2> QED
    BY <1>4, <1>7, <2>1, <2>2 DEF Init, Shape, Allocated
<1>9. ShapeInv
  BY <1>8 DEF Init, ShapeInv, RxShape
<1> QED
  BY <1>3, <1>5, <1>6, <1>9 DEF IndInv

-----------------------------------------------------------------------------
(* Types, for every way of running the handler.                            *)
LEMMA TypeInit == Init => TypeOK
  BY InitInv DEF IndInv

LEMMA TypeTransmit ==
  ASSUME TypeOK, NEW c \in Cpus, TxLock(c) \/ TransmitRest(c)
  PROVE  TypeOK'
<1> USE DEF TypeOK, memVars, devVars, At, TxSteps
<1>0. /\ free.next \in [Desc -> Desc] /\ free.head \in Desc /\ free.num \in Int
      /\ tx[c].id \in Desc /\ tx[c].num \in Int
  OBVIOUS
<1>1. CASE TxLock(c)
  BY <1>1 DEF TxLock
<1>9. CASE GetFreeAborts(c)
  BY <1>9 DEF GetFreeAborts
<1>10. CASE TxUnlock(c)
  BY <1>10 DEF TxUnlock
<1>7. CASE GetFreeHead(c)
  <2>1. tx' = [tx EXCEPT ![c].pc = "link", ![c].id = free.head]
    BY <1>7 DEF GetFreeHead
  <2>2. tx' \in [Cpus -> [pc : TxSteps, id : Desc, num : Int]]
    <3>1. ASSUME NEW d \in Desc
          PROVE  [tx EXCEPT ![c].pc = "link", ![c].id = d]
                   \in [Cpus -> [pc : TxSteps, id : Desc, num : Int]]
      OBVIOUS
    <3> QED  BY <1>0, <2>1, <3>1, Zenon
  <2>3. UNCHANGED <<disturbed, free, memVars, devVars, tx_lock, rx, leaked>>
    BY <1>7 DEF GetFreeHead
  <2> QED  BY <2>2, <2>3
<1>8. CASE GetFreeLoad(c)
  BY <1>0, <1>8 DEF GetFreeLoad
<1>2. CASE GetFreeLink(c)
  BY <1>2 DEF GetFreeLink
<1>3. CASE GetFreeStore(c)
  <2>1. tx[c].num - 1 \in Int
    BY <1>0
  <2>2. free' \in [next : [Desc -> Desc], head : Desc, num : Int]
    BY <1>3, <2>1 DEF GetFreeStore
  <2>3. tx' \in [Cpus -> [pc : TxSteps, id : Desc, num : Int]]
    <3>2. PICK z \in Int : z = 0
      OBVIOUS
    <3>1. tx' = [tx EXCEPT ![c].pc = "alloc", ![c].num = z]
      BY <1>3, <3>2 DEF GetFreeStore
    <3> QED
      BY <3>1
  <2> QED
    BY <1>3, <2>2, <2>3 DEF GetFreeStore
<1>4. CASE AllocFails(c)
  <2>1. 0 \in Desc
    BY ConsoleTxAssumption DEF Desc
  <2>2. tx[c].id \in Desc
    BY <1>0
  <2>3. tx' = [tx EXCEPT ![c].pc = "idle", ![c].id = 0]
    BY <1>4 DEF AllocFails
  <2>4. tx' \in [Cpus -> [pc : TxSteps, id : Desc, num : Int]]
    <3>1. ASSUME NEW d \in Desc
          PROVE  [tx EXCEPT ![c].pc = "idle", ![c].id = d]
                   \in [Cpus -> [pc : TxSteps, id : Desc, num : Int]]
      OBVIOUS
    <3> QED  BY <2>1, <2>3, <3>1, Zenon
  <2>5. leaked' \subseteq Desc /\ tx_lock' \in Cpus \cup {None}
    BY <1>4, <2>2 DEF AllocFails
  <2>6. UNCHANGED <<disturbed, free, memVars, devVars, rx>>
    BY <1>4, Zenon DEF AllocFails
  <2> QED  BY <2>4, <2>5, <2>6
<1>5. CASE FillDesc(c)
  <2>1. 0 \in Desc
    BY ConsoleTxAssumption DEF Desc
  <2> QED
    <3>1. [free.next EXCEPT ![tx[c].id] = 0] \in [Desc -> Desc]
      BY <1>0, <2>1
    <3>2. free' = [free EXCEPT !.next = [free.next EXCEPT ![tx[c].id] = 0]]
      BY <1>5 DEF FillDesc
    <3>3. free' \in [next : [Desc -> Desc], head : Desc, num : Int]
      BY <3>1, <3>2
    <3>4. addr' \in [Desc -> Blocks \cup {None}] /\ pool' \subseteq Blocks
      BY <1>5 DEF FillDesc
    <3>5. tx' \in [Cpus -> [pc : TxSteps, id : Desc, num : Int]]
      <4>1. tx' = [tx EXCEPT ![c].pc = "offer"]
        BY <1>5 DEF FillDesc
      <4> QED
        BY <4>1
    <3>6. UNCHANGED <<disturbed, availQ, usedQ, held, InterruptStatus, tx_lock, rx, leaked>>
      BY <1>5 DEF FillDesc
    <3> QED
      BY <3>3, <3>4, <3>5, <3>6
<1>6. CASE Offer(c)
  <2>1. 0 \in Desc
    BY ConsoleTxAssumption DEF Desc
  <2>2. tx[c].id \in Desc
    BY <1>0
  <2>3. tx' = [tx EXCEPT ![c].pc = "unlock", ![c].id = 0]
    BY <1>6 DEF Offer
  <2>4. tx' \in [Cpus -> [pc : TxSteps, id : Desc, num : Int]]
    <3>1. ASSUME NEW d \in Desc
          PROVE  [tx EXCEPT ![c].pc = "unlock", ![c].id = d]
                   \in [Cpus -> [pc : TxSteps, id : Desc, num : Int]]
      OBVIOUS
    <3> QED  BY <2>1, <2>3, <3>1, Zenon
  <2>5. availQ' \in Seq(Desc)
    BY <1>6, <2>2, RingAppend DEF Offer
  <2>6. UNCHANGED <<disturbed, free, memVars, usedQ, held, InterruptStatus, tx_lock, rx, leaked>>
    BY <1>6, Zenon DEF Offer
  <2> QED  BY <2>4, <2>5, <2>6
<1> QED
  BY <1>1, <1>2, <1>3, <1>4, <1>5, <1>6, <1>7, <1>8, <1>9, <1>10
  DEF TransmitRest

LEMMA TypeReceive ==
  ASSUME TypeOK, HandlerEnter \/ ReceiveRest
  PROVE  TypeOK'
<1> USE DEF TypeOK, memVars, devVars, RxSteps
<1>0. 0 \in Desc
  BY ConsoleTxAssumption DEF Desc
<1>6. /\ free.next \in [Desc -> Desc] /\ free.head \in Desc /\ free.num \in Int
      /\ rx.id \in Desc /\ rx.num \in Int /\ rx.num + 1 \in Int
  OBVIOUS
<1>1. CASE HandlerEnter \/ HandlerAck \/ HandlerRxQueue \/ HandlerLeave
  BY <1>1 DEF HandlerEnter, HandlerAck, HandlerRxQueue, HandlerLeave
<1>2. CASE GetUsed
  BY <1>2, HeadTailProperties DEF GetUsed
<1>3. CASE PutFreeLink
  <2>1. [free.next EXCEPT ![rx.id] = free.head] \in [Desc -> Desc]
    BY <1>6
  <2>2. \/ free' = [free EXCEPT !.next = [free.next EXCEPT ![rx.id] = free.head]]
        \/ free' = free
    BY <1>3 DEF PutFreeLink
  <2>3. free' \in [next : [Desc -> Desc], head : Desc, num : Int]
    <3>1. ASSUME NEW f \in [Desc -> Desc]
          PROVE  [free EXCEPT !.next = f] \in [next : [Desc -> Desc], head : Desc, num : Int]
      OBVIOUS
    <3> QED  BY <2>1, <2>2, <3>1, Zenon
  <2>4. rx' \in [pc : RxSteps, id : Desc, num : Int, stat : SUBSET Causes]
    BY <1>3 DEF PutFreeLink
  <2>5. UNCHANGED <<disturbed, memVars, devVars, tx_lock, tx, leaked>>
    BY <1>3 DEF PutFreeLink
  <2> QED
    BY <2>3, <2>4, <2>5
<1>4. CASE PutFreeHead \/ PutFreeLoad
  BY <1>4, <1>6 DEF PutFreeHead, PutFreeLoad
<1>7. CASE PutFreeStore
  <2>1. free' \in [next : [Desc -> Desc], head : Desc, num : Int]
    BY <1>6, <1>7 DEF PutFreeStore
  <2>2. rx' \in [pc : RxSteps, id : Desc, num : Int, stat : SUBSET Causes]
    <3>2. PICK z \in Int : z = 0
      OBVIOUS
    <3>1. rx' = [rx EXCEPT !.pc = "free", !.num = z]
      BY <1>7, <3>2 DEF PutFreeStore
    <3> QED
      BY <3>1
  <2> QED
    BY <1>7, <2>1, <2>2 DEF PutFreeStore
<1>5. CASE PoolFree
  BY <1>0, <1>5 DEF PoolFree
<1> QED
  BY <1>1, <1>2, <1>3, <1>4, <1>5, <1>7 DEF ReceiveRest

LEMMA TypeDevice ==
  ASSUME TypeOK, DeviceFetch \/ DeviceConfig \/ \E d \in Desc : DeviceComplete(d)
  PROVE  TypeOK'
<1> USE DEF TypeOK, memVars, devVars, Causes
<1>1. CASE DeviceFetch
  BY <1>1, HeadTailProperties DEF DeviceFetch
<1>2. CASE DeviceConfig
  BY <1>2 DEF DeviceConfig
<1>3. CASE \E d \in Desc : DeviceComplete(d)
  BY <1>3, RingAppend DEF DeviceComplete
<1> QED
  BY <1>1, <1>2, <1>3

(* Every step keeps the types: indices stay within the descriptor table    *)
(* although the handler may run in the middle of transmit.                 *)
THEOREM TypeCorrect == Spec => []TypeOK
<1>1. TypeOK /\ [Next]_vars => TypeOK'
  <2> SUFFICES ASSUME TypeOK, [Next]_vars PROVE TypeOK'
    OBVIOUS
  <2>1. CASE UNCHANGED vars
    BY <2>1 DEF vars, TypeOK
  <2>2. CASE Next
    BY <2>2, TypeTransmit, TypeReceive, TypeDevice DEF Next
  <2> QED
    BY <2>1, <2>2
<1> QED
  BY <1>1, TypeInit, PTL DEF Spec

-----------------------------------------------------------------------------
(* A CPU inside transmit is alone, and the handler is not running ...      *)
LEMMA InTransmit ==
  ASSUME IndInv, NEW c \in Cpus, tx[c].pc # "idle"
  PROVE  /\ tx_lock = c /\ c # None /\ rx.pc = "idle"
         /\ \A d \in Cpus \ {c} : tx[d].pc = "idle"
         /\ TxShape(tx[c])
  BY ConsoleTxAssumption DEF IndInv, LockInv, ShapeInv

(* ... so a step of it has only its own part of the invariant to restore.  *)
LEMMA TransmitStep ==
  ASSUME IndInv, TypeOK', NEW c \in Cpus, tx[c].pc # "idle",
         rx' = rx, tx_lock' = c, \A d \in Cpus \ {c} : tx'[d] = tx[d],
         tx'[c].pc # "idle",
         tx'[c].pc = "link" => free'.num # 0 /\ tx'[c].id = free'.head,
         tx'[c].pc = "store" => tx'[c].num = free'.num,
         tx'[c].pc = "aborted" => free'.num = 0,
         RingInv', TxShape(tx[c])'
  PROVE  IndInv'
<1>1. /\ tx_lock = c /\ c # None /\ rx.pc = "idle"
      /\ \A d \in Cpus \ {c} : tx[d].pc = "idle"
  BY InTransmit
<1>2. LockInv'
  BY <1>1 DEF LockInv
<1>3. LoadedInv'
  BY <1>1 DEF LoadedInv
<1>4. ShapeInv'
  BY <1>1 DEF ShapeInv
<1>5. PutAssertHolds'
  BY <1>1 DEF PutAssertHolds
<1> QED
  BY <1>2, <1>3, <1>4, <1>5 DEF IndInv

LEMMA TransmitEnds ==
  ASSUME IndInv, TypeOK', NEW c \in Cpus, tx[c].pc # "idle",
         rx' = rx, tx_lock' = None, \A d \in Cpus \ {c} : tx'[d] = tx[d],
         tx'[c].pc = "idle", RingInv', Shape({}, free.num, {})'
  PROVE  IndInv'
<1>1. /\ tx_lock = c /\ c # None /\ rx.pc = "idle"
      /\ \A d \in Cpus \ {c} : tx[d].pc = "idle"
  BY InTransmit
<1>2. \A d \in Cpus : tx'[d].pc = "idle" /\ d # None
  BY <1>1, ConsoleTxAssumption
<1>3. LockInv'
  BY <1>1, <1>2 DEF LockInv
<1>4. LoadedInv'
  BY <1>1, <1>2 DEF LoadedInv
<1>5. ShapeInv'
  BY <1>1, <1>2 DEF ShapeInv, RxShape
<1>6. PutAssertHolds'
  BY <1>1 DEF PutAssertHolds
<1> QED
  BY <1>3, <1>4, <1>5, <1>6 DEF IndInv

(* The handler runs while nobody transmits.                                *)
LEMMA InHandler ==
  ASSUME IndInv, rx.pc # "idle"
  PROVE  tx_lock = None /\ RxShape /\ \A c \in Cpus : tx[c].pc = "idle" /\ c # None
  BY ConsoleTxAssumption DEF IndInv, LockInv, ShapeInv, TypeOK

LEMMA HandlerStep ==
  ASSUME IndInv, TypeOK', tx_lock = None, tx_lock' = None, tx' = tx,
         rx'.pc = "head" => free'.next[rx'.id] = free'.head,
         rx'.pc = "store" => rx'.num = free'.num,
         rx'.pc # "aborted",
         RingInv', RxShape'
  PROVE  IndInv'
<1>1. \A c \in Cpus : tx[c].pc = "idle" /\ c # None
  BY ConsoleTxAssumption DEF IndInv, LockInv
<1>2. LockInv'
  BY <1>1 DEF LockInv
<1>3. LoadedInv'
  BY <1>1 DEF LoadedInv
<1>4. ShapeInv'
  BY <1>1 DEF ShapeInv
<1>5. PutAssertHolds'
  BY DEF PutAssertHolds
<1> QED
  BY <1>2, <1>3, <1>4, <1>5 DEF IndInv

(* A descriptor that only changes place between the rings and the device.  *)
LEMMA DeviceStep ==
  ASSUME IndInv, TypeOK', UNCHANGED <<free, memVars, tx_lock, tx, rx, leaked>>,
         RingInv', Outstanding' = Outstanding
  PROVE  IndInv'
<1> USE DEF memVars
<1>1. LockInv' /\ LoadedInv' /\ PutAssertHolds'
  BY DEF IndInv, LockInv, LoadedInv, PutAssertHolds
<1>2. ASSUME NEW c \in Cpus, TxShape(tx[c]) PROVE TxShape(tx[c])'
  <2>1. CASE tx[c].pc \in {"head", "link", "unlock", "aborted"}
    BY <1>2, <2>1 DEF TxShape, Shape, Allocated
  <2>2. CASE tx[c].pc \in {"load", "store"}
    BY <1>2, <2>2 DEF TxShape, Shape, Allocated
  <2>3. CASE tx[c].pc = "alloc"
    BY <1>2, <2>3 DEF TxShape, Shape, Allocated
  <2>4. CASE tx[c].pc = "offer"
    BY <1>2, <2>4 DEF TxShape, Shape, Allocated
  <2> QED
    BY <2>1, <2>2, <2>3, <2>4 DEF TxShape
<1>3. ASSUME RxShape PROVE RxShape'
  <2>1. CASE rx.pc \in {"idle", "ack", "rxq", "used"}
    BY <1>3, <2>1 DEF RxShape, Shape, Allocated
  <2>2. CASE rx.pc \in {"link", "head"}
    BY <1>3, <2>2 DEF RxShape, Shape, Allocated
  <2>3. CASE rx.pc \in {"load", "store"}
    BY <1>3, <2>3 DEF RxShape, Shape, Allocated
  <2>4. CASE rx.pc = "free"
    BY <1>3, <2>4 DEF RxShape, Shape, Allocated
  <2> QED
    BY <2>1, <2>2, <2>3, <2>4 DEF RxShape
<1>4. ShapeInv'
  BY <1>2, <1>3 DEF IndInv, ShapeInv
<1> QED
  BY <1>1, <1>4 DEF IndInv

(* The rings do not change.                                                *)
LEMMA RingsKept ==
  ASSUME UNCHANGED <<availQ, usedQ, held>>
  PROVE  Outstanding' = Outstanding /\ (RingInv => RingInv')
  BY DEF Outstanding, RingInv

-----------------------------------------------------------------------------
(* Transmit, with the handler kept out.                                    *)
LEMMA TxLockInv ==
  ASSUME Handler = "excluded", IndInv, TypeOK', NEW c \in Cpus, TxLock(c)
  PROVE  IndInv'
<1> USE DEF TxLock, At, memVars, devVars
<1>1. c # None /\ rx.pc = "idle" /\ tx_lock = None /\ \A d \in Cpus : tx[d].pc = "idle"
  BY ConsoleTxAssumption DEF IndInv, LockInv
<1>2. /\ tx'[c].pc = "head" /\ rx' = rx /\ tx_lock' = c
      /\ \A d \in Cpus \ {c} : tx'[d] = tx[d]
  BY DEF IndInv, TypeOK
<1>3. LockInv'
  BY <1>1, <1>2 DEF LockInv
<1>4. LoadedInv'
  BY <1>1, <1>2 DEF LoadedInv
<1>5. RingInv' /\ Outstanding' = Outstanding
  BY RingsKept DEF IndInv
<1>6. Shape({}, free.num, {})
  BY <1>1 DEF IndInv, ShapeInv, RxShape
<1>7. Shape({}, free.num, {})'
  BY <1>5, <1>6 DEF Shape, Allocated
<1>8. ShapeInv'
  BY <1>1, <1>2, <1>7 DEF ShapeInv, TxShape
<1> QED
  BY <1>1, <1>2, <1>3, <1>4, <1>5, <1>8 DEF IndInv, PutAssertHolds

LEMMA GetFreeHeadInv ==
  ASSUME IndInv, TypeOK', NEW c \in Cpus, GetFreeAborts(c) \/ GetFreeHead(c)
  PROVE  IndInv'
<1> USE DEF GetFreeAborts, GetFreeHead, At, memVars, devVars
<1>1. tx[c].pc = "head"
  OBVIOUS
<1>2. tx_lock = c /\ Shape({}, free.num, {})
  BY <1>1, InTransmit DEF TxShape
<1>3. /\ rx' = rx /\ tx_lock' = tx_lock /\ free' = free
      /\ \A d \in Cpus \ {c} : tx'[d] = tx[d]
      /\ \/ tx'[c].pc = "aborted" /\ free.num = 0
         \/ tx'[c].pc = "link" /\ free.num # 0 /\ tx'[c].id = free.head
  BY DEF IndInv, TypeOK
<1>4. RingInv' /\ Outstanding' = Outstanding
  BY RingsKept DEF IndInv
<1>5. Shape({}, free.num, {})'
  BY <1>2, <1>4 DEF Shape, Allocated
<1>6. TxShape(tx[c])'
  BY <1>3, <1>5 DEF TxShape
<1> QED
  BY <1>1, <1>2, <1>3, <1>4, <1>6, TransmitStep

LEMMA GetFreeLinkInv ==
  ASSUME IndInv, TypeOK', NEW c \in Cpus, GetFreeLink(c)
  PROVE  IndInv'
<1> USE DEF GetFreeLink, At, memVars, devVars
<1>1. tx[c].pc = "link" /\ tx[c].id \in Desc
  BY DEF IndInv, TypeOK
<1>2. tx_lock = c /\ Shape({}, free.num, {})
  BY <1>1, InTransmit DEF TxShape
<1>3. /\ rx' = rx /\ tx_lock' = tx_lock
      /\ free'.num = free.num /\ free'.next = free.next
      /\ free'.head = free.next[tx[c].id]
      /\ \A d \in Cpus \ {c} : tx'[d] = tx[d]
      /\ tx'[c].pc = "load" /\ tx'[c].id = tx[c].id
  BY DEF IndInv, TypeOK
<1>4. RingInv' /\ Outstanding' = Outstanding
  BY RingsKept DEF IndInv
<1> DEFINE S == Desc \ (Outstanding \cup leaked)
<1>5. free.num # 0 /\ tx[c].id = free.head
  BY <1>1 DEF IndInv, LoadedInv
<1>6. Chain(free.next, free.head, free.num, S) /\ free.num \in Nat
  <2>1. S = Desc \ (Outstanding \cup leaked \cup {})
    OBVIOUS
  <2>2. Chain(free.next, free.head, free.num, S)
    BY <1>2, <2>1 DEF Shape
  <2> QED
    BY <2>2 DEF Chain
<1>7. tx[c].id \in S /\ Chain(free.next, free.next[tx[c].id], free.num - 1, S \ {tx[c].id})
  BY <1>5, <1>6, ChainPop
<1>8. S \ {tx[c].id} = Desc \ (Outstanding \cup leaked \cup {tx[c].id})
  OBVIOUS
<1>9. Chain(free'.next, free'.head, free'.num - 1,
            Desc \ (Outstanding \cup leaked \cup {tx[c].id}))
  BY <1>3, <1>7, <1>8
<1>10. Shape({tx[c].id}, free.num - 1, {})'
  <2>1. tx[c].id \notin Outstanding /\ tx[c].id \notin leaked
    BY <1>7
  <2>2. pool' = {addr'[d] : d \in Outstanding' \cup {}}
    BY <1>2, <1>4 DEF Shape, Allocated
  <2>3. \A d, e \in Outstanding' \cup {} : addr'[d] = addr'[e] => d = e
    BY <1>2, <1>4 DEF Shape, Allocated
  <2> QED
    BY <1>2, <1>3, <1>4, <1>9, <2>1, <2>2, <2>3 DEF Shape, Allocated
<1>11. TxShape(tx[c])'
  BY <1>3, <1>10 DEF TxShape
<1> QED
  BY <1>1, <1>2, <1>3, <1>4, <1>11, TransmitStep

LEMMA GetFreeCountInv ==
  ASSUME IndInv, TypeOK', NEW c \in Cpus, GetFreeLoad(c) \/ GetFreeStore(c)
  PROVE  IndInv'
<1> USE DEF GetFreeLoad, GetFreeStore, At, memVars, devVars
<1>1. tx[c].pc \in {"load", "store"} /\ tx[c].num \in Int /\ free.num \in Int
  BY DEF IndInv, TypeOK
<1>2. tx_lock = c /\ Shape({tx[c].id}, free.num - 1, {})
  BY <1>1, InTransmit DEF TxShape
<1>3. /\ rx' = rx /\ tx_lock' = tx_lock
      /\ free'.next = free.next /\ free'.head = free.head
      /\ addr' = addr /\ pool' = pool /\ leaked' = leaked
      /\ \A d \in Cpus \ {c} : tx'[d] = tx[d]
      /\ tx'[c].id = tx[c].id
  BY DEF IndInv, TypeOK
<1>4. RingInv' /\ Outstanding' = Outstanding
  BY RingsKept DEF IndInv
<1>5. CASE GetFreeLoad(c)
  <2>1. tx'[c].pc = "store" /\ tx'[c].num = free'.num /\ free' = free
    BY <1>5 DEF IndInv, TypeOK
  <2>2. Shape({tx[c].id}, free.num - 1, {})'
    <3>1. tx'[c].id = tx[c].id /\ free' = free
      BY <1>3, <2>1
    <3> HIDE DEF GetFreeLoad, GetFreeStore
    <3> QED
      BY <1>2, <1>3, <1>4, <3>1 DEF Shape, Allocated
  <2>3. TxShape(tx[c])'
    BY <2>1, <2>2 DEF TxShape
  <2> QED
    BY <1>1, <1>2, <1>3, <1>4, <2>1, <2>3, TransmitStep
<1>6. CASE GetFreeStore(c)
  <2>1. tx'[c].pc = "alloc" /\ free'.num = tx[c].num - 1
    BY <1>6 DEF IndInv, TypeOK
  <2>2. free'.num = free.num - 1
    BY <1>1, <1>6, <2>1 DEF IndInv, LoadedInv
  <2>3. Shape({tx[c].id}, free.num, {})'
    <3> HIDE DEF GetFreeLoad, GetFreeStore
    <3> QED
      BY <1>2, <1>3, <1>4, <2>2 DEF Shape, Allocated
  <2>4. TxShape(tx[c])'
    BY <2>1, <2>3 DEF TxShape
  <2> QED
    BY <1>1, <1>2, <1>3, <1>4, <2>1, <2>4, TransmitStep
<1> QED
  BY <1>5, <1>6

LEMMA AllocFailsInv ==
  ASSUME IndInv, TypeOK', NEW c \in Cpus, AllocFails(c)
  PROVE  IndInv'
<1> USE DEF AllocFails, At, memVars, devVars
<1>1. tx[c].pc = "alloc"
  OBVIOUS
<1>2. Shape({tx[c].id}, free.num, {})
  BY <1>1, InTransmit DEF TxShape
<1>3. /\ rx' = rx /\ tx_lock' = None /\ free' = free /\ addr' = addr /\ pool' = pool
      /\ leaked' = leaked \cup {tx[c].id}
      /\ \A d \in Cpus \ {c} : tx'[d] = tx[d]
      /\ tx'[c].pc = "idle"
  BY DEF IndInv, TypeOK
<1>4. RingInv' /\ Outstanding' = Outstanding
  BY RingsKept DEF IndInv
<1> HIDE DEF AllocFails
<1>5. Shape({}, free.num, {})'
  <2>1. Desc \ (Outstanding' \cup leaked' \cup {}) = Desc \ (Outstanding \cup leaked \cup {tx[c].id})
    BY <1>3, <1>4
  <2>2. ({} \cup {} \cup Outstanding') \cap leaked' = {}
    BY <1>2, <1>3, <1>4 DEF Shape
  <2> QED
    BY <1>2, <1>3, <1>4, <2>1, <2>2 DEF Shape, Allocated
<1> QED
  BY <1>1, <1>3, <1>4, <1>5, TransmitEnds

LEMMA FillDescInv ==
  ASSUME IndInv, TypeOK', NEW c \in Cpus, FillDesc(c)
  PROVE  IndInv'
<1> USE DEF FillDesc, At, memVars, devVars
<1>1. tx[c].pc = "alloc" /\ tx[c].id \in Desc
  BY DEF IndInv, TypeOK
<1>2. tx_lock = c /\ Shape({tx[c].id}, free.num, {})
  BY <1>1, InTransmit DEF TxShape
<1>3. /\ rx' = rx /\ tx_lock' = tx_lock /\ leaked' = leaked
      /\ free'.num = free.num /\ free'.head = free.head
      /\ free'.next = [free.next EXCEPT ![tx[c].id] = 0]
      /\ \A d \in Cpus \ {c} : tx'[d] = tx[d]
      /\ tx'[c].pc = "offer" /\ tx'[c].id = tx[c].id
  BY DEF IndInv, TypeOK
<1>4. RingInv' /\ Outstanding' = Outstanding
  BY RingsKept DEF IndInv
<1>5. PICK b \in Blocks \ pool :
        pool' = pool \cup {b} /\ addr' = [addr EXCEPT ![tx[c].id] = b]
  OBVIOUS
<1>6. free.next \in [Desc -> Desc] /\ addr \in [Desc -> Blocks \cup {None}]
  BY DEF IndInv, TypeOK
<1> HIDE DEF FillDesc
<1> DEFINE id == tx[c].id
           S == Desc \ (Outstanding \cup leaked \cup {id})
<1>7. Chain(free'.next, free'.head, free'.num, S)
  <2>1. Chain(free.next, free.head, free.num, S)
    BY <1>2 DEF Shape
  <2>2. id \notin S /\ S \subseteq Desc /\ id \in Desc
    BY <1>1
  <2> HIDE DEF S
  <2> QED
    BY <1>3, <1>6, <2>1, <2>2, ChainElsewhere
<1>8. id \notin Outstanding /\ id \notin leaked /\ Outstanding \cap leaked = {}
  BY <1>2 DEF Shape
<1>9. Outstanding \subseteq Desc
  BY RingDesc DEF IndInv, TypeOK, Outstanding
<1>10. addr'[id] = b /\ \A d \in Outstanding : addr'[d] = addr[d]
  BY <1>1, <1>5, <1>6, <1>8, <1>9
<1>11. /\ pool = {addr[d] : d \in Outstanding}
       /\ \A d, e \in Outstanding : addr[d] = addr[e] => d = e
  BY <1>2 DEF Shape, Allocated
<1>12. pool' = {addr'[d] : d \in Outstanding \cup {id}}
  BY <1>5, <1>10, <1>11
<1>13. \A d, e \in Outstanding \cup {id} : addr'[d] = addr'[e] => d = e
  <2>1. \A d \in Outstanding : addr'[d] # b
    BY <1>5, <1>10, <1>11
  <2> QED
    BY <1>10, <1>11, <2>1
<1>14. Shape({tx[c].id}, free.num, {tx[c].id})'
  BY <1>3, <1>4, <1>7, <1>8, <1>12, <1>13 DEF Shape, Allocated
<1>15. TxShape(tx[c])'
  BY <1>3, <1>14 DEF TxShape
<1> QED
  BY <1>1, <1>2, <1>3, <1>4, <1>15, TransmitStep

LEMMA OfferInv ==
  ASSUME IndInv, TypeOK', NEW c \in Cpus, Offer(c)
  PROVE  IndInv'
<1> USE DEF Offer, At, memVars, devVars
<1>1. /\ tx[c].pc = "offer" /\ tx[c].id \in Desc
      /\ availQ \in Seq(Desc)
  BY DEF IndInv, TypeOK
<1>2. tx_lock = c /\ Shape({tx[c].id}, free.num, {tx[c].id})
  BY <1>1, InTransmit DEF TxShape
<1>3. /\ rx' = rx /\ tx_lock' = tx_lock /\ leaked' = leaked
      /\ free' = free /\ addr' = addr /\ pool' = pool
      /\ usedQ' = usedQ /\ held' = held /\ availQ' = Append(availQ, tx[c].id)
      /\ \A d \in Cpus \ {c} : tx'[d] = tx[d]
      /\ tx'[c].pc = "unlock"
  BY DEF IndInv, TypeOK
<1> HIDE DEF Offer
<1> DEFINE id == tx[c].id
<1>4. /\ id \notin Elements(availQ) /\ id \notin held /\ id \notin Elements(usedQ)
      /\ id \notin leaked
  BY <1>2 DEF Shape, Outstanding
<1>5. /\ Elements(availQ') = Elements(availQ) \cup {id}
      /\ Once(availQ) => Once(availQ')
  BY <1>1, <1>3, <1>4, RingAppend
<1>6. Outstanding' = Outstanding \cup {id}
  BY <1>3, <1>5 DEF Outstanding
<1>7. RingInv'
  BY <1>3, <1>4, <1>5 DEF IndInv, RingInv
<1>8. Shape({}, free.num, {})'
  <2>1. Desc \ (Outstanding' \cup leaked' \cup {}) = Desc \ (Outstanding \cup leaked \cup {id})
    BY <1>3, <1>6
  <2>2. Outstanding' \cup {} = Outstanding \cup {id}
    BY <1>6
  <2>3. ({} \cup {} \cup Outstanding') \cap leaked' = {}
    BY <1>2, <1>3, <1>6 DEF Shape
  <2> QED
    <3>1. Chain(free'.next, free'.head, free'.num, Desc \ (Outstanding' \cup leaked' \cup {}))
      BY <1>2, <1>3, <2>1 DEF Shape
    <3>2. Allocated(Outstanding \cup {id})
      BY <1>2 DEF Shape
    <3>3. /\ pool' = {addr'[d] : d \in Outstanding' \cup {}}
          /\ \A d, e \in Outstanding' \cup {} : addr'[d] = addr'[e] => d = e
      BY <1>3, <2>2, <3>2 DEF Allocated
    <3> QED
      BY <2>3, <3>1, <3>3 DEF Shape, Allocated
<1>9. TxShape(tx[c])'
  BY <1>3, <1>8 DEF TxShape
<1> QED
  BY <1>1, <1>2, <1>3, <1>7, <1>9, TransmitStep

LEMMA TxUnlockInv ==
  ASSUME IndInv, TypeOK', NEW c \in Cpus, TxUnlock(c)
  PROVE  IndInv'
<1> USE DEF TxUnlock, At, memVars, devVars
<1>1. tx[c].pc = "unlock"
  OBVIOUS
<1>2. Shape({}, free.num, {})
  BY <1>1, InTransmit DEF TxShape
<1>3. /\ rx' = rx /\ tx_lock' = None
      /\ \A d \in Cpus \ {c} : tx'[d] = tx[d]
      /\ tx'[c].pc = "idle"
  BY DEF IndInv, TypeOK
<1>4. RingInv' /\ Outstanding' = Outstanding
  BY RingsKept DEF IndInv
<1>5. Shape({}, free.num, {})'
  BY <1>2, <1>4 DEF Shape, Allocated
<1> QED
  BY <1>1, <1>3, <1>4, <1>5, TransmitEnds

-----------------------------------------------------------------------------
(* The handler, which nobody transmits beside.                             *)
LEMMA HandlerEnterInv ==
  ASSUME Handler = "excluded", IndInv, TypeOK', HandlerEnter
  PROVE  IndInv'
<1> USE DEF HandlerEnter, memVars, devVars
<1>1. tx_lock = None /\ Shape({}, free.num, {})
  BY DEF IndInv, ShapeInv, RxShape
<1>2. tx_lock' = None /\ tx' = tx /\ rx'.pc = "ack"
  BY <1>1 DEF IndInv, TypeOK
<1>3. RingInv' /\ Outstanding' = Outstanding
  BY RingsKept DEF IndInv
<1>4. Shape({}, free.num, {})'
  BY <1>1, <1>3 DEF Shape, Allocated
<1>5. RxShape'
  BY <1>2, <1>4 DEF RxShape
<1> QED
  BY <1>1, <1>2, <1>3, <1>5, HandlerStep

LEMMA HandlerQueuesInv ==
  ASSUME IndInv, TypeOK', HandlerAck \/ HandlerRxQueue \/ HandlerLeave
  PROVE  IndInv'
<1> USE DEF HandlerAck, HandlerRxQueue, HandlerLeave, memVars, devVars
<1>1. rx.pc \in {"ack", "rxq", "used"}
  OBVIOUS
<1>2. tx_lock = None /\ Shape({}, free.num, {})
  BY <1>1, InHandler DEF RxShape
<1>3. /\ tx_lock' = None /\ tx' = tx /\ rx'.pc \in {"idle", "rxq", "used"}
      /\ free' = free /\ addr' = addr /\ pool' = pool /\ leaked' = leaked
      /\ availQ' = availQ /\ usedQ' = usedQ /\ held' = held
  BY <1>2 DEF IndInv, TypeOK
<1> HIDE DEF HandlerAck, HandlerRxQueue, HandlerLeave
<1>4. RingInv' /\ Outstanding' = Outstanding
  BY <1>3, RingsKept DEF IndInv
<1>5. Shape({}, free.num, {})'
  BY <1>2, <1>3, <1>4 DEF Shape, Allocated
<1>6. RxShape'
  BY <1>3, <1>5 DEF RxShape
<1> QED
  BY <1>2, <1>3, <1>4, <1>6, HandlerStep

LEMMA GetUsedInv ==
  ASSUME IndInv, TypeOK', GetUsed
  PROVE  IndInv'
<1> USE DEF GetUsed, memVars, devVars
<1> DEFINE id == Head(usedQ)
<1>1. rx.pc = "used" /\ usedQ # << >> /\ usedQ \in Seq(Desc) /\ Once(usedQ)
  BY DEF IndInv, TypeOK, RingInv
<1>2. tx_lock = None /\ Shape({}, free.num, {})
  BY <1>1, InHandler DEF RxShape
<1>3. /\ tx_lock' = None /\ tx' = tx /\ rx'.pc = "link" /\ rx'.id = id
      /\ free' = free /\ addr' = addr /\ pool' = pool /\ leaked' = leaked
      /\ availQ' = availQ /\ usedQ' = Tail(usedQ) /\ held' = held
  BY <1>2 DEF IndInv, TypeOK
<1> HIDE DEF GetUsed
<1>4. /\ id \in Elements(usedQ) /\ id \in Desc
      /\ Elements(usedQ') = Elements(usedQ) \ {id} /\ Once(usedQ')
  BY <1>1, <1>3, RingTail
<1> HIDE DEF id
<1>5. RingInv'
  BY <1>3, <1>4 DEF IndInv, RingInv
<1>6. id \in Outstanding /\ Outstanding' = Outstanding \ {id}
  BY <1>3, <1>4 DEF IndInv, RingInv, Outstanding
<1>7. Shape({rx.id}, free.num, {rx.id})'
  <2>1. Desc \ (Outstanding' \cup leaked' \cup {id}) = Desc \ (Outstanding \cup leaked \cup {})
    BY <1>3, <1>6
  <2>2. Outstanding' \cup {id} = Outstanding \cup {}
    BY <1>6
  <2>3. ({id} \cup {id} \cup Outstanding') \cap leaked' = {}
    BY <1>2, <1>3, <1>6 DEF Shape
  <2>4. Chain(free'.next, free'.head, free'.num, Desc \ (Outstanding' \cup leaked' \cup {id}))
    BY <1>2, <1>3, <2>1 DEF Shape
  <2>5. Allocated(Outstanding \cup {})
    BY <1>2 DEF Shape
  <2>6. /\ pool' = {addr'[d] : d \in Outstanding' \cup {id}}
        /\ \A d, e \in Outstanding' \cup {id} : addr'[d] = addr'[e] => d = e
    BY <1>3, <2>2, <2>5 DEF Allocated
  <2>7. ({id} \cup {id}) \cap Outstanding' = {}
    BY <1>6
  <2> QED
    BY <1>3, <2>3, <2>4, <2>6, <2>7 DEF Shape, Allocated
<1>8. RxShape'
  BY <1>3, <1>7 DEF RxShape
<1> QED
  BY <1>2, <1>3, <1>5, <1>8, HandlerStep

(* The descriptor that goes back is not on the list, which is therefore    *)
(* not full: the assertion of virtq_put_free_desc holds.                   *)
LEMMA NotFull ==
  ASSUME IndInv, rx.pc = "link"
  PROVE  free.num < VIRTQ_SIZE
<1> DEFINE S == Desc \ (Outstanding \cup leaked \cup {rx.id})
<1>1. Chain(free.next, free.head, free.num, S)
  BY InHandler DEF RxShape, Shape
<1>2. free.num \in Nat /\ IsFiniteSet(S) /\ Cardinality(S) = free.num
  BY <1>1, ChainLength
<1>3. S \subseteq Desc /\ S # Desc
  BY DEF IndInv, TypeOK
<1>4. Cardinality(S) <= VIRTQ_SIZE /\ Cardinality(S) # VIRTQ_SIZE
  BY <1>3, DescFinite, FS_Subset
<1> QED
  BY <1>2, <1>4, ConsoleTxAssumption

LEMMA PutFreeLinkInv ==
  ASSUME IndInv, TypeOK', PutFreeLink
  PROVE  IndInv'
<1> USE DEF PutFreeLink, memVars, devVars
<1>1. rx.pc = "link" /\ free.num < VIRTQ_SIZE /\ rx.id \in Desc
  BY NotFull DEF IndInv, TypeOK
<1>2. tx_lock = None /\ Shape({rx.id}, free.num, {rx.id})
  BY <1>1, InHandler DEF RxShape
<1>3. free.next \in [Desc -> Desc]
  BY DEF IndInv, TypeOK
<1>4. /\ tx_lock' = None /\ tx' = tx /\ rx'.pc = "head" /\ rx'.id = rx.id
      /\ free'.num = free.num /\ free'.head = free.head
      /\ free'.next = [free.next EXCEPT ![rx.id] = free.head]
      /\ addr' = addr /\ pool' = pool /\ leaked' = leaked
      /\ availQ' = availQ /\ usedQ' = usedQ /\ held' = held
  BY <1>1, <1>2 DEF IndInv, TypeOK
<1> HIDE DEF PutFreeLink
<1>5. RingInv' /\ Outstanding' = Outstanding
  BY <1>4, RingsKept DEF IndInv
<1> DEFINE S == Desc \ (Outstanding \cup leaked \cup {rx.id})
<1>6. Chain(free'.next, free'.head, free'.num, S)
  <2>1. Chain(free.next, free.head, free.num, S)
    BY <1>2 DEF Shape
  <2>2. rx.id \notin S /\ S \subseteq Desc
    OBVIOUS
  <2> HIDE DEF S
  <2> QED
    BY <1>1, <1>3, <1>4, <2>1, <2>2, ChainElsewhere
<1>7. Shape({rx.id}, free.num, {rx.id})'
  BY <1>2, <1>4, <1>5, <1>6 DEF Shape, Allocated
<1>8. RxShape'
  BY <1>4, <1>7 DEF RxShape
<1>9. free'.next[rx'.id] = free'.head
  BY <1>1, <1>3, <1>4
<1> QED
  BY <1>2, <1>4, <1>5, <1>8, <1>9, HandlerStep

LEMMA PutFreeHeadInv ==
  ASSUME IndInv, TypeOK', PutFreeHead
  PROVE  IndInv'
<1> USE DEF PutFreeHead, memVars, devVars
<1>1. rx.pc = "head" /\ rx.id \in Desc /\ free.next[rx.id] = free.head
  BY DEF IndInv, TypeOK, LoadedInv
<1>2. tx_lock = None /\ Shape({rx.id}, free.num, {rx.id})
  BY <1>1, InHandler DEF RxShape
<1>3. /\ tx_lock' = None /\ tx' = tx /\ rx'.pc = "load" /\ rx'.id = rx.id
      /\ free'.num = free.num /\ free'.head = rx.id /\ free'.next = free.next
      /\ addr' = addr /\ pool' = pool /\ leaked' = leaked
      /\ availQ' = availQ /\ usedQ' = usedQ /\ held' = held
  BY <1>2 DEF IndInv, TypeOK
<1> HIDE DEF PutFreeHead
<1>4. RingInv' /\ Outstanding' = Outstanding
  BY <1>3, RingsKept DEF IndInv
<1> DEFINE S == Desc \ (Outstanding \cup leaked \cup {rx.id})
<1>5. Chain(free.next, rx.id, free.num + 1, S \cup {rx.id})
  <2>1. Chain(free.next, free.head, free.num, S) /\ rx.id \notin S
    BY <1>2 DEF Shape
  <2> HIDE DEF S
  <2> QED
    BY <1>1, <2>1, ChainPush
<1>6. S \cup {rx.id} = Desc \ (Outstanding \cup leaked \cup {})
  BY <1>1, <1>2 DEF Shape
<1>7. Chain(free'.next, free'.head, free'.num + 1, Desc \ (Outstanding' \cup leaked' \cup {}))
  BY <1>3, <1>4, <1>5, <1>6
<1>8. Shape({}, free.num + 1, {rx.id})'
  BY <1>2, <1>3, <1>4, <1>7 DEF Shape, Allocated
<1>9. RxShape'
  BY <1>3, <1>8 DEF RxShape
<1> QED
  BY <1>2, <1>3, <1>4, <1>9, HandlerStep

LEMMA PutFreeCountInv ==
  ASSUME IndInv, TypeOK', PutFreeLoad \/ PutFreeStore
  PROVE  IndInv'
<1> USE DEF PutFreeLoad, PutFreeStore, memVars, devVars
<1>1. rx.pc \in {"load", "store"} /\ free.num \in Int
  BY DEF IndInv, TypeOK
<1>2. tx_lock = None /\ Shape({}, free.num + 1, {rx.id})
  BY <1>1, InHandler DEF RxShape
<1>3. /\ tx_lock' = None /\ tx' = tx /\ rx'.id = rx.id
      /\ free'.head = free.head /\ free'.next = free.next
      /\ addr' = addr /\ pool' = pool /\ leaked' = leaked
      /\ availQ' = availQ /\ usedQ' = usedQ /\ held' = held
  BY <1>2 DEF IndInv, TypeOK
<1>4. \/ rx'.pc = "store" /\ rx'.num = free'.num /\ free'.num = free.num
      \/ rx'.pc = "free" /\ free'.num = free.num + 1
  <2>1. CASE PutFreeLoad
    BY <2>1 DEF IndInv, TypeOK
  <2>2. CASE PutFreeStore
    <3>1. rx.num = free.num
      BY <2>2 DEF IndInv, LoadedInv
    <3>2. free' = [free EXCEPT !.num = rx.num + 1]
      BY <2>2
    <3>3. rx' = [rx EXCEPT !.pc = "free", !.num = 0]
      BY <2>2
    <3>4. free'.num = free.num + 1
      BY <3>1, <3>2 DEF IndInv, TypeOK
    <3>5. rx'.pc = "free"
      BY <3>3 DEF IndInv, TypeOK
    <3> QED
      BY <3>4, <3>5
  <2> QED
    BY <2>1, <2>2
<1> HIDE DEF PutFreeLoad, PutFreeStore
<1>5. RingInv' /\ Outstanding' = Outstanding
  BY <1>3, RingsKept DEF IndInv
<1>6. CASE rx'.pc = "store"
  <2>1. Shape({}, free.num + 1, {rx.id})'
    BY <1>2, <1>3, <1>4, <1>5, <1>6 DEF Shape, Allocated
  <2>2. RxShape'
    BY <1>6, <2>1 DEF RxShape
  <2> QED
    BY <1>2, <1>3, <1>4, <1>5, <1>6, <2>2, HandlerStep
<1>7. CASE rx'.pc = "free"
  <2>1. Shape({}, free.num, {rx.id})'
    BY <1>2, <1>3, <1>4, <1>5, <1>7 DEF Shape, Allocated
  <2>2. RxShape'
    BY <1>7, <2>1 DEF RxShape
  <2> QED
    BY <1>2, <1>3, <1>4, <1>5, <1>7, <2>2, HandlerStep
<1> QED
  BY <1>4, <1>6, <1>7

LEMMA PoolFreeInv ==
  ASSUME IndInv, TypeOK', PoolFree
  PROVE  IndInv'
<1> USE DEF PoolFree, memVars, devVars
<1>1. rx.pc = "free"
  OBVIOUS
<1>2. tx_lock = None /\ Shape({}, free.num, {rx.id})
  BY <1>1, InHandler DEF RxShape
<1>3. /\ tx_lock' = None /\ tx' = tx /\ rx'.pc = "used"
      /\ free' = free /\ addr' = addr /\ leaked' = leaked
      /\ pool' = pool \ {addr[rx.id]}
      /\ availQ' = availQ /\ usedQ' = usedQ /\ held' = held
  BY <1>2 DEF IndInv, TypeOK
<1> HIDE DEF PoolFree
<1>4. RingInv' /\ Outstanding' = Outstanding
  BY <1>3, RingsKept DEF IndInv
<1>5. /\ pool = {addr[d] : d \in Outstanding \cup {rx.id}}
      /\ \A d, e \in Outstanding \cup {rx.id} : addr[d] = addr[e] => d = e
      /\ rx.id \notin Outstanding
  BY <1>2 DEF Shape, Allocated
<1>6. pool' = {addr[d] : d \in Outstanding}
  BY <1>3, <1>5
<1>7. Shape({}, free.num, {})'
  BY <1>2, <1>3, <1>4, <1>5, <1>6 DEF Shape, Allocated
<1>8. RxShape'
  BY <1>3, <1>7 DEF RxShape
<1> QED
  BY <1>2, <1>3, <1>4, <1>8, HandlerStep

-----------------------------------------------------------------------------
(* The device moves descriptors and takes none.                            *)
LEMMA DeviceInv ==
  ASSUME IndInv, TypeOK', DeviceFetch \/ DeviceConfig \/ \E d \in Desc : DeviceComplete(d)
  PROVE  IndInv'
<1> USE DEF memVars
<1>1. availQ \in Seq(Desc) /\ usedQ \in Seq(Desc) /\ RingInv
  BY DEF IndInv, TypeOK
<1>2. CASE DeviceFetch
  <2> DEFINE d == Head(availQ)
  <2>1. /\ UNCHANGED <<free, memVars, tx_lock, tx, rx, leaked>> /\ usedQ' = usedQ
        /\ held' = held \cup {d} /\ availQ' = Tail(availQ) /\ availQ # << >>
    BY <1>2 DEF DeviceFetch
  <2>2. /\ d \in Elements(availQ) /\ Once(availQ')
        /\ Elements(availQ') = Elements(availQ) \ {d}
    BY <1>1, <2>1, RingTail DEF RingInv
  <2> HIDE DEF d
  <2>3. RingInv'
    BY <1>1, <2>1, <2>2 DEF RingInv
  <2>4. Outstanding' = Outstanding
    BY <2>1, <2>2 DEF Outstanding
  <2> QED
    BY <2>1, <2>3, <2>4, DeviceStep
<1>3. CASE DeviceConfig
  <2>1. /\ UNCHANGED <<free, memVars, tx_lock, tx, rx, leaked>>
        /\ UNCHANGED <<availQ, usedQ, held>>
    BY <1>3 DEF DeviceConfig
  <2> QED
    BY <1>1, <2>1, RingsKept, DeviceStep
<1>4. ASSUME NEW d \in Desc, DeviceComplete(d) PROVE IndInv'
  <2>1. /\ UNCHANGED <<free, memVars, tx_lock, tx, rx, leaked>> /\ availQ' = availQ
        /\ d \in held /\ held' = held \ {d} /\ usedQ' = Append(usedQ, d)
    BY <1>4 DEF DeviceComplete
  <2>2. d \notin Elements(usedQ)
    BY <1>1, <2>1 DEF RingInv
  <2>3. Once(usedQ') /\ Elements(usedQ') = Elements(usedQ) \cup {d}
    BY <1>1, <2>1, <2>2, RingAppend DEF RingInv
  <2>4. RingInv'
    BY <1>1, <2>1, <2>2, <2>3 DEF RingInv
  <2>5. Outstanding' = Outstanding
    BY <2>1, <2>3 DEF Outstanding
  <2> QED
    BY <2>1, <2>4, <2>5, DeviceStep
<1> QED
  BY <1>2, <1>3, <1>4

-----------------------------------------------------------------------------
(* With the handler kept out of transmit the inductive invariant holds:    *)
(* tx_lock alone then protects the free list and the pool.                 *)
THEOREM Invariance ==
  ASSUME Handler = "excluded"
  PROVE  Spec => []IndInv
<1>1. IndInv /\ [Next]_vars => IndInv'
  <2> SUFFICES ASSUME IndInv, [Next]_vars PROVE IndInv'
    OBVIOUS
  <2>1. CASE UNCHANGED vars
    <3>1. TypeOK'
      BY <2>1 DEF vars, IndInv, TypeOK
    <3>2. /\ UNCHANGED <<free, memVars, tx_lock, tx, rx, leaked>>
          /\ UNCHANGED <<availQ, usedQ, held>>
      BY <2>1 DEF vars, memVars
    <3> QED
      BY <3>1, <3>2, RingsKept, DeviceStep DEF IndInv
  <2>2. CASE Next
    <3>1. TypeOK
      BY DEF IndInv
    <3>2. ASSUME NEW c \in Cpus, TxLock(c) \/ TransmitRest(c) PROVE IndInv'
      <4>1. TypeOK'
        BY <3>1, <3>2, TypeTransmit
      <4> QED
        BY <3>2, <4>1, TxLockInv, GetFreeHeadInv, GetFreeLinkInv, GetFreeCountInv,
           AllocFailsInv, FillDescInv, OfferInv, TxUnlockInv DEF TransmitRest
    <3>3. ASSUME HandlerEnter \/ ReceiveRest PROVE IndInv'
      <4>1. TypeOK'
        BY <3>1, <3>3, TypeReceive
      <4> QED
        BY <3>3, <4>1, HandlerEnterInv, HandlerQueuesInv, GetUsedInv, PutFreeLinkInv,
           PutFreeHeadInv, PutFreeCountInv, PoolFreeInv DEF ReceiveRest
    <3>4. ASSUME DeviceFetch \/ DeviceConfig \/ \E d \in Desc : DeviceComplete(d) PROVE IndInv'
      <4>1. TypeOK'
        BY <3>1, <3>4, TypeDevice
      <4> QED
        BY <3>4, <4>1, DeviceInv
    <3> QED
      BY <2>2, <3>2, <3>3, <3>4 DEF Next
  <2> QED
    BY <2>1, <2>2
<1> QED
  BY <1>1, InitInv, PTL DEF Spec

-----------------------------------------------------------------------------
(* What the invariant says between operations ...                          *)
LEMMA QuietShape ==
  ASSUME IndInv, Quiet
  PROVE  Shape({}, free.num, {})
<1>1. CASE tx_lock = None
  BY <1>1 DEF IndInv, ShapeInv, RxShape, Quiet
<1>2. CASE tx_lock # None
  <2>1. tx_lock \in Cpus
    BY <1>2 DEF IndInv, TypeOK
  <2>2. tx[tx_lock].pc = "unlock" /\ TxShape(tx[tx_lock])
    BY <2>1 DEF IndInv, LockInv, ShapeInv, Quiet
  <2> QED
    BY <2>2 DEF TxShape
<1> QED
  BY <1>1, <1>2

(* ... and of the blocks at every moment.                                  *)
LEMMA OutstandingAllocated ==
  ASSUME IndInv
  PROVE  \E F : Allocated(Outstanding \cup F)
<1>1. CASE tx_lock = None
  <2>1. RxShape /\ rx.pc \in RxSteps \ {"aborted"}
    BY <1>1 DEF IndInv, ShapeInv, PutAssertHolds, TypeOK
  <2>2. CASE rx.pc \in {"idle", "ack", "rxq", "used"}
    BY <2>1, <2>2 DEF RxShape, Shape
  <2>3. CASE rx.pc \in {"link", "head", "load", "store", "free"}
    BY <2>1, <2>3 DEF RxShape, Shape
  <2> QED
    BY <2>1, <2>2, <2>3 DEF RxSteps
<1>2. CASE tx_lock # None
  <2> DEFINE t == tx[tx_lock]
  <2>1. tx_lock \in Cpus
    BY <1>2 DEF IndInv, TypeOK
  <2>2. TxShape(t) /\ t.pc # "idle" /\ t.pc \in TxSteps
    BY <2>1 DEF IndInv, LockInv, ShapeInv, TypeOK
  <2> HIDE DEF t
  <2>3. CASE t.pc = "offer"
    BY <2>2, <2>3 DEF TxShape, Shape
  <2>4. CASE t.pc # "offer"
    BY <2>2, <2>4 DEF TxShape, Shape, TxSteps
  <2> QED
    BY <2>3, <2>4
<1> QED
  BY <1>1, <1>2

LEMMA ConservedHolds == IndInv => Conserved
<1> SUFFICES ASSUME IndInv, Quiet PROVE Conserved
  BY DEF Conserved
<1>1. Shape({}, free.num, {})
  BY QuietShape
<1> DEFINE S == Desc \ (Outstanding \cup leaked)
           n == free.num
<1>2. \E c \in [1 .. n -> Desc] : FreeChain(c) /\ Elements(c) = S
  <2>1. S = Desc \ (Outstanding \cup leaked \cup {})
    OBVIOUS
  <2>2. Chain(free.next, free.head, n, S)
    BY <1>1, <2>1 DEF Shape
  <2>3. PICK ch \in [1 .. n -> S] :
          /\ \A k, l \in 1 .. n : ch[k] = ch[l] => k = l
          /\ \A d \in S : \E k \in 1 .. n : ch[k] = d
          /\ n > 0 => ch[1] = free.head
          /\ \A k \in 1 .. n - 1 : free.next[ch[k]] = ch[k + 1]
    BY <2>2 DEF Chain
  <2>4. FreeChain(ch)
    BY <2>3 DEF FreeChain
  <2>5. Elements(ch) = S
    BY <2>3 DEF Elements
  <2>6. ch \in [1 .. n -> Desc]
    OBVIOUS
  <2> QED
    BY <2>4, <2>5, <2>6
<1>3. Len(availQ) + Cardinality(held) + Len(usedQ) = Cardinality(Outstanding)
  <2> DEFINE A == Elements(availQ)
             U == Elements(usedQ)
  <2>1. /\ IsFiniteSet(A) /\ Cardinality(A) = Len(availQ)
        /\ IsFiniteSet(U) /\ Cardinality(U) = Len(usedQ)
    BY RingLength DEF IndInv, TypeOK, RingInv
  <2>2. IsFiniteSet(held)
    BY DescFinite, FS_Subset DEF IndInv, TypeOK
  <2>3. A \cap held = {} /\ (A \cup held) \cap U = {}
    BY DEF IndInv, RingInv
  <2>4. Outstanding = (A \cup held) \cup U
    BY DEF Outstanding
  <2> HIDE DEF A, U
  <2>5. /\ Cardinality(A) \in Nat /\ Cardinality(held) \in Nat /\ Cardinality(U) \in Nat
        /\ Cardinality({}) = 0
    BY <2>1, <2>2, FS_CardinalityType, FS_EmptySet
  <2>6. IsFiniteSet(A \cup held) /\ Cardinality(A \cup held) = Cardinality(A) + Cardinality(held)
    BY <2>1, <2>2, <2>3, <2>5, FS_Union
  <2>7. Cardinality((A \cup held) \cup U) = Cardinality(A) + Cardinality(held) + Cardinality(U)
    <3> DEFINE B == A \cup held
    <3>1. IsFiniteSet(B) /\ Cardinality(B) = Cardinality(A) + Cardinality(held) /\ B \cap U = {}
      BY <2>3, <2>6
    <3> HIDE DEF B
    <3>3. Cardinality(B \cup U) = Cardinality(B) + Cardinality(U) - Cardinality(B \cap U)
      BY <2>1, <3>1, FS_Union
    <3>4. Cardinality(B \cap U) = 0 /\ Cardinality(B) \in Nat
      BY <2>5, <3>1
    <3>2. Cardinality(B \cup U) = Cardinality(B) + Cardinality(U)
      BY <2>5, <3>3, <3>4
    <3> QED
      BY <3>1, <3>2 DEF B
  <2> QED
    BY <2>1, <2>4, <2>5, <2>7
<1>4. pool = {addr[d] : d \in Outstanding}
  BY <1>1 DEF Shape, Allocated
<1> QED
  BY <1>2, <1>3, <1>4 DEF Conserved

LEMMA DeviceBlocksLiveHolds == IndInv => DeviceBlocksLive
<1> SUFFICES ASSUME IndInv PROVE DeviceBlocksLive
  OBVIOUS
<1>1. PICK F : Allocated(Outstanding \cup F)
  BY OutstandingAllocated
<1>2. Elements(availQ) \cup held \subseteq Outstanding
  BY DEF Outstanding
<1> QED
  BY <1>1, <1>2 DEF Allocated, DeviceBlocksLive

LEMMA AbortOnlyWhenFullHolds == IndInv => AbortOnlyWhenFull
<1> SUFFICES ASSUME IndInv, NEW c \in Cpus, tx[c].pc = "aborted"
             PROVE  Outstanding \cup leaked = Desc
  BY DEF AbortOnlyWhenFull, GetAssertHolds
<1>1. free.num = 0 /\ Shape({}, free.num, {})
  BY InTransmit DEF IndInv, LoadedInv, TxShape
<1>2. Chain(free.next, free.head, 0, Desc \ (Outstanding \cup leaked \cup {}))
  BY <1>1 DEF Shape
<1>3. \A d \in Desc \ (Outstanding \cup leaked \cup {}) : \E k \in 1 .. 0 : TRUE
  BY <1>2 DEF Chain
<1>4. Outstanding \cup leaked \subseteq Desc
  BY RingDesc DEF IndInv, TypeOK, Outstanding
<1> QED
  BY <1>3, <1>4

(* Between operations no descriptor and no block is lost or in two places: *)
(* virtio_console_transmit and virtio_console_receive keep the free list,  *)
(* the rings and the pool consistent, whatever the device's pace, as long  *)
(* as the handler does not run while a CPU is inside transmit.             *)
THEOREM ConservedAlways ==
  ASSUME Handler = "excluded"
  PROVE  Spec => []Conserved
  BY Invariance, ConservedHolds, PTL

(* At every step a block the device may read is allocated, and described   *)
(* by one descriptor only: receive frees a block after the device is done. *)
THEOREM DeviceReadsLive ==
  ASSUME Handler = "excluded"
  PROVE  Spec => []DeviceBlocksLive
  BY Invariance, DeviceBlocksLiveHolds, PTL

(* The assertion of virtq_put_free_desc never fails: what receive returns  *)
(* to the free list was taken from it.                                     *)
THEOREM PutNeverAborts ==
  ASSUME Handler = "excluded"
  PROVE  Spec => []PutAssertHolds
<1>1. IndInv => PutAssertHolds
  BY DEF IndInv
<1> QED
  BY <1>1, Invariance, PTL

(* The assertion of virtq_get_free_desc_id fails only when every           *)
(* descriptor is outstanding or was dropped by a failed allocation.        *)
THEOREM GetAbortsWhenFull ==
  ASSUME Handler = "excluded"
  PROVE  Spec => []AbortOnlyWhenFull
  BY Invariance, AbortOnlyWhenFullHolds, PTL
=============================================================================
