--------------------------- MODULE VirtioConsoleTx ---------------------------
(***************************************************************************)
(* The transmit queue of the VirtIO console under concurrency:             *)
(* virtio_console_transmit on several CPUs, virtio_console_receive called  *)
(* from the interrupt handler, and the device.                             *)
(*                                                                         *)
(* transmit works on the free list under tx_lock.  receive returns used    *)
(* descriptors to the same free list and takes no lock, so every load and  *)
(* store of the free list is a step of its own.  The rings are the FIFO    *)
(* queues that VirtQueue implements (module VirtqChannel).  A failed       *)
(* assert ends in _exit, which never returns: the CPU stops where it is,   *)
(* holding what it holds.                                                  *)
(*                                                                         *)
(* Handler tells how the application runs the handler: "excluded" while no *)
(* CPU is inside transmit, "preempt" on the one CPU that transmits, at any *)
(* of its steps and to completion, "smp" on a CPU of its own.              *)
(***************************************************************************)
EXTENDS Integers, Sequences, FiniteSets

CONSTANTS
  VIRTQ_SIZE,     \* descriptors of the transmit queue
  Cpus,           \* CPUs that call virtio_console_transmit
  Blocks,         \* I/O buffers the memory pool can hold at a time
  None,
  Handler,        \* "excluded", "preempt" or "smp"
  Disturbed       \* the values of "disturbed" to consider

ASSUME ConsoleTxAssumption ==
  /\ VIRTQ_SIZE \in Nat \ {0}
  /\ None \notin Cpus \cup Blocks
  /\ Handler \in {"excluded", "preempt", "smp"}
  /\ Handler = "preempt" => \E c \in Cpus : Cpus = {c}
  /\ Disturbed \subseteq BOOLEAN

Desc == 0 .. VIRTQ_SIZE - 1

VARIABLES
  disturbed, \* the device signals configuration changes and the receive
             \* queue may overflow the console buffer
  free,      \* the free list: desc[].next, desc_next_free, desc_num_free
  addr,      \* the block each descriptor points to
  pool,      \* allocated blocks
  availQ, usedQ,    \* the rings
  held,             \* descriptors the device is working on
  InterruptStatus,  \* pending interrupt causes
  tx_lock,   \* None or the CPU that holds it
  tx,        \* transmit, per CPU: next step, descriptor, loaded count
  rx,        \* receive: next step, descriptor, loaded count, interrupt causes
  leaked     \* history: descriptors dropped by a failed allocation

devVars == <<availQ, usedQ, held, InterruptStatus>>
memVars == <<addr, pool>>
vars    == <<disturbed, free, addr, pool, availQ, usedQ, held, InterruptStatus,
             tx_lock, tx, rx, leaked>>

Init ==
  /\ disturbed \in Disturbed
  /\ free = [next |-> [d \in Desc |-> IF d = VIRTQ_SIZE - 1 THEN 0 ELSE d + 1],
             head |-> 0, num |-> VIRTQ_SIZE]
  /\ addr = [d \in Desc |-> None]
  /\ pool = {}
  /\ availQ = << >> /\ usedQ = << >> /\ held = {}
  /\ InterruptStatus = {}
  /\ tx_lock = None
  /\ tx = [c \in Cpus |-> [pc |-> "idle", id |-> 0, num |-> 0]]
  /\ rx = [pc |-> "idle", id |-> 0, num |-> 0, stat |-> {}]
  /\ leaked = {}

-----------------------------------------------------------------------------
(* virtio_console_transmit: CPU c is about to execute step p.  A handler   *)
(* that preempts the CPU runs to completion first.                         *)
At(c, p) == tx[c].pc = p /\ (Handler = "preempt" => rx.pc = "idle")

LockIgnored(c) ==
  /\ At(c, "idle")
  /\ Handler = "excluded" => rx.pc = "idle"
  /\ tx_lock' = c
  /\ tx' = [tx EXCEPT ![c].pc = "head"]
  /\ UNCHANGED <<disturbed, free, memVars, devVars, rx, leaked>>

(* spin_lock(&tx_lock). *)
TxLock(c) ==
  /\ At(c, "idle")
  /\ Handler = "excluded" => rx.pc = "idle"
  /\ tx_lock = None
  /\ tx_lock' = c
  /\ tx' = [tx EXCEPT ![c].pc = "head"]
  /\ UNCHANGED <<disturbed, free, memVars, devVars, rx, leaked>>

(* virtq_get_free_desc_id: assert(virtq_has_free_slots(vq)) fails ...      *)
GetFreeAborts(c) ==
  /\ At(c, "head")
  /\ free.num = 0
  /\ tx' = [tx EXCEPT ![c].pc = "aborted"]
  /\ UNCHANGED <<disturbed, free, memVars, devVars, tx_lock, rx, leaked>>

(* ... or holds, and idx = desc_next_free;                                 *)
GetFreeHead(c) ==
  /\ At(c, "head")
  /\ free.num # 0
  /\ tx' = [tx EXCEPT ![c].pc = "link", ![c].id = free.head]
  /\ UNCHANGED <<disturbed, free, memVars, devVars, tx_lock, rx, leaked>>

(* desc_next_free = desc[idx].next;                                        *)
GetFreeLink(c) ==
  /\ At(c, "link")
  /\ free' = [free EXCEPT !.head = free.next[tx[c].id]]
  /\ tx' = [tx EXCEPT ![c].pc = "load"]
  /\ UNCHANGED <<disturbed, memVars, devVars, tx_lock, rx, leaked>>

(* desc_num_free--, a load and a store.                                    *)
GetFreeLoad(c) ==
  /\ At(c, "load")
  /\ tx' = [tx EXCEPT ![c].pc = "store", ![c].num = free.num]
  /\ UNCHANGED <<disturbed, free, memVars, devVars, tx_lock, rx, leaked>>

DecrementLost(c) ==
  /\ At(c, "store")
  /\ tx' = [tx EXCEPT ![c].pc = "alloc", ![c].num = 0]
  /\ UNCHANGED <<disturbed, free, memVars, devVars, tx_lock, rx, leaked>>

GetFreeStore(c) ==
  /\ At(c, "store")
  /\ free' = [free EXCEPT !.num = tx[c].num - 1]
  /\ tx' = [tx EXCEPT ![c].pc = "alloc", ![c].num = 0]
  /\ UNCHANGED <<disturbed, memVars, devVars, tx_lock, rx, leaked>>

(* The allocation fails, which it may do with room left in the pool (it    *)
(* looks only behind the last block and at the start, VirtioMemoryPool):   *)
(* transmit unlocks and returns, and nothing gives the descriptor back.    *)
AllocFails(c) ==
  /\ At(c, "alloc")
  /\ leaked' = leaked \cup {tx[c].id}
  /\ tx_lock' = None
  /\ tx' = [tx EXCEPT ![c].pc = "idle", ![c].id = 0]
  /\ UNCHANGED <<disturbed, free, memVars, devVars, rx>>

(* virtio_memory_pool_alloc, strcpy and virtq_desc_init.                   *)
FillDesc(c) ==
  /\ At(c, "alloc")
  /\ \E b \in Blocks \ pool :
       /\ pool' = pool \cup {b}
       /\ addr' = [addr EXCEPT ![tx[c].id] = b]
  /\ free' = [free EXCEPT !.next[tx[c].id] = 0]
  /\ tx' = [tx EXCEPT ![c].pc = "offer"]
  /\ UNCHANGED <<disturbed, devVars, tx_lock, rx, leaked>>

(* virtq_add_avail_buf and virtio_mmio_queue_notify.                       *)
Offer(c) ==
  /\ At(c, "offer")
  /\ availQ' = Append(availQ, tx[c].id)
  /\ tx' = [tx EXCEPT ![c].pc = "unlock", ![c].id = 0]
  /\ UNCHANGED <<disturbed, free, memVars, usedQ, held, InterruptStatus, tx_lock, rx, leaked>>

TxUnlock(c) ==
  /\ At(c, "unlock")
  /\ tx_lock' = None
  /\ tx' = [tx EXCEPT ![c].pc = "idle"]
  /\ UNCHANGED <<disturbed, free, memVars, devVars, rx, leaked>>

TransmitRest(c) ==
  \/ GetFreeAborts(c) \/ GetFreeHead(c) \/ GetFreeLink(c) \/ GetFreeLoad(c)
  \/ GetFreeStore(c) \/ AllocFails(c) \/ FillDesc(c) \/ Offer(c) \/ TxUnlock(c)

-----------------------------------------------------------------------------
(* virtio_console_receive, as far as it concerns the transmit queue.       *)

(* The interrupt is taken and InterruptStatus read ...                     *)
HandlerEnter ==
  /\ rx.pc = "idle"
  /\ InterruptStatus # {}
  /\ Handler = "excluded" => tx_lock = None
  /\ rx' = [rx EXCEPT !.pc = "ack", !.stat = InterruptStatus]
  /\ UNCHANGED <<disturbed, free, memVars, devVars, tx_lock, tx, leaked>>

(* ... and what was read is acknowledged; a configuration change ends the  *)
(* handler here.                                                           *)
HandlerAck ==
  /\ rx.pc = "ack"
  /\ InterruptStatus' = InterruptStatus \ rx.stat
  /\ rx' = [rx EXCEPT !.pc = IF "CONFIG" \in rx.stat THEN "idle" ELSE "rxq",
                      !.stat = {}]
  /\ UNCHANGED <<disturbed, free, memVars, availQ, usedQ, held, tx_lock, tx, leaked>>

(* The receive queue is served first, see VirtioConsoleRx; an overflow of  *)
(* the console buffer ends the handler.                                    *)
HandlerRxQueue ==
  /\ rx.pc = "rxq"
  /\ \E p \in {"used"} \cup (IF disturbed THEN {"idle"} ELSE {}) :
       rx' = [rx EXCEPT !.pc = p]
  /\ UNCHANGED <<disturbed, free, memVars, devVars, tx_lock, tx, leaked>>

(* virtq_used_has_buf is false: the loop ends ...                          *)
HandlerLeave ==
  /\ rx.pc = "used"
  /\ usedQ = << >>
  /\ rx' = [rx EXCEPT !.pc = "idle"]
  /\ UNCHANGED <<disturbed, free, memVars, devVars, tx_lock, tx, leaked>>

(* ... or true: virtq_get_used_buf_id.                                     *)
GetUsed ==
  /\ rx.pc = "used"
  /\ usedQ # << >>
  /\ rx' = [rx EXCEPT !.pc = "link", !.id = Head(usedQ)]
  /\ usedQ' = Tail(usedQ)
  /\ UNCHANGED <<disturbed, free, memVars, availQ, held, InterruptStatus, tx_lock, tx, leaked>>

(* virtq_put_free_desc: assert(desc_num_free < VIRTQ_SIZE) fails, or it    *)
(* holds and desc[id].next = desc_next_free;                               *)
PutFreeLink ==
  /\ rx.pc = "link"
  /\ IF free.num < VIRTQ_SIZE
     THEN /\ free' = [free EXCEPT !.next[rx.id] = free.head]
          /\ rx' = [rx EXCEPT !.pc = "head"]
     ELSE /\ rx' = [rx EXCEPT !.pc = "aborted"]
          /\ UNCHANGED free
  /\ UNCHANGED <<disturbed, memVars, devVars, tx_lock, tx, leaked>>

(* desc_next_free = id;                                                    *)
PutFreeHead ==
  /\ rx.pc = "head"
  /\ free' = [free EXCEPT !.head = rx.id]
  /\ rx' = [rx EXCEPT !.pc = "load"]
  /\ UNCHANGED <<disturbed, memVars, devVars, tx_lock, tx, leaked>>

(* desc_num_free++, a load and a store.                                    *)
PutFreeLoad ==
  /\ rx.pc = "load"
  /\ rx' = [rx EXCEPT !.pc = "store", !.num = free.num]
  /\ UNCHANGED <<disturbed, free, memVars, devVars, tx_lock, tx, leaked>>

IncrementLost ==
  /\ rx.pc = "store"
  /\ rx' = [rx EXCEPT !.pc = "free", !.num = 0]
  /\ UNCHANGED <<disturbed, free, memVars, devVars, tx_lock, tx, leaked>>

PutFreeStore ==
  /\ rx.pc = "store"
  /\ free' = [free EXCEPT !.num = rx.num + 1]
  /\ rx' = [rx EXCEPT !.pc = "free", !.num = 0]
  /\ UNCHANGED <<disturbed, memVars, devVars, tx_lock, tx, leaked>>

PoolFreeSkipped ==
  /\ rx.pc = "free"
  /\ rx' = [rx EXCEPT !.pc = "used", !.id = 0]
  /\ UNCHANGED <<disturbed, free, memVars, devVars, tx_lock, tx, leaked>>

OneBufferPerInterrupt ==
  /\ rx.pc = "free"
  /\ pool' = pool \ {addr[rx.id]}
  /\ rx' = [rx EXCEPT !.pc = "idle", !.id = 0]
  /\ UNCHANGED <<disturbed, free, addr, devVars, tx_lock, tx, leaked>>

(* virtio_memory_pool_free of what the descriptor points to by now.        *)
PoolFree ==
  /\ rx.pc = "free"
  /\ pool' = pool \ {addr[rx.id]}
  /\ rx' = [rx EXCEPT !.pc = "used", !.id = 0]
  /\ UNCHANGED <<disturbed, free, addr, devVars, tx_lock, tx, leaked>>

ReceiveRest ==
  \/ HandlerAck \/ HandlerRxQueue \/ HandlerLeave \/ GetUsed \/ PutFreeLink \/ PutFreeHead
  \/ PutFreeLoad \/ PutFreeStore \/ PoolFree

-----------------------------------------------------------------------------
(* The device (external).                                                  *)

DeviceFetch ==
  /\ availQ # << >>
  /\ held' = held \cup {Head(availQ)}
  /\ availQ' = Tail(availQ)
  /\ UNCHANGED <<disturbed, free, memVars, usedQ, InterruptStatus, tx_lock, tx, rx, leaked>>

DeviceComplete(d) ==
  /\ d \in held
  /\ held' = held \ {d}
  /\ usedQ' = Append(usedQ, d)
  /\ InterruptStatus' = InterruptStatus \cup {"VRING"}
  /\ UNCHANGED <<disturbed, free, memVars, availQ, tx_lock, tx, rx, leaked>>

DeviceConfig ==
  /\ disturbed
  /\ InterruptStatus' = InterruptStatus \cup {"CONFIG"}
  /\ UNCHANGED <<disturbed, free, memVars, availQ, usedQ, held, tx_lock, tx, rx, leaked>>

Next ==
  \/ \E c \in Cpus : TxLock(c) \/ TransmitRest(c)
  \/ HandlerEnter
  \/ ReceiveRest
  \/ DeviceFetch
  \/ \E d \in Desc : DeviceComplete(d)
  \/ DeviceConfig

Spec == Init /\ [][Next]_vars

(***************************************************************************)
(* Fairness: a CPU that runs executes its next instruction, a pending      *)
(* interrupt is taken, the device works.  Nobody is obliged to transmit.   *)
(***************************************************************************)
Fairness ==
  /\ \A c \in Cpus : WF_vars(TransmitRest(c))
  /\ SF_vars(HandlerEnter)
  /\ WF_vars(ReceiveRest)
  /\ WF_vars(DeviceFetch)
  /\ \A d \in Desc : WF_vars(DeviceComplete(d))

FairSpec == Spec /\ Fairness

-----------------------------------------------------------------------------
Elements(s) == {s[i] : i \in DOMAIN s}

Outstanding == Elements(availQ) \cup held \cup Elements(usedQ)

(* No CPU and no handler is in the middle of an operation.                 *)
Quiet == rx.pc = "idle" /\ \A c \in Cpus : tx[c].pc \in {"idle", "unlock"}

FreeChain(c) ==
  /\ \A i, j \in 1 .. free.num : c[i] = c[j] => i = j
  /\ free.num > 0 => c[1] = free.head
  /\ \A i \in 1 .. free.num - 1 : free.next[c[i]] = c[i + 1]

(* Between operations every descriptor is on the free list, or is once     *)
(* with the device or in a ring, or was dropped by a transmit whose        *)
(* allocation failed; and the pool holds exactly the outstanding buffers:  *)
(* tx_lock is enough when the handler is kept out of transmit.             *)
Conserved ==
  Quiet =>
    /\ \E c \in [1 .. free.num -> Desc] :
         FreeChain(c) /\ Elements(c) = Desc \ (Outstanding \cup leaked)
    /\ Len(availQ) + Cardinality(held) + Len(usedQ) = Cardinality(Outstanding)
    /\ pool = {addr[d] : d \in Outstanding}

(* A block the device may still read is allocated and described by one     *)
(* descriptor only, at every moment of transmit and receive.               *)
DeviceBlocksLive ==
  LET visible == Elements(availQ) \cup held
  IN /\ \A d \in visible : addr[d] \in pool
     /\ \A d, e \in visible : addr[d] = addr[e] => d = e

(* assert(vq->desc_num_free < VIRTQ_SIZE) in virtq_put_free_desc holds.    *)
PutAssertHolds == rx.pc # "aborted"

(* assert(virtq_has_free_slots(vq)) in virtq_get_free_desc_id holds.       *)
GetAssertHolds == \A c \in Cpus : tx[c].pc # "aborted"

(* virtq_get_free_desc_id stops a CPU only when every descriptor is        *)
(* outstanding or dropped.                                                 *)
AbortOnlyWhenFull == GetAssertHolds \/ Outstanding \cup leaked = Desc

(* The backend "signal[s] the driver that it can reuse the buffers": what  *)
(* the device completed is eventually taken off the used ring, however     *)
(* interrupts and acknowledgements fall, unless a configuration change or  *)
(* an overflow ends receive early, or a failed assertion stopped a CPU     *)
(* that holds tx_lock.                                                     *)
UsedIsReaped ==
  \A d \in Desc :
    ~disturbed /\ d \in Elements(usedQ) ~> d \notin Elements(usedQ) \/ ~GetAssertHolds
=============================================================================
