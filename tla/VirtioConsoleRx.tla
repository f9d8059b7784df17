--------------------------- MODULE VirtioConsoleRx ---------------------------
(***************************************************************************)
(* The receive path of the VirtIO console: virtio_console_receive, the     *)
(* console receive buffer it assembles, and virtio_console_rx_print_buffer *)
(* called by a reader, which shares the buffer under rx_lock.              *)
(*                                                                         *)
(* The receive queue is the FIFO that VirtQueue implements.  All its       *)
(* buffers are offered by virtio_console_init; receive returns used        *)
(* descriptors to the free list and never offers one again.  The transmit  *)
(* queue appears as the number of completed buffers receive has to reap.   *)
(*                                                                         *)
(* The device may fill buffers before virtio_console_init has set "ready"; *)
(* until then receive returns false and leaves the interrupt pending.      *)
(*                                                                         *)
(* A chunk is what the device wrote to one receive buffer: len times the   *)
(* character ch, then the zeros the memory pool was initialised with.      *)
(***************************************************************************)
EXTENDS Integers, Sequences, SequencesExt, FiniteSetsExt, VirtioConsoleShared

CONSTANTS
  RX_CONSOLE_SIZE,  \* bytes of the console receive buffer (4 * 64)
  RX_BUFFERS,       \* receive buffers, one per descriptor (VIRTQ_SIZE)
  Chars,            \* characters the peer sends
  Nul, Junk,        \* the NUL character; whatever memory held before
  MaxSend,          \* bound: chunks the peer sends
  MaxTx,            \* bound: transmit completions
  Preempt,          \* the handler interrupts the reader's CPU (else another)
  Disturbed         \* the values of "disturbed" to consider

ASSUME ConsoleRxAssumption ==
  /\ RX_BUFFER_SIZE \in Nat /\ RX_BUFFER_SIZE >= 2
  /\ RX_CONSOLE_SIZE \in Nat /\ RX_CONSOLE_SIZE > RX_BUFFER_SIZE
  /\ RX_BUFFERS \in Nat /\ MaxSend \in Nat /\ MaxTx \in Nat
  /\ Preempt \in BOOLEAN /\ Disturbed \subseteq BOOLEAN
  /\ Nul # Junk /\ {Nul, Junk} \cap Chars = {}

Chunk == [ch : Chars, len : 1 .. RX_BUFFER_SIZE]

Data(k) == [i \in 0 .. RX_BUFFER_SIZE - 1 |-> IF i < k.len THEN k.ch ELSE Nul]

VARIABLES
  disturbed,        \* the device signals configuration changes
  offered,          \* receive buffers in the available ring
  used,             \* chunks in the used ring, oldest first
  sent,             \* chunks the peer has handed to the device
  txUsed,           \* completed transmit buffers
  InterruptStatus,
  rx_buffer, rx_buffer_pos,
  rx_lock,          \* "free", or "reader" across the reader's printf
  hpc, cause,       \* receive: next step, the interrupt causes it read
  got,              \* history: chunks taken since the buffer was last reset
  received               \* what the last receive returned

rxOwn   == <<disturbed, offered, used, sent, txUsed, InterruptStatus, rx_buffer,
             rx_buffer_pos, rx_lock, hpc, cause, got, received>>
devVars == <<offered, used, sent, txUsed, InterruptStatus>>
bufVars == <<rx_buffer, rx_buffer_pos>>
rxVars  == <<ready, disturbed, offered, used, sent, txUsed, InterruptStatus, rx_buffer,
             rx_buffer_pos, rx_lock, hpc, cause, got, received>>

(* virtio_console_init clears only the first byte of the buffer.           *)
RxInit ==
  /\ ready = FALSE
  /\ disturbed \in Disturbed
  /\ offered = RX_BUFFERS
  /\ used = << >> /\ sent = 0 /\ txUsed = 0
  /\ InterruptStatus = {}
  /\ \E x \in {Nul, Junk} :
       rx_buffer = [i \in 0 .. RX_CONSOLE_SIZE - 1 |-> IF i = 0 THEN Nul ELSE x]
  /\ rx_buffer_pos = 0
  /\ rx_lock = "free"
  /\ hpc = "idle" /\ cause = {}
  /\ got = << >> /\ received = FALSE

-----------------------------------------------------------------------------
(* virtio_console_receive.                                                 *)

AckWhenNotReady ==
  /\ hpc = "idle"
  /\ InterruptStatus # {}
  /\ IF ready
     THEN cause' = InterruptStatus /\ hpc' = "ack" /\ UNCHANGED InterruptStatus
     ELSE InterruptStatus' = {} /\ UNCHANGED <<cause, hpc>>
  /\ UNCHANGED <<disturbed, ready, offered, used, sent, txUsed, bufVars, rx_lock, got, received>>

(* The interrupt is taken and InterruptStatus read; a console that is not  *)
(* ready makes receive return at once, with nothing changed ...            *)
HandlerEnter ==
  /\ hpc = "idle" /\ ready
  /\ InterruptStatus # {}
  /\ cause' = InterruptStatus
  /\ hpc' = "ack"
  /\ UNCHANGED <<disturbed, ready, devVars, bufVars, rx_lock, got, received>>

(* ... and acknowledged; a configuration change returns false at once.     *)
HandlerAck ==
  /\ hpc = "ack"
  /\ InterruptStatus' = InterruptStatus \ cause
  /\ cause' = {}
  /\ received' = FALSE
  /\ hpc' = IF "CONFIG" \in cause THEN "idle" ELSE "reset"
  /\ UNCHANGED <<disturbed, ready, offered, used, sent, txUsed, bufVars, rx_lock, got>>

ResetKeepsText ==
  /\ hpc = "reset" /\ rx_lock = "free"
  /\ rx_buffer_pos' = 0
  /\ got' = << >>
  /\ hpc' = "take"
  /\ UNCHANGED <<disturbed, ready, devVars, rx_buffer, rx_lock, cause, received>>

(* The message of the last receive is gone, read or not.                   *)
virtio_console_rx_reset_buffer ==
  /\ hpc = "reset" /\ rx_lock = "free"
  /\ rx_buffer' = [rx_buffer EXCEPT ![0] = Nul]
  /\ rx_buffer_pos' = 0
  /\ got' = << >>
  /\ hpc' = "take"
  /\ UNCHANGED <<disturbed, ready, devVars, rx_lock, cause, received>>

(* The loop on the receive queue: virtq_get_used_buf_id and                *)
(* virtq_put_free_desc, without virtq_add_avail_buf.                       *)
TakeUsed ==
  /\ hpc = "take"
  /\ used # << >>
  /\ got' = Append(got, Head(used))
  /\ used' = Tail(used)
  /\ hpc' = "append"
  /\ UNCHANGED <<disturbed, ready, offered, sent, txUsed, InterruptStatus, bufVars, rx_lock, cause, received>>

TakeNone ==
  /\ hpc = "take"
  /\ used = << >>
  /\ hpc' = "tx"
  /\ UNCHANGED <<disturbed, ready, devVars, bufVars, rx_lock, cause, got, received>>

(* The test that rx_append_buffer makes.                                   *)
FullLate == rx_buffer_pos >= RX_CONSOLE_SIZE

RxFull == rx_buffer_pos >= RX_CONSOLE_SIZE - RX_BUFFER_SIZE

(* The copy loop runs from rx_buffer_pos to RX_BUFFER_SIZE - 2; then       *)
(* virtio_memory_pool_free.  A full buffer ends receive with false.        *)
virtio_console_rx_append_buffer ==
  /\ hpc = "append" /\ rx_lock = "free"
  /\ IF RxFull
     THEN /\ hpc' = "idle"
          /\ UNCHANGED bufVars
     ELSE /\ rx_buffer' =
               [i \in DOMAIN rx_buffer |->
                  IF i \in rx_buffer_pos .. RX_BUFFER_SIZE - 2
                  THEN Data(Last(got))[i] ELSE rx_buffer[i]]
          /\ rx_buffer_pos' = rx_buffer_pos + RX_BUFFER_SIZE - 1
          /\ hpc' = "take"
  /\ UNCHANGED <<disturbed, ready, devVars, rx_lock, cause, got, received>>

TxSkipped ==
  /\ hpc = "tx"
  /\ hpc' = "null"
  /\ UNCHANGED <<disturbed, ready, devVars, bufVars, rx_lock, cause, got, received>>

(* The loop on the transmit queue: see VirtioConsoleTx.                    *)
DrainTx ==
  /\ hpc = "tx"
  /\ txUsed' = 0
  /\ hpc' = "null"
  /\ UNCHANGED <<disturbed, ready, offered, used, sent, InterruptStatus, bufVars, rx_lock, cause, got, received>>

NullHasRoom == rx_buffer_pos < RX_CONSOLE_SIZE - 1

(* rx_append_null, and rx_has_buffers, whose answer receive returns; a     *)
(* terminator that does not fit makes receive return false.                *)
virtio_console_rx_append_null ==
  /\ hpc = "null" /\ rx_lock = "free"
  /\ IF NullHasRoom
     THEN /\ rx_buffer' = [rx_buffer EXCEPT ![rx_buffer_pos] = Nul]
          /\ rx_buffer_pos' = rx_buffer_pos + 1
          /\ received' = (rx_buffer_pos + 1 > 1)
     ELSE UNCHANGED <<bufVars, received>>
  /\ hpc' = "idle"
  /\ UNCHANGED <<disturbed, ready, devVars, rx_lock, cause, got>>

HandlerRest ==
  \/ HandlerAck \/ virtio_console_rx_reset_buffer \/ TakeUsed \/ TakeNone
  \/ virtio_console_rx_append_buffer \/ DrainTx \/ virtio_console_rx_append_null

-----------------------------------------------------------------------------
(* virtio_console_rx_print_buffer: printf runs between lock and unlock.    *)

ReaderRuns == Preempt => hpc = "idle"

PrintLock ==
  /\ ReaderRuns
  /\ rx_lock = "free"
  /\ rx_lock' = "reader"
  /\ UNCHANGED <<disturbed, ready, devVars, bufVars, hpc, cause, got, received>>

UnlockForgotten ==
  /\ ReaderRuns
  /\ rx_lock = "reader"
  /\ UNCHANGED rxVars

PrintUnlock ==
  /\ ReaderRuns
  /\ rx_lock = "reader"
  /\ rx_lock' = "free"
  /\ UNCHANGED <<disturbed, ready, devVars, bufVars, hpc, cause, got, received>>

-----------------------------------------------------------------------------
(* The device (external): it fills an offered buffer, completes transmit   *)
(* buffers and changes its configuration.                                  *)
DeviceFill(k) ==
  /\ sent < MaxSend
  /\ offered > 0
  /\ offered' = offered - 1
  /\ sent' = sent + 1
  /\ used' = Append(used, k)
  /\ InterruptStatus' = InterruptStatus \cup {"VRING"}
  /\ UNCHANGED <<disturbed, ready, txUsed, bufVars, rx_lock, hpc, cause, got, received>>

DeviceTxDone ==
  /\ ready
  /\ txUsed < MaxTx
  /\ txUsed' = txUsed + 1
  /\ InterruptStatus' = InterruptStatus \cup {"VRING"}
  /\ UNCHANGED <<disturbed, ready, offered, used, sent, bufVars, rx_lock, hpc, cause, got, received>>

DeviceConfig ==
  /\ disturbed
  /\ InterruptStatus' = InterruptStatus \cup {"CONFIG"}
  /\ UNCHANGED <<disturbed, ready, offered, used, sent, txUsed, bufVars, rx_lock, hpc, cause, got, received>>

(* The last step of virtio_console_init: see VirtioConsoleInit.            *)
ConsoleReady ==
  /\ ready' = TRUE
  /\ UNCHANGED rxOwn

RxNext ==
  \/ HandlerEnter \/ HandlerRest
  \/ PrintLock \/ PrintUnlock
  \/ \E k \in Chunk : DeviceFill(k)
  \/ DeviceTxDone
  \/ DeviceConfig
  \/ ConsoleReady

RxSpec == RxInit /\ [][RxNext]_rxVars

(***************************************************************************)
(* Fairness: the console becomes ready, pending interrupts are taken, a    *)
(* running CPU executes its next step, a spinning lock attempt succeeds if *)
(* the lock is free again and again, and the peer sends all it has.        *)
(***************************************************************************)
RxFairness ==
  /\ WF_rxVars(ConsoleReady)
  /\ WF_rxVars(HandlerEnter)
  /\ SF_rxVars(HandlerRest)
  /\ WF_rxVars(PrintUnlock)
  /\ WF_rxVars(\E k \in Chunk : DeviceFill(k))

RxFairSpec == RxSpec /\ RxFairness

-----------------------------------------------------------------------------
(* The C string in the buffer: up to the first NUL, or to the end.         *)
CString ==
  LET nuls == {i \in DOMAIN rx_buffer : rx_buffer[i] = Nul}
      n    == IF nuls = {} THEN RX_CONSOLE_SIZE ELSE Min(nuls)
  IN [i \in 1 .. n |-> rx_buffer[i - 1]]

(* What the driver keeps of a chunk: at most RX_BUFFER_SIZE - 1 bytes.     *)
Text(k) == [i \in 1 .. Min({k.len, RX_BUFFER_SIZE - 1}) |-> k.ch]

(* However many buffers were appended, the terminator of rx_append_null    *)
(* fits: its failing branch is dead code.                                  *)
NullFits == hpc = "null" => NullHasRoom

(* When receive has returned true the buffer holds a terminated string     *)
(* that starts with the text of the first chunk, and is exactly that text  *)
(* when the chunk came alone, whatever the buffer held before and whatever *)
(* the reader did meanwhile.                                               *)
FirstChunkStored ==
  hpc = "idle" /\ received =>
    /\ got # << >>
    /\ Len(CString) < RX_CONSOLE_SIZE
    /\ IsPrefix(Text(Head(got)), CString)
    /\ Len(got) = 1 => CString = Text(Head(got))

(* The texts of the first m chunks, one after the other.                   *)
Joined(m) ==
  IF m = 1 THEN Text(Head(got))
  ELSE FlattenSeq([j \in 1 .. m |-> Text(got[j])])

(* Under rx_lock virtio_console_rx_print_buffer prints nothing or the text *)
(* of the chunks appended so far, though every receive empties the buffer  *)
(* before it is read and fills it under several critical sections: never a *)
(* mix of an old and a new message, nor text behind the end of one.  Some  *)
(* chunks may be left out at the end: as it is, the code stores the first. *)
(* For a console object in zeroed memory; from junk the text has no end    *)
(* before rx_append_null.                                                  *)
PrintsWholeMessage ==
  rx_lock = "reader" /\ (\A i \in DOMAIN rx_buffer : rx_buffer[i] # Junk) =>
    CString = << >> \/ \E m \in 1 .. Len(got) : CString = Joined(m)

(* receive, an interrupt handler, returns.                                 *)
HandlerReturns == hpc # "idle" ~> hpc = "idle"

(* A completed transmit buffer is reaped by some later receive, unless a   *)
(* configuration change or a full console buffer ends receive early.       *)
TxReaped ==
  ~disturbed /\ txUsed > 0 ~>
    txUsed = 0 \/ (hpc = "idle" /\ ~received /\ got # << >>)

(* receive "will extract the received message": everything the peer sends  *)
(* reaches the driver.                                                     *)
AllInputReceived == <>(sent = MaxSend)
=============================================================================
