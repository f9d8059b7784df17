-------------------------------- MODULE Uart --------------------------------
(***************************************************************************)
(* The four UART drivers behind uart_init, uart_putc, uart_getchar,        *)
(* uart_enable_rxirq and uart_clear_rxirq, as the platforms call them, and *)
(* the output path of retarget.c on top of uart_putc.                      *)
(*                                                                         *)
(* CPU 0 initialises the UART and enables its receive interrupt.  Then the *)
(* CPUs print under print_lock or read a character, and one CPU at a time  *)
(* is in the receive handler, which prints without print_lock (main.c).    *)
(* Characters are counted, not named.  Divisors and line settings are left *)
(* out.                                                                    *)
(*                                                                         *)
(* The devices: the receive interrupt of a PL011 and of a Zynq UART is     *)
(* latched when a character arrives and cleared by a write (on a PL011 by  *)
(* emptying the receiver too); that of an 8250 and of an LPUART is on      *)
(* while there is a character.  An LPUART with its overrun flag set        *)
(* receives nothing.                                                       *)
(***************************************************************************)
EXTENDS Naturals, Sequences

CONSTANTS
  DRIVERS,    \* the drivers to consider
  POLLED,     \* those on which a CPU also calls uart_getchar
  NumCpus,
  FIFO,       \* depth of the FIFOs that are enabled: 8250 and Zynq
  MAX_RX,     \* bound: characters that arrive
  MAX_TX      \* bound: characters printed

Cpus == 0 .. NumCpus - 1

ASSUME UartAssumption ==
  /\ DRIVERS \subseteq {"pl011", "zynq", "8250", "nxp"}
  /\ POLLED \subseteq DRIVERS
  /\ NumCpus \in Nat \ {0}
  /\ FIFO \in Nat \ {0}
  /\ MAX_RX \in Nat /\ MAX_TX \in Nat

VARIABLES
  drv,        \* the driver of this platform
  rxOn,       \* the receiver is enabled
  rx,         \* characters in the receiver
  raw,        \* the latched receive interrupt
  irqEn,      \* the receive interrupt is enabled in the UART
  overrun,    \* the overrun flag of an LPUART
  tx,         \* characters in the transmitter
  setup,      \* steps left of uart_init and uart_enable_rxirq on CPU 0
  thread,     \* per CPU, "idle" or where it is in uart_putc or uart_getchar
  handler,    \* "none" or where the receive handler is
  on,         \* the CPU the handler runs on
  printer,    \* the CPUs that hold print_lock: one or none
  arrived,    \* characters that arrived
  printed,    \* characters printed
  late,       \* history: a character came in before the latch was cleared
  taken,      \* per CPU, history: another reader took a character since its
              \* look in uart_getchar
  clash,      \* history: a store to the transmitter between check and store
  dropped,    \* history: a character was stored into a full transmitter
  deaf        \* history: the overrun flag of an LPUART is set and no character
              \* is left to interrupt for, since boot or since uart_getchar

device == <<rxOn, rx, raw, irqEn, overrun, tx>>
input == <<late, taken>>
history == <<input, clash, dropped, deaf>>
vars == <<drv, device, setup, thread, handler, on, printer, arrived, printed, history>>

(* pl011_uart_init and nxp_uart_init leave the FIFOs off.                  *)
Depth == IF drv \in {"pl011", "nxp"} THEN 1 ELSE FIFO

Latched == drv \in {"pl011", "zynq"}
Irq == irqEn /\ (IF Latched THEN raw ELSE rx > 0)

(***************************************************************************)
(* uart_init as the register writes that matter, then uart_enable_rxirq,   *)
(* which is empty on a PL011.                                              *)
(***************************************************************************)
uart_init ==
  CASE drv = "pl011" -> <<"off", "loopback", "busy", "on", "clear", "irq_on", "on">>
    [] drv = "zynq"  -> <<"off", "reset", "on", "clear", "irq_on", "reset", "reset", "on">>
    [] drv = "8250"  -> <<"irq_off", "on", "read">>
    [] drv = "nxp"   -> <<"irq_off", "on">>

uart_enable_rxirq == IF drv = "pl011" THEN << >> ELSE <<"irq_on">>

(* What an earlier boot stage left in the device is junk.                  *)
Init ==
  /\ drv \in DRIVERS
  /\ rxOn \in BOOLEAN
  /\ rx \in {0, 1}
  /\ raw \in BOOLEAN
  /\ irqEn \in BOOLEAN
  /\ overrun \in IF drv = "nxp" THEN BOOLEAN ELSE {FALSE}
  /\ tx = 0
  /\ setup = uart_init \o uart_enable_rxirq
  /\ thread = [c \in Cpus |-> "idle"]
  /\ handler = "none" /\ on = 0
  /\ printer = {}
  /\ arrived = 0 /\ printed = 0
  /\ late = (rx > 0) /\ taken = [c \in Cpus |-> FALSE]
  /\ clash = FALSE /\ dropped = FALSE /\ deaf = (overrun /\ rx = 0)

-----------------------------------------------------------------------------
(* A read of the data register takes a character if there is one, and the  *)
(* CPUs between look and read in uart_getchar miss it.                     *)
ReadBy(readers) ==
  LET left == IF rx = 0 THEN 0 ELSE rx - 1
  IN /\ rx' = left
     /\ raw' = (raw /\ ~(drv = "pl011" /\ left = 0))
     /\ late' = (late /\ left > 0)
     /\ taken' = [c \in Cpus |->
          thread[c] = "get" /\ c \notin readers /\ (taken[c] \/ rx > 0)]

ReadData == ReadBy({})

SetupStep(op) ==
  /\ setup # << >> /\ Head(setup) = op
  /\ setup' = Tail(setup)
  /\ UNCHANGED <<drv, overrun, thread, handler, on, printer, arrived, printed, clash, dropped, deaf>>

SetupControl ==
  /\ \/ SetupStep("off") /\ rxOn' = FALSE
     \/ SetupStep("on") /\ rxOn' = TRUE
  /\ UNCHANGED <<rx, raw, irqEn, tx, input>>

(* UART_CONTROL_RXRES and UART_CONTROL_TXRES empty the FIFOs.              *)
SetupReset ==
  /\ SetupStep("reset")
  /\ rx' = 0 /\ tx' = 0 /\ late' = FALSE
  /\ UNCHANGED <<rxOn, raw, irqEn, taken>>

SetupIrq ==
  /\ \/ SetupStep("clear") /\ raw' = FALSE /\ UNCHANGED irqEn
     \/ SetupStep("irq_on") /\ irqEn' = TRUE /\ UNCHANGED raw
     \/ SetupStep("irq_off") /\ irqEn' = FALSE /\ UNCHANGED raw
  /\ UNCHANGED <<rxOn, rx, tx, input>>

(* The 8250 driver reads the receive buffer once.                          *)
SetupRead ==
  /\ SetupStep("read")
  /\ ReadData
  /\ UNCHANGED <<rxOn, irqEn, tx>>

(* The PL011 driver sends a zero to itself with the receiver off, and      *)
(* waits while the UART is busy.                                           *)
SetupLoopback ==
  /\ \/ SetupStep("loopback") /\ tx' = 1
     \/ tx = 0 /\ SetupStep("busy") /\ UNCHANGED tx
  /\ UNCHANGED <<rxOn, rx, raw, irqEn, input>>

Running == setup = << >>

-----------------------------------------------------------------------------
(* uart_putc: wait until the transmitter is not full, on an 8250 until it  *)
(* is empty ...                                                            *)
Room == IF drv = "8250" THEN tx = 0 ELSE tx < Depth

(* ... and store the character; clash records that another context is      *)
(* between its check and its store.                                        *)
StoreChar(others) ==
  /\ tx' = IF tx < Depth THEN tx + 1 ELSE tx
  /\ dropped' = (dropped \/ tx = Depth)
  /\ clash' = (clash \/ others)
  /\ UNCHANGED deaf

ThreadRuns(c) == Running /\ ~(handler # "none" /\ on = c)

ThreadGoto(c, from, to) ==
  /\ ThreadRuns(c)
  /\ thread[c] = from
  /\ thread' = [thread EXCEPT ![c] = to]
  /\ UNCHANGED <<drv, rxOn, irqEn, overrun, setup, handler, on, arrived>>

(* printf under print_lock, one character of it.                           *)
PrintLock(c) ==
  /\ printer = {} /\ printed < MAX_TX
  /\ ThreadGoto(c, "idle", "put")
  /\ printer' = {c}
  /\ printed' = printed + 1
  /\ UNCHANGED <<rx, raw, tx, history>>

PutUnchecked(c) ==
  /\ ThreadGoto(c, "put", "store")
  /\ UNCHANGED <<rx, raw, tx, printer, printed, history>>

PutWait(c) ==
  /\ Room
  /\ ThreadGoto(c, "put", "store")
  /\ UNCHANGED <<rx, raw, tx, printer, printed, history>>

PutStore(c) ==
  /\ ThreadGoto(c, "store", "idle")
  /\ StoreChar(handler = "store")
  /\ printer' = {}
  /\ UNCHANGED <<rx, raw, printed, input>>

GetcUnchecked(c) ==
  /\ drv \in POLLED
  /\ ThreadGoto(c, "idle", "get")
  /\ UNCHANGED <<rx, raw, tx, printer, printed, history>>

(***************************************************************************)
(* uart_getchar.  The PL011 driver waits while the receiver is NOT empty;  *)
(* the condition of the Zynq driver is false as soon as any status bit is  *)
(* set, and one of "empty" and "trigger level reached" always is; the 8250 *)
(* driver returns -1 when there is no character; the LPUART driver reads.  *)
(***************************************************************************)
GetcWait(c) ==
  /\ drv \in POLLED
  /\ drv = "pl011" => rx = 0
  /\ drv # "8250" \/ rx > 0
  /\ ThreadGoto(c, "idle", "get")
  /\ UNCHANGED <<rx, raw, tx, printer, printed, history>>

GetcRead(c) ==
  /\ ThreadGoto(c, "get", "idle")
  /\ ReadBy({c})
  /\ deaf' = (deaf \/ (overrun /\ rx <= 1))
  /\ UNCHANGED <<tx, printer, printed, clash, dropped>>

-----------------------------------------------------------------------------
HandlerGoto(from, to) ==
  /\ handler = from
  /\ handler' = to
  /\ UNCHANGED <<drv, rxOn, irqEn, setup, thread, printer, arrived, printed>>

(* uart_rx_handler prints, then calls uart_clear_rxirq.                    *)
HandlerEnter ==
  /\ Running /\ Irq
  /\ HandlerGoto("none", "put")
  /\ on' \in Cpus
  /\ UNCHANGED <<rx, raw, overrun, tx, history>>

HandlerPut ==
  /\ \/ /\ Room
        /\ HandlerGoto("put", "store")
        /\ UNCHANGED <<tx, clash, dropped, deaf>>
     \/ /\ HandlerGoto("store", "drain")
        /\ StoreChar(\E c \in Cpus : thread[c] = "store")
  /\ UNCHANGED <<on, rx, raw, overrun, input>>

ClearFirst ==
  /\ Latched
  /\ \/ /\ HandlerGoto("drain", "clear") /\ UNCHANGED raw
     \/ /\ HandlerGoto("clear", "none") /\ raw' = FALSE
  /\ UNCHANGED <<on, rx, overrun, tx, history>>

(* PL011 and Zynq: read until the receiver is empty, then clear the latch. *)
DrainLatched ==
  /\ Latched
  /\ \/ rx > 0 /\ HandlerGoto("drain", "drain") /\ ReadData
     \/ rx = 0 /\ HandlerGoto("drain", "clear") /\ UNCHANGED <<rx, raw, input>>
     \/ HandlerGoto("clear", "none") /\ raw' = FALSE /\ UNCHANGED <<rx, input>>
  /\ UNCHANGED <<on, overrun, tx, clash, dropped, deaf>>

(* 8250: read one character.                                               *)
uart8250_interrupt_handler ==
  /\ drv = "8250"
  /\ HandlerGoto("drain", "none")
  /\ ReadData
  /\ UNCHANGED <<on, overrun, tx, clash, dropped, deaf>>

OverrunKept ==
  /\ drv = "nxp"
  /\ HandlerGoto("drain", "none")
  /\ ReadData
  /\ UNCHANGED <<on, overrun, tx, clash, dropped, deaf>>

(* LPUART: read one character, then clear the overrun flag.                *)
nxp_uart_clear_rxirq ==
  /\ drv = "nxp"
  /\ \/ HandlerGoto("drain", "clear") /\ ReadData /\ UNCHANGED <<overrun, deaf>>
     \/ /\ HandlerGoto("clear", "none")
        /\ overrun' = FALSE /\ deaf' = FALSE
        /\ UNCHANGED <<rx, raw, input>>
  /\ UNCHANGED <<on, tx, clash, dropped>>

-----------------------------------------------------------------------------
(* External: a character arrives.                                          *)
Receive ==
  /\ rxOn /\ arrived < MAX_RX
  /\ arrived' = arrived + 1
  /\ IF rx < Depth /\ ~overrun
     THEN /\ rx' = rx + 1
          /\ raw' = (raw \/ Latched)
          /\ late' = (late \/ ~Running \/ handler = "clear")
          /\ UNCHANGED <<overrun, taken>>
     ELSE /\ overrun' = (overrun \/ drv = "nxp")
          /\ UNCHANGED <<rx, raw, input>>
  /\ UNCHANGED <<drv, rxOn, irqEn, tx, setup, thread, handler, on, printer, printed,
                 clash, dropped, deaf>>

(* External: the transmitter sends a character.                            *)
Send ==
  /\ tx > 0
  /\ tx' = tx - 1
  /\ UNCHANGED <<drv, rxOn, rx, raw, irqEn, overrun, setup, thread, handler, on, printer,
                 arrived, printed, history>>

Setup == SetupControl \/ SetupReset \/ SetupIrq \/ SetupRead \/ SetupLoopback
Putc(c) == PrintLock(c) \/ PutWait(c) \/ PutStore(c)
Getc(c) == GetcWait(c) \/ GetcRead(c)
Handler == HandlerEnter \/ HandlerPut \/ DrainLatched \/ uart8250_interrupt_handler
             \/ nxp_uart_clear_rxirq

Next == Setup \/ Handler \/ Receive \/ Send \/ \E c \in Cpus : Putc(c) \/ Getc(c)

Spec == Init /\ [][Next]_vars

(* CPUs execute, interrupts are taken and the transmitter sends; nobody    *)
(* has to read or print.                                                   *)
FairSpec ==
  /\ Spec
  /\ WF_vars(Setup) /\ WF_vars(Handler) /\ WF_vars(Send)
  /\ \A c \in Cpus : WF_vars(PutWait(c) \/ PutStore(c)) /\ WF_vars(GetcRead(c))

-----------------------------------------------------------------------------
(***************************************************************************)
(* A received character without an interrupt to announce it, while no      *)
(* handler runs, came in during uart_init or between the last look of      *)
(* uart_clear_rxirq at the receiver and its write to the clear register    *)
(* (pl011, zynq): nothing else strands input.                              *)
(***************************************************************************)
StrandedOnlyByRace ==
  Running /\ handler = "none" /\ rx > 0 /\ ~Irq => late

(***************************************************************************)
(* uart_putc overruns the transmitter only when another CPU or the handler *)
(* stored a character between its check of the full flag and its store.    *)
(***************************************************************************)
CharLostOnlyByRace == dropped => clash

(***************************************************************************)
(* On an 8250 and an LPUART all input is read in the end, and an overrun   *)
(* does not stop the receiver for good, though a handler call reads only   *)
(* one character.  The exception is an LPUART with the overrun flag set    *)
(* and nothing to read, which raises no interrupt and receives nothing:    *)
(* nxp_uart_init does not clear what an earlier boot stage left, and       *)
(* uart_getchar takes the character whose handler would have cleared it.   *)
(***************************************************************************)
ReceiverDrains ==
  (Running /\ ~Latched /\ (rx > 0 \/ overrun)) ~> ((rx = 0 /\ ~overrun) \/ deaf)

(***************************************************************************)
(* uart8250_getc takes the receive buffer for a character although it is   *)
(* empty only when the handler or another CPU took the character after the *)
(* look at the line status.                                                *)
(***************************************************************************)
Getc8250OnlyByRace ==
  \A c \in Cpus : drv = "8250" /\ thread[c] = "get" /\ rx = 0 => taken[c]
=============================================================================
