---------------------------- MODULE VirtioConsole ----------------------------
(***************************************************************************)
(* The console from virtio_console_init on: the initialisation of          *)
(* VirtioConsoleInit and the receive path of VirtioConsoleRx, which share  *)
(* "ready" and the device.  The device fills receive buffers and           *)
(* interrupts once it sees DRIVER_OK, before "ready" is set; that          *)
(* interrupt stays pending (it is level sensitive) until a receive         *)
(* acknowledges it.  It is taken on another CPU, or on the initialising    *)
(* one, which then executes nothing else while it is pending.              *)
(***************************************************************************)
EXTENDS VirtioConsoleInit, VirtioConsoleRx

ASSUME ConsoleAssumption == RX_BUFFERS = VIRTQ_SIZE

VARIABLE irqCpu   \* the CPU the console's interrupt is routed to

consoleVars == <<initOwn, rxOwn, ready, irqCpu>>

ConsoleInit ==
  /\ Init /\ RxInit
  /\ irqCpu \in {"initialising", "other"}

InitRuns == irqCpu = "initialising" => InterruptStatus = {}

InitStep == InitRuns /\ Driver /\ UNCHANGED <<rxOwn, irqCpu>>

HandlerStep == HandlerEnter /\ UNCHANGED <<initOwn, irqCpu>>

HandlerGoesOn == HandlerRest /\ UNCHANGED <<initOwn, irqCpu>>

ReaderLocks == PrintLock /\ UNCHANGED <<initOwn, irqCpu>>

ReaderUnlocks == PrintUnlock /\ UNCHANGED <<initOwn, irqCpu>>

(* The device uses the queues only while it is live.                       *)
DeviceLive ==
  /\ "DRIVER_OK" \in Status /\ "NEEDS_RESET" \notin Status
  /\ UNCHANGED <<initOwn, irqCpu>>

DeviceStep ==
  \/ \E k \in Chunk : DeviceLive /\ DeviceFill(k)
  \/ DeviceLive /\ DeviceTxDone
  \/ DeviceLive /\ DeviceConfig

DeviceResets == DeviceNeedsReset /\ UNCHANGED <<rxOwn, irqCpu>>

ConsoleNext ==
  \/ InitStep
  \/ HandlerStep \/ HandlerGoesOn
  \/ ReaderLocks \/ ReaderUnlocks
  \/ DeviceStep \/ DeviceResets

ConsoleSpec == ConsoleInit /\ [][ConsoleNext]_consoleVars

(* Both CPUs run, a pending interrupt is taken, and a spinning attempt on  *)
(* rx_lock succeeds if the lock is free again and again.                   *)
ConsoleFairSpec ==
  /\ ConsoleSpec
  /\ WF_consoleVars(InitStep)
  /\ WF_consoleVars(HandlerStep)
  /\ SF_consoleVars(HandlerGoesOn)
  /\ WF_consoleVars(ReaderUnlocks)

-----------------------------------------------------------------------------
(* Receive "called from the RX interrupt handler" takes every chunk from   *)
(* the used ring, also one that came before "ready" was set.  There are    *)
(* two exceptions besides configuration changes: a receive that a full     *)
(* console buffer ended leaves the rest until the next interrupt, and an   *)
(* interrupt on the initialising CPU before "ready" is taken for ever.     *)
InputTaken ==
  ~disturbed /\ used # << >> ~>
    \/ used = << >>
    \/ hpc = "idle" /\ InterruptStatus = {} /\ got # << >> /\ ~received
    \/ irqCpu = "initialising" /\ ~ready
=============================================================================
