----------------------------- MODULE Interrupts -----------------------------
(***************************************************************************)
(* The interrupts of the running guest: how main installs the handlers and *)
(* enables the interrupts on every CPU, how a trap is acknowledged,        *)
(* dispatched through irq_handlers and completed (gic_handle, plic_handle, *)
(* exception_handler), and the three handlers of main.c.                   *)
(*                                                                         *)
(* A timer tick on the master starts a wave of IPIs, each CPU interrupting *)
(* the next.  Every IPI carries, as a history, the number of the latest    *)
(* tick behind it.  A handler runs with interrupts masked, on top of main. *)
(* irq_set_prio is part of the irq_enable it follows: it only delays the   *)
(* first delivery.                                                         *)
(*                                                                         *)
(* Every trap goes through a vector that saves registers (TrapContext).    *)
(* An instruction of main may fault.  The vectors of Arm spin on a fault;  *)
(* exception_handler of RISC-V does not look at the interrupt bit and      *)
(* takes the code of the fault for an interrupt number.                    *)
(***************************************************************************)
EXTENDS TrapContext

CONSTANTS
  Platforms,  \* the platforms to consider
  MaxEvents   \* bound: timer ticks and received bytes together

(***************************************************************************)
(* A platform: its architecture and interrupt controller ("plic" is        *)
(* RISC-V), how many CPUs the target list of a GICv2 has, and its UART.    *)
(* The receive interrupt of a PL011 is enabled by uart_init and latched;   *)
(* uart_clear_rxirq empties the FIFO and then clears the latch.  That of   *)
(* an 8250 is on while there is a byte, and the handler reads one.  Of     *)
(* faults it has those of one CPU, or of Nobody, with one exception code:  *)
(* 1 is an instruction access fault, 5 a load access fault.  The PLIC is   *)
(* what a RISC-V build drives, and a GICv2 has a target bit for each of    *)
(* its CPUs.                                                               *)
(***************************************************************************)
Platform ==
  [arch : {"riscv", "aarch64", "aarch32"}, intc : {"plic", "gicv2", "gicv3"},
   list : Nat, rxAtInit : BOOLEAN, latched : BOOLEAN,
   faulty : Cpus \cup {Nobody}, code : {1, 5}]

ASSUME InterruptsAssumption ==
  /\ NumCpus \in Nat \ {0}
  /\ Platforms \subseteq Platform
  /\ \A p \in Platforms : /\ (p.arch = "riscv") <=> (p.intc = "plic")
                          /\ p.intc = "gicv2" => NumCpus <= p.list
  /\ Nobody \notin Cpus
  /\ MaxEvents \in Nat

Ids == {"uart", "timer", "ipi"}

Master == 0

VARIABLES
  plat,       \* the platform of this build
  handlers,   \* irq_handlers: the ids with a handler
  enabled,    \* per CPU, the private interrupts enabled: timer, ipi
  targets,    \* the CPUs the UART interrupt is enabled for or routed to
  read,       \* per CPU, what gic_get_trgt returned, until it is used
  rxirq,      \* the UART raises its receive interrupt
  fifo,       \* bytes in the receive FIFO
  latch,      \* the latched receive interrupt of a PL011
  bytes,      \* bytes received so far
  claimed,    \* the CPU that claimed the UART interrupt, or Nobody
  tpend,      \* CPUs whose timer interrupt is pending
  armed,      \* the timer of the master is set
  ipend,      \* CPUs with a pending IPI
  ticks,      \* timer ticks so far
  carry,      \* per CPU, history: latest tick behind an IPI sent to it
  seen,       \* per CPU, history: latest tick its ipi_handler was run for
  main,       \* per CPU, what main does next; "fault" once it faulted
  trap        \* per CPU, "none" or the stage of the trap it is in

control == <<plat, handlers, enabled, targets, read, main>>
uartVars == <<rxirq, fifo, latch, bytes, claimed>>
timerVars == <<tpend, armed, ticks>>
ipiVars == <<ipend, carry, seen>>
vars == <<control, uartVars, timerVars, ipiVars, trap, contextVars>>

Init ==
  /\ plat \in Platforms
  /\ handlers = {}
  /\ enabled = [c \in Cpus |-> {}]
  /\ targets = {} /\ read = [c \in Cpus |-> {}]
  /\ rxirq = plat.rxAtInit
  /\ fifo = 0 /\ latch = FALSE /\ bytes = 0
  /\ claimed = Nobody
  /\ tpend = Cpus              \* the compare registers are junk
  /\ armed = FALSE
  /\ ipend = {}
  /\ ticks = 0
  /\ carry = [c \in Cpus |-> 0]
  /\ seen = [c \in Cpus |-> 0]
  /\ main = [c \in Cpus |-> IF c = Master THEN "uart_handler" ELSE "enable_uart"]
  /\ trap = [c \in Cpus |-> "none"]
  /\ ContextInit(plat.arch)

-----------------------------------------------------------------------------
(* main runs while no handler runs on its CPU.                             *)
MainGoto(c, from, to) ==
  /\ trap[c] = "none"
  /\ main[c] = from
  /\ main' = [main EXCEPT ![c] = to]
  /\ UNCHANGED <<ipiVars, trap, contextVars>>

(* irq_set_handler.                                                        *)
SetHandler(c) ==
  /\ \/ MainGoto(c, "uart_handler", "timer_handler") /\ handlers' = handlers \cup {"uart"}
     \/ MainGoto(c, "timer_handler", "ipi_handler") /\ handlers' = handlers \cup {"timer"}
     \/ MainGoto(c, "ipi_handler", "rxirq") /\ handlers' = handlers \cup {"ipi"}
  /\ UNCHANGED <<plat, enabled, targets, read, uartVars, timerVars>>

(* uart_enable_rxirq.                                                      *)
EnableRxIrq(c) ==
  /\ MainGoto(c, "rxirq", "timer_set")
  /\ rxirq' = TRUE
  /\ UNCHANGED <<plat, handlers, enabled, targets, read, fifo, latch, bytes, claimed, timerVars>>

(* timer_set moves the compare value of the CPU into the future.           *)
SetTimer(c) ==
  /\ armed' = (armed \/ c = Master)
  /\ tpend' = tpend \ {c}
  /\ UNCHANGED ticks

StartTimer(c) ==
  /\ MainGoto(c, "timer_set", "enable_timer")
  /\ SetTimer(c)
  /\ UNCHANGED <<plat, handlers, enabled, targets, read, uartVars>>

(* irq_enable and irq_set_prio of a private interrupt.                     *)
EnablePrivate(c) ==
  /\ \/ /\ MainGoto(c, "enable_timer", "enable_uart")
        /\ enabled' = [enabled EXCEPT ![c] = @ \cup {"timer"}]
     \/ /\ MainGoto(c, "enable_ipi", "idle")
        /\ enabled' = [enabled EXCEPT ![c] = @ \cup {"ipi"}]
  /\ UNCHANGED <<plat, handlers, targets, read, uartVars, timerVars>>

(* irq_enable(UART_IRQ_ID): the PLIC has an enable bit per hart, the GICv3 *)
(* routes the interrupt to the last CPU that asked for it; on a GICv2 the  *)
(* target byte is read without the lock ...                                *)
EnableUart(c) ==
  /\ CASE plat.intc = "plic"  -> /\ MainGoto(c, "enable_uart", "enable_ipi")
                            /\ targets' = targets \cup {c} /\ UNCHANGED read
       [] plat.intc = "gicv3" -> /\ MainGoto(c, "enable_uart", "enable_ipi")
                            /\ targets' = {c} /\ UNCHANGED read
       [] OTHER          -> /\ MainGoto(c, "enable_uart", "set_trgt")
                            /\ read' = [read EXCEPT ![c] = targets]
                            /\ UNCHANGED targets
  /\ UNCHANGED <<plat, handlers, enabled, uartVars, timerVars>>

(* ... and written back with this CPU's bit added.                         *)
SetTarget(c) ==
  /\ MainGoto(c, "set_trgt", "enable_ipi")
  /\ targets' = read[c] \cup {c}
  /\ read' = [read EXCEPT ![c] = {}]
  /\ UNCHANGED <<plat, handlers, enabled, uartVars, timerVars>>

-----------------------------------------------------------------------------
(* A byte arrives, and the timer reaches its compare value.                *)
Receive ==
  /\ bytes + ticks < MaxEvents
  /\ bytes' = bytes + 1
  /\ fifo' = fifo + 1
  /\ latch' = (latch \/ plat.latched)
  /\ UNCHANGED <<control, rxirq, claimed, timerVars, ipiVars, trap, contextVars>>

Tick ==
  /\ armed
  /\ bytes + ticks < MaxEvents
  /\ ticks' = ticks + 1
  /\ tpend' = tpend \cup {Master}
  /\ armed' = FALSE
  /\ UNCHANGED <<control, uartVars, ipiVars, trap, contextVars>>

(* A vector is entered from "none" and left to it; one that spins saves    *)
(* nothing.                                                                *)
TrapGoto(c, from, to) ==
  /\ trap[c] = from
  /\ trap' = [trap EXCEPT ![c] = to]
  /\ CASE from = "none" /\ to # "spin" -> Enter(plat.arch, c)
       [] to = "none"                    -> Leave(plat.arch, c)
       [] OTHER                          -> UNCHANGED contextVars

UartPending ==
  /\ rxirq /\ claimed = Nobody
  /\ IF plat.latched THEN latch ELSE fifo > 0

(* A CPU that is interrupted enters its vector: more than one may for the  *)
(* UART, ...                                                               *)
TakeUart(c) ==
  /\ c \in targets /\ UartPending
  /\ TrapGoto(c, "none", "uart_ack")
  /\ UNCHANGED <<control, uartVars, timerVars, ipiVars>>

(* ... and the claim register (IAR) gives the interrupt to the first and   *)
(* 0 (1023) to the others.                                                 *)
Ack(c) ==
  /\ \/ UartPending /\ TrapGoto(c, "uart_ack", "uart") /\ claimed' = c
     \/ ~UartPending /\ TrapGoto(c, "uart_ack", "none") /\ UNCHANGED claimed
  /\ UNCHANGED <<control, rxirq, fifo, latch, bytes, timerVars, ipiVars>>

DrainNothing(c) ==
  /\ TrapGoto(c, "uart", "uart_eoi")
  /\ UNCHANGED <<control, uartVars, timerVars, ipiVars>>

(* irq_handle and uart_rx_handler; without a handler nothing is read.  A   *)
(* PL011 that is empty drops its latch ...                                 *)
UartRxHandler(c) ==
  /\ \/ /\ "uart" \notin handlers
        /\ TrapGoto(c, "uart", "uart_eoi")
        /\ UNCHANGED <<fifo, latch>>
     \/ /\ "uart" \in handlers /\ ~plat.latched
        /\ TrapGoto(c, "uart", "uart_eoi")
        /\ fifo' = IF fifo = 0 THEN 0 ELSE fifo - 1
        /\ UNCHANGED latch
     \/ /\ "uart" \in handlers /\ plat.latched
        /\ TrapGoto(c, "uart", "uart_clear")
        /\ fifo' = 0 /\ latch' = FALSE
  /\ UNCHANGED <<control, rxirq, bytes, claimed, timerVars, ipiVars>>

(* ... and the handler clears it once more, also if a byte has come since. *)
UartClear(c) ==
  /\ TrapGoto(c, "uart_clear", "uart_eoi")
  /\ latch' = FALSE
  /\ UNCHANGED <<control, rxirq, fifo, bytes, claimed, timerVars, ipiVars>>

(* plic_hart.complete, EOIR.                                               *)
UartComplete(c) ==
  /\ TrapGoto(c, "uart_eoi", "none")
  /\ claimed' = Nobody
  /\ UNCHANGED <<control, rxirq, fifo, latch, bytes, timerVars, ipiVars>>

TakeTimer(c) ==
  /\ c \in tpend /\ "timer" \in enabled[c]
  /\ TrapGoto(c, "none", "timer")
  /\ UNCHANGED <<control, uartVars, timerVars, ipiVars>>

SendTwoOn(c) == {c + 2}

(* irq_send_ipi(1 << (cpuid + 1)): sbi_send_ipi hands the mask over, the   *)
(* GICs take one target each.  In the SGIR of a GICv2 the bit after the    *)
(* target list is the filter that means all CPUs but this one.             *)
IpiTargets(c) ==
  IF plat.intc = "gicv2" /\ c + 1 = plat.list THEN Cpus \ {c} ELSE {c + 1}

SendIpi(c, tick) ==
  /\ LET sent == IpiTargets(c) \cap Cpus IN
       /\ ipend' = ipend \cup sent
       /\ carry' = [d \in Cpus |->
            IF d \in sent /\ tick > carry[d] THEN tick ELSE carry[d]]
  /\ UNCHANGED seen

(* irq_handle and timer_handler: set the next tick ...                     *)
TimerHandler(c) ==
  /\ IF "timer" \in handlers
       THEN TrapGoto(c, "timer", "timer_send") /\ SetTimer(c)
       ELSE TrapGoto(c, "timer", "none") /\ UNCHANGED timerVars
  /\ UNCHANGED <<control, uartVars, ipiVars>>

(* ... and interrupt the next CPU.                                         *)
TimerSend(c) ==
  /\ TrapGoto(c, "timer_send", "none")
  /\ SendIpi(c, ticks)
  /\ UNCHANGED <<control, uartVars, timerVars>>

(* Acknowledging an SGI clears it; SSIP stays set until the handler ends.  *)
TakeIpi(c) ==
  /\ c \in ipend /\ "ipi" \in enabled[c]
  /\ TrapGoto(c, "none", "ipi")
  /\ ipend' = IF plat.intc = "plic" THEN ipend ELSE ipend \ {c}
  /\ seen' = [seen EXCEPT ![c] = carry[c]]
  /\ UNCHANGED <<control, carry, uartVars, timerVars>>

(* irq_handle and ipi_handler.                                             *)
IpiHandler(c) ==
  /\ TrapGoto(c, "ipi", "ipi_end")
  /\ IF "ipi" \in handlers THEN SendIpi(c, seen[c]) ELSE UNCHANGED ipiVars
  /\ UNCHANGED <<control, uartVars, timerVars>>

ClearAfterHandler(c) ==
  /\ TrapGoto(c, "ipi_end", "none")
  /\ ipend' = ipend \ {c}
  /\ UNCHANGED <<control, carry, seen, uartVars, timerVars>>

(* The end of the trap: csrs_sip_clear(SIP_SSIE), or the write of EOIR.    *)
IpiEnd(c) ==
  /\ TrapGoto(c, "ipi_end", "none")
  /\ ipend' = IF plat.intc = "plic" THEN ipend \ {c} ELSE ipend
  /\ UNCHANGED <<control, carry, seen, uartVars, timerVars>>

(* A fault of main, which comes again whenever the trap returns.  On       *)
(* RISC-V codes 1 and 5 are those of the IPI and the timer interrupt.  For *)
(* any other irq_handle finds no handler, and the trap does nothing.       *)
Fault(c) ==
  /\ c = plat.faulty
  /\ TrapGoto(c, "none", IF plat.arch # "riscv" THEN "spin"
                         ELSE IF plat.code = 5 THEN "timer" ELSE "ipi")
  /\ main' = [main EXCEPT ![c] = "fault"]
  /\ UNCHANGED <<plat, handlers, enabled, targets, read, uartVars, timerVars, ipiVars>>

Trap(c) == TakeUart(c) \/ TakeTimer(c) \/ TakeIpi(c) \/ Fault(c)

InTrap(c) ==
  \/ Ack(c) \/ UartRxHandler(c) \/ UartClear(c) \/ UartComplete(c)
  \/ TimerHandler(c) \/ TimerSend(c) \/ IpiHandler(c) \/ IpiEnd(c)

Main(c) ==
  \/ SetHandler(c) \/ EnableRxIrq(c) \/ StartTimer(c)
  \/ EnablePrivate(c) \/ EnableUart(c) \/ SetTarget(c)

Step(c) == Trap(c) \/ InTrap(c) \/ Main(c)

Next == Receive \/ Tick \/ \E c \in Cpus : Step(c)

Spec == Init /\ [][Next]_vars

(***************************************************************************)
(* Fairness: the timer fires and every CPU runs.  Nothing is assumed about *)
(* the choice between pending interrupts, nor between taking one and the   *)
(* next instruction of main.                                               *)
(***************************************************************************)
Fairness == WF_vars(Tick) /\ \A c \in Cpus : WF_vars(Step(c))

FairSpec == Spec /\ Fairness

-----------------------------------------------------------------------------
(* Between traps every CPU has its own registers, and the frames of its    *)
(* main are where they were: whatever handlers ran, on this CPU or on      *)
(* others at the same time, the vector saved what C code changes and on a  *)
(* stack that is nobody else's.                                            *)
ContextRestored ==
  \A c \in Cpus : trap[c] = "none" => OwnContext(plat.arch, c)

(* No CPU is interrupted for a tick that has not happened, and the wave    *)
(* passes the CPUs in order, faults or not.  One fault breaks it: a load   *)
(* fault of a secondary hart runs timer_handler there, and the wave of a   *)
(* tick that the harts before it have not seen goes on from it.            *)
WaveInOrder ==
  \A c \in Cpus : c # Master =>
    /\ seen[c] <= carry[c]
    /\ \/ carry[c] <= IF c - 1 = Master THEN ticks ELSE seen[c - 1]
       \/ plat.arch = "riscv" /\ plat.code = 5 /\ main[c - 1] = "fault"

(* A GICv2 with as many CPUs as its target list: the last CPU of the wave  *)
(* interrupts all the others, and the IPIs never end.                      *)
Storm == plat.intc = "gicv2" /\ plat.list = NumCpus

Faulted == {c \in Cpus : main[c] = "fault"}

(* A byte that reached a PL011 between the last look of uart_clear_rxirq   *)
(* and its write to the clear register waits for the next one.             *)
Stranded == plat.latched /\ fifo > 0 /\ ~latch

(* What the UART receives is read, however the CPUs race for it, unless it *)
(* is stranded.  After a fault a PLIC gives the interrupt to another hart, *)
(* if the master came as far as to enable it; a GIC may keep it for the    *)
(* CPU that spins.                                                         *)
UartServed ==
  fifo > 0 ~> \/ fifo = 0
              \/ Stranded
              \/ Storm
              \/ Faulted # {} /\ (plat.intc # "plic" \/ Master \in Faulted)

(* After every tick the timer is set again, and with a GIC every tick      *)
(* reaches the last CPU, so with WaveInOrder all of them: an SGI that      *)
(* arrives while ipi_handler runs stays pending.  SSIP does not, so on     *)
(* RISC-V a tick may end on its way.  A faulting secondary CPU stops the   *)
(* wave but not the timer.                                                 *)
WaveReachesAll ==
  \A n \in 1 .. MaxEvents :
    ticks = n ~> \/ armed /\ (plat.intc # "plic" /\ Faulted = {} => seen[NumCpus - 1] >= n)
                \/ Storm
                \/ Master \in Faulted
=============================================================================
