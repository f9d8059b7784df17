--------------------------- MODULE InterruptsProofs ---------------------------
(***************************************************************************)
(* Interrupts for any number of CPUs, any set of platforms and any number  *)
(* of ticks, bytes and faults: what a trap saves it gives back, and the    *)
(* wave of IPIs passes the CPUs in order.                                  *)
(***************************************************************************)
EXTENDS Interrupts, TLAPS

-----------------------------------------------------------------------------
(* The types of the state.                                                 *)

Stages == {"none", "uart_ack", "uart", "uart_clear", "uart_eoi", "timer", "timer_send",
           "ipi", "ipi_end", "spin"}

(* What main of a secondary CPU does, and what only the master's does.     *)
SecondaryStages == {"enable_uart", "set_trgt", "enable_ipi", "idle", "fault"}

MainStages ==
  SecondaryStages \cup {"uart_handler", "timer_handler", "ipi_handler",
                        "rxirq", "timer_set", "enable_timer"}

(* The values the variables of the interrupt path take.                    *)
TypeOK ==
  /\ plat \in Platforms
  /\ handlers \subseteq Ids
  /\ enabled \in [Cpus -> SUBSET {"timer", "ipi"}]
  /\ targets \subseteq Cpus
  /\ read \in [Cpus -> SUBSET Cpus]
  /\ rxirq \in BOOLEAN /\ latch \in BOOLEAN /\ armed \in BOOLEAN
  /\ fifo \in Nat /\ bytes \in Nat /\ ticks \in Nat
  /\ claimed \in Cpus \cup {Nobody}
  /\ tpend \subseteq Cpus /\ ipend \subseteq Cpus
  /\ carry \in [Cpus -> Nat] /\ seen \in [Cpus -> Nat]
  /\ main \in [Cpus -> MainStages]
  /\ trap \in [Cpus -> Stages]

-----------------------------------------------------------------------------
(* The context: main's frames are untouched; a CPU in a handler has in its *)
(* trap frame what the handler may change, and the rest in its registers.  *)

Frame == [owner : Cpus \cup {Nobody}, holds : SUBSET Regs]

InHandler(c) == trap[c] \notin {"none", "spin"}

ContextInv ==
  /\ regs \in [Cpus -> SUBSET Regs]
  /\ memory \in [Frames(plat.arch) -> Frame]
  /\ \A c \in Cpus :
       /\ memory[MainFrame(plat.arch, c)] = [owner |-> c, holds |-> Regs]
       /\ ~InHandler(c) => regs[c] = Regs
       /\ InHandler(c) =>
            /\ regs[c] = Regs \ Clobbered(plat.arch)
            /\ memory[TrapFrame(plat.arch, c)] = [owner |-> c, holds |-> Saved(plat.arch)]

-----------------------------------------------------------------------------
(* The wave.  WaveInOrder compares neighbours only; a CPU that interrupts  *)
(* all others compares itself with every CPU, so the inductive form does.  *)

TimerFault(c) ==
  plat.arch = "riscv" /\ plat.code = 5 /\ plat.faulty = c /\ main[c] = "fault"

(* Some CPU from d on and before c runs timer_handler for a load fault.    *)
Skips(d, c) == \E f \in Cpus : d <= f /\ f < c /\ TimerFault(f)

InOrder ==
  \A c \in Cpus :
    /\ seen[c] <= carry[c]
    /\ carry[c] <= ticks
    /\ \A d \in Cpus : d # Master /\ d < c => carry[c] <= seen[d] \/ Skips(d, c)

(* Only a load fault runs timer_handler on a secondary CPU.                *)
SecondaryInv ==
  \A c \in Cpus \ {Master} :
    /\ "timer" \notin enabled[c]
    /\ main[c] \in SecondaryStages
    /\ trap[c] \in {"timer", "timer_send"} => TimerFault(c)

WaveInv == InOrder /\ SecondaryInv

IndInv == TypeOK /\ ContextInv /\ WaveInv

-----------------------------------------------------------------------------
(* The frames of all CPUs are different ...                                *)
LEMMA FramesApart ==
  ASSUME NEW arch, NEW c \in Cpus, NEW d \in Cpus
  PROVE  /\ MainFrame(arch, c) \in Frames(arch) /\ TrapFrame(arch, c) \in Frames(arch)
         /\ TrapFrame(arch, c) # MainFrame(arch, d)
         /\ MainFrame(arch, c) = MainFrame(arch, d) => c = d
         /\ TrapFrame(arch, c) = TrapFrame(arch, d) => c = d
<1>1. c \in Nat /\ d \in Nat
  BY InterruptsAssumption DEF Cpus
<1>2. MainFrame(arch, c) \in Frames(arch) /\ TrapFrame(arch, c) \in Frames(arch)
  BY DEF Frames
<1>3. TrapFrame(arch, c) # MainFrame(arch, d)
  BY <1>1 DEF MainFrame, TrapFrame, MainArea
<1>4. /\ MainFrame(arch, c) = MainFrame(arch, d) => c = d
      /\ TrapFrame(arch, c) = TrapFrame(arch, d) => c = d
  BY <1>1 DEF MainFrame, TrapFrame, MainArea
<1> QED
  BY <1>2, <1>3, <1>4

(* ... and a vector saves everything the call of a handler changes.        *)
LEMMA SavesEnough ==
  ASSUME NEW arch
  PROVE  Clobbered(arch) \subseteq Saved(arch) /\ Saved(arch) \subseteq Regs
<1>1. CASE arch = "aarch64"
  BY <1>1 DEF Clobbered, Saved, Regs
<1>2. CASE arch = "aarch32"
  BY <1>2 DEF Clobbered, Saved, Regs
<1>3. CASE arch # "aarch64" /\ arch # "aarch32"
  BY <1>3 DEF Clobbered, Saved, Regs
<1> QED
  BY <1>1, <1>2, <1>3

(* Before the first trap every CPU is in main, with its registers.         *)
LEMMA InitContext == Init => ContextInv
<1> SUFFICES ASSUME Init PROVE ContextInv
  OBVIOUS
<1> DEFINE arch == plat.arch
           mem(f) == IF \E c \in Cpus : f = MainFrame(arch, c)
                       THEN [owner |-> CHOOSE c \in Cpus : f = MainFrame(arch, c),
                             holds |-> Regs]
                       ELSE Empty
<1>1. /\ regs = [c \in Cpus |-> Regs] /\ trap = [c \in Cpus |-> "none"]
      /\ memory = [f \in Frames(arch) |-> mem(f)]
  BY DEF Init, ContextInit
<1>2. ASSUME NEW f
      PROVE  mem(f) \in Frame
  BY DEF Frame, Empty
<1> HIDE DEF arch
<1>3. ASSUME NEW c \in Cpus
      PROVE  mem(MainFrame(arch, c)) = [owner |-> c, holds |-> Regs]
  <2> DEFINE e == CHOOSE e \in Cpus : MainFrame(arch, c) = MainFrame(arch, e)
  <2>1. e \in Cpus /\ MainFrame(arch, c) = MainFrame(arch, e)
    OBVIOUS
  <2>2. e = c
    <3> HIDE DEF e
    <3> QED
      BY <2>1, FramesApart
  <2> QED
    BY <2>2
<1> HIDE DEF mem
<1>4. memory \in [Frames(arch) -> Frame]
  BY <1>1, <1>2
<1>5. \A c \in Cpus : memory[MainFrame(arch, c)] = [owner |-> c, holds |-> Regs]
  BY <1>1, <1>3, FramesApart
<1> QED
  BY <1>1, <1>4, <1>5 DEF ContextInv, InHandler, arch

(* What TrapGoto is used for: a vector is entered, spins, goes on with its *)
(* handler, or returns.                                                    *)
LEMMA TrapGotoContext ==
  ASSUME ContextInv, trap \in [Cpus -> Stages], NEW c \in Cpus, UNCHANGED plat,
         NEW from \in Stages \ {"spin"}, NEW to \in Stages,
         from = "none" => to # "none", to = "spin" => from = "none",
         TrapGoto(c, from, to)
  PROVE  ContextInv'
<1> DEFINE arch == plat.arch
           tf == TrapFrame(arch, c)
<1>1. /\ trap[c] = from /\ trap' = [trap EXCEPT ![c] = to]
      /\ regs \in [Cpus -> SUBSET Regs] /\ memory \in [Frames(arch) -> Frame]
  BY DEF TrapGoto, ContextInv
<1>2. \A d \in Cpus : /\ MainFrame(arch, d) \in Frames(arch) /\ MainFrame(arch, d) # tf
                      /\ TrapFrame(arch, d) \in Frames(arch)
                      /\ d # c => TrapFrame(arch, d) # tf
  BY FramesApart
<1>3. Clobbered(arch) \subseteq Saved(arch) /\ Saved(arch) \subseteq Regs
  BY SavesEnough
<1>4. CASE from = "none" /\ to # "spin"
  <2> DEFINE new == [owner |-> c, holds |-> regs[c] \cap Saved(arch)]
  <2>1. /\ memory' = [memory EXCEPT ![tf] = new]
        /\ regs' = [regs EXCEPT ![c] = @ \ Clobbered(arch)]
    BY <1>4 DEF TrapGoto, Enter
  <2>2. regs[c] = Regs
    BY <1>1, <1>4 DEF ContextInv, InHandler
  <2>3. new \in Frame /\ new = [owner |-> c, holds |-> Saved(arch)]
    BY <1>1, <1>3, <2>2 DEF Frame
  <2> HIDE DEF new, tf
  <2>4. memory' \in [Frames(arch) -> Frame] /\ regs' \in [Cpus -> SUBSET Regs]
    BY <1>1, <2>1, <2>3
  <2>5. ASSUME NEW d \in Cpus
        PROVE  /\ memory'[MainFrame(arch, d)] = memory[MainFrame(arch, d)]
               /\ d # c => /\ memory'[TrapFrame(arch, d)] = memory[TrapFrame(arch, d)]
                           /\ regs'[d] = regs[d] /\ trap'[d] = trap[d]
    BY <1>1, <1>2, <2>1
  <2>6. /\ memory'[TrapFrame(arch, c)] = [owner |-> c, holds |-> Saved(arch)]
        /\ regs'[c] = Regs \ Clobbered(arch) /\ trap'[c] = to
    BY <1>1, <1>2, <2>1, <2>2, <2>3 DEF tf
  <2>7. to \notin {"none", "spin"}
    BY <1>4
  <2> HIDE DEF arch
  <2> QED
    BY <2>4, <2>5, <2>6, <2>7 DEF ContextInv, InHandler, arch
<1>5. CASE to = "none"
  <2>1. memory[tf] = [owner |-> c, holds |-> Saved(arch)]
        /\ regs[c] = Regs \ Clobbered(arch)
    BY <1>1, <1>5 DEF ContextInv, InHandler
  <2>2. /\ memory' = [memory EXCEPT ![tf] = Empty]
        /\ regs' = [regs EXCEPT ![c] = (@ \ Saved(arch)) \cup Saved(arch)]
    BY <1>5, <2>1 DEF TrapGoto, Leave
  <2>3. (regs[c] \ Saved(arch)) \cup Saved(arch) = Regs
    BY <1>3, <2>1
  <2>4. Empty \in Frame
    BY DEF Empty, Frame
  <2> HIDE DEF tf
  <2>5. memory' \in [Frames(arch) -> Frame] /\ regs' \in [Cpus -> SUBSET Regs]
    BY <1>1, <2>2, <2>3, <2>4
  <2>6. ASSUME NEW d \in Cpus
        PROVE  /\ memory'[MainFrame(arch, d)] = memory[MainFrame(arch, d)]
               /\ d # c => /\ memory'[TrapFrame(arch, d)] = memory[TrapFrame(arch, d)]
                           /\ regs'[d] = regs[d] /\ trap'[d] = trap[d]
    BY <1>1, <1>2, <2>2
  <2>7. regs'[c] = Regs /\ trap'[c] = "none"
    BY <1>1, <1>5, <2>2, <2>3
  <2> HIDE DEF arch
  <2> QED
    BY <2>5, <2>6, <2>7 DEF ContextInv, InHandler, arch
<1>6. CASE ~(from = "none" /\ to # "spin") /\ to # "none"
  <2>1. UNCHANGED contextVars
    BY <1>6 DEF TrapGoto
  <2>2. InHandler(c)' <=> InHandler(c)
    BY <1>1, <1>6 DEF InHandler
  <2>3. \A d \in Cpus : InHandler(d)' <=> InHandler(d)
    BY <1>1, <2>2 DEF InHandler
  <2> QED
    BY <2>1, <2>3 DEF ContextInv, contextVars
<1> QED
  BY <1>4, <1>5, <1>6

(* Outside traps the context is left alone.                                *)
LEMMA QuietContext ==
  ASSUME ContextInv, UNCHANGED <<plat, trap, contextVars>>
  PROVE  ContextInv'
  BY DEF ContextInv, InHandler, contextVars

(* Every step keeps the context.                                           *)
LEMMA NextContext ==
  ASSUME TypeOK, ContextInv, [Next]_vars
  PROVE  ContextInv'
<1>0. trap \in [Cpus -> Stages]
  BY DEF TypeOK
<1> USE DEF Stages
<1>1. CASE Receive \/ Tick \/ UNCHANGED vars
  BY <1>1, QuietContext DEF Receive, Tick, control, vars
<1>2. ASSUME NEW c \in Cpus, Main(c)
      PROVE  ContextInv'
  <2>1. UNCHANGED <<plat, trap, contextVars>>
    BY <1>2 DEF Main, SetHandler, EnableRxIrq, StartTimer, EnablePrivate, EnableUart,
                SetTarget, MainGoto
  <2> QED
    BY <2>1, QuietContext
<1>3. ASSUME NEW c \in Cpus, Trap(c)
      PROVE  ContextInv'
  <2>1. UNCHANGED plat
    BY <1>3 DEF Trap, TakeUart, TakeTimer, TakeIpi, Fault, control
  <2>2. CASE TakeUart(c)
    BY <1>0, <2>1, <2>2, TrapGotoContext DEF TakeUart
  <2>3. CASE TakeTimer(c)
    BY <1>0, <2>1, <2>3, TrapGotoContext DEF TakeTimer
  <2>4. CASE TakeIpi(c)
    BY <1>0, <2>1, <2>4, TrapGotoContext DEF TakeIpi
  <2>5. CASE Fault(c)
    <3>1. plat.code \in {1, 5}
      BY InterruptsAssumption DEF TypeOK, Platform
    <3>2. TrapGoto(c, "none", "spin") \/ TrapGoto(c, "none", "timer")
          \/ TrapGoto(c, "none", "ipi")
      BY <2>5, <3>1 DEF Fault
    <3> QED
      BY <1>0, <2>1, <3>2, TrapGotoContext
  <2> QED
    BY <1>3, <2>2, <2>3, <2>4, <2>5 DEF Trap
<1>4. ASSUME NEW c \in Cpus, InTrap(c)
      PROVE  ContextInv'
  <2>1. UNCHANGED plat
    BY <1>4 DEF InTrap, Ack, UartRxHandler, UartClear, UartComplete, TimerHandler, TimerSend,
                IpiHandler, IpiEnd, control
  <2>2. \/ TrapGoto(c, "uart_ack", "uart") \/ TrapGoto(c, "uart_ack", "none")
        \/ TrapGoto(c, "uart", "uart_eoi") \/ TrapGoto(c, "uart_eoi", "none")
        \/ TrapGoto(c, "uart", "uart_clear") \/ TrapGoto(c, "uart_clear", "uart_eoi")
        \/ TrapGoto(c, "timer", "timer_send") \/ TrapGoto(c, "timer", "none")
        \/ TrapGoto(c, "timer_send", "none")
        \/ TrapGoto(c, "ipi", "ipi_end") \/ TrapGoto(c, "ipi_end", "none")
    BY <1>4 DEF InTrap, Ack, UartRxHandler, UartClear, UartComplete, TimerHandler, TimerSend,
                IpiHandler, IpiEnd
  <2> QED
    BY <1>0, <2>1, <2>2, TrapGotoContext
<1> QED
  BY <1>1, <1>2, <1>3, <1>4 DEF Next, Step

-----------------------------------------------------------------------------
(* Type correctness.                                                       *)

LEMMA InitType == Init => TypeOK
<1> SUFFICES ASSUME Init PROVE TypeOK
  OBVIOUS
<1>1. plat \in Platform
  BY InterruptsAssumption DEF Init
<1>2. rxirq \in BOOLEAN
  BY <1>1 DEF Init, Platform
<1>3. main \in [Cpus -> MainStages] /\ trap \in [Cpus -> Stages]
  BY DEF Init, Stages, MainStages, SecondaryStages
<1> QED
  BY <1>2, <1>3 DEF Init, TypeOK

(* Which stage a trap goes to.                                             *)
LEMMA TrapGotoType ==
  ASSUME trap \in [Cpus -> Stages], NEW c \in Cpus, NEW from, NEW to \in Stages,
         TrapGoto(c, from, to)
  PROVE  trap' \in [Cpus -> Stages]
  BY DEF TrapGoto

LEMMA NextType ==
  ASSUME TypeOK, [Next]_vars
  PROVE  TypeOK'
<1>0. Master \in Cpus /\ plat \in Platform
  BY InterruptsAssumption DEF Master, Cpus, TypeOK
<1> USE DEF TypeOK
<1>1. CASE UNCHANGED vars
  BY <1>1 DEF vars, control, uartVars, timerVars, ipiVars
<1>2. CASE Receive
  BY <1>2 DEF Receive, control, timerVars, ipiVars
<1>3. CASE Tick
  <2>0. /\ ticks' = ticks + 1 /\ tpend' = tpend \cup {Master} /\ armed' = FALSE
        /\ UNCHANGED <<control, uartVars, ipiVars, trap>>
    BY <1>3 DEF Tick
  <2>1. ticks' \in Nat /\ tpend' \subseteq Cpus
    BY <1>0, <2>0
  <2>2. armed' \in BOOLEAN /\ UNCHANGED <<control, uartVars, ipiVars, trap>>
    BY <2>0
  <2> QED
    BY <2>1, <2>2 DEF control, uartVars, ipiVars
<1>4. ASSUME NEW c \in Cpus, Main(c)
      PROVE  TypeOK'
  <2> USE DEF MainGoto, MainStages, SecondaryStages, ipiVars
  <2>1. CASE SetHandler(c)
    BY <2>1 DEF SetHandler, uartVars, timerVars, Ids
  <2>2. CASE EnableRxIrq(c)
    BY <2>2 DEF EnableRxIrq, timerVars
  <2>3. CASE StartTimer(c)
    BY <2>3 DEF StartTimer, SetTimer, uartVars
  <2>4. CASE EnablePrivate(c)
    BY <2>4 DEF EnablePrivate, uartVars, timerVars
  <2>5. CASE EnableUart(c)
    <3>1. /\ main' \in [Cpus -> MainStages] /\ targets' \subseteq Cpus
          /\ read' \in [Cpus -> SUBSET Cpus]
          /\ UNCHANGED <<plat, handlers, enabled, uartVars, timerVars, ipiVars, trap>>
      <4>1. CASE plat.intc = "plic"
        BY <2>5, <4>1 DEF EnableUart
      <4>2. CASE plat.intc = "gicv3"
        BY <2>5, <4>2 DEF EnableUart
      <4>3. CASE plat.intc # "plic" /\ plat.intc # "gicv3"
        BY <2>5, <4>3 DEF EnableUart
      <4> QED
        BY <4>1, <4>2, <4>3
    <3> QED
      BY <3>1 DEF uartVars, timerVars
  <2>6. CASE SetTarget(c)
    BY <2>6 DEF SetTarget, uartVars, timerVars
  <2> QED
    BY <1>4, <2>1, <2>2, <2>3, <2>4, <2>5, <2>6 DEF Main
<1>5. ASSUME NEW c \in Cpus, Trap(c)
      PROVE  TypeOK'
  <2>1. CASE TakeUart(c)
    <3>1. trap' \in [Cpus -> Stages]
      BY <2>1, TrapGotoType DEF TakeUart, Stages
    <3> QED
      BY <2>1, <3>1 DEF TakeUart, control, uartVars, timerVars, ipiVars
  <2>2. CASE TakeTimer(c)
    <3>1. trap' \in [Cpus -> Stages]
      BY <2>2, TrapGotoType DEF TakeTimer, Stages
    <3> QED
      BY <2>2, <3>1 DEF TakeTimer, control, uartVars, timerVars, ipiVars
  <2>3. CASE TakeIpi(c)
    <3>1. trap' \in [Cpus -> Stages]
      BY <2>3, TrapGotoType DEF TakeIpi, Stages
    <3> QED
      BY <2>3, <3>1 DEF TakeIpi, control, uartVars, timerVars
  <2>4. CASE Fault(c)
    <3>1. trap' \in [Cpus -> Stages]
      <4>1. plat.code \in {1, 5}
        BY <1>0 DEF Platform
      <4>2. TrapGoto(c, "none", "spin") \/ TrapGoto(c, "none", "timer")
            \/ TrapGoto(c, "none", "ipi")
        BY <2>4, <4>1 DEF Fault
      <4> QED
        BY <4>2, TrapGotoType DEF Stages
    <3> QED
      BY <2>4, <3>1 DEF Fault, uartVars, timerVars, ipiVars, MainStages, SecondaryStages
  <2> QED
    BY <1>5, <2>1, <2>2, <2>3, <2>4 DEF Trap
<1>6. ASSUME NEW c \in Cpus, InTrap(c)
      PROVE  TypeOK'
  <2>1. trap' \in [Cpus -> Stages]
    BY <1>6, TrapGotoType DEF InTrap, Ack, UartRxHandler, UartClear, UartComplete, TimerHandler,
                              TimerSend, IpiHandler, IpiEnd, Stages
  <2>2. ASSUME NEW t \in Nat, SendIpi(c, t)
        PROVE  ipend' \subseteq Cpus /\ carry' \in [Cpus -> Nat] /\ seen' = seen
    BY <2>2 DEF SendIpi
  <2>3. CASE Ack(c)
    BY <2>1, <2>3 DEF Ack, control, timerVars, ipiVars
  <2>4. CASE UartRxHandler(c)
    <3>1. fifo' \in Nat
      BY <2>4 DEF UartRxHandler
    <3>2. latch' \in BOOLEAN
      BY <2>4 DEF UartRxHandler
    <3> QED
      BY <2>1, <2>4, <3>1, <3>2 DEF UartRxHandler, control, timerVars, ipiVars
  <2>5. CASE UartClear(c) \/ UartComplete(c)
    BY <2>1, <2>5 DEF UartClear, UartComplete, control, timerVars, ipiVars
  <2>6. CASE TimerHandler(c)
    BY <2>1, <2>6 DEF TimerHandler, SetTimer, control, uartVars, timerVars, ipiVars
  <2>7. CASE TimerSend(c)
    <3>1. SendIpi(c, ticks) /\ ticks \in Nat
      BY <2>7 DEF TimerSend
    <3> QED
      BY <2>1, <2>2, <2>7, <3>1 DEF TimerSend, control, uartVars, timerVars
  <2>8. CASE IpiHandler(c)
    <3>1. ipend' \subseteq Cpus /\ carry' \in [Cpus -> Nat] /\ seen' = seen
      BY <2>2, <2>8 DEF IpiHandler, ipiVars
    <3> QED
      BY <2>1, <2>8, <3>1 DEF IpiHandler, control, uartVars, timerVars
  <2>9. CASE IpiEnd(c)
    BY <2>1, <2>9 DEF IpiEnd, control, uartVars, timerVars
  <2> QED
    BY <1>6, <2>3, <2>4, <2>5, <2>6, <2>7, <2>8, <2>9 DEF InTrap
<1> QED
  BY <1>1, <1>2, <1>3, <1>4, <1>5, <1>6 DEF Next, Step

-----------------------------------------------------------------------------
(* The wave.                                                               *)

(* A CPU whose main faulted stays there.                                   *)
LEMMA FaultStays ==
  ASSUME TypeOK, [Next]_vars, NEW f \in Cpus, TimerFault(f)
  PROVE  TimerFault(f)'
<1> USE DEF TypeOK, TimerFault
<1>1. CASE Receive \/ Tick \/ UNCHANGED vars
  BY <1>1 DEF Receive, Tick, vars, control
<1>2. ASSUME NEW c \in Cpus, Main(c)
      PROVE  TimerFault(f)'
  BY <1>2 DEF Main, SetHandler, EnableRxIrq, StartTimer, EnablePrivate, EnableUart,
              SetTarget, MainGoto
<1>3. ASSUME NEW c \in Cpus, Trap(c) \/ InTrap(c)
      PROVE  TimerFault(f)'
  BY <1>3 DEF Trap, TakeUart, TakeTimer, TakeIpi, Fault, InTrap, Ack, UartRxHandler,
              UartClear, UartComplete, TimerHandler, TimerSend, IpiHandler, IpiEnd, control
<1> QED
  BY <1>1, <1>2, <1>3 DEF Next, Step

(* No other step gives a secondary CPU the timer.                          *)
LEMMA NextSecondary ==
  ASSUME TypeOK, SecondaryInv, [Next]_vars
  PROVE  SecondaryInv'
<1> SUFFICES ASSUME NEW c \in Cpus \ {Master}
             PROVE  /\ "timer" \notin enabled'[c]
                    /\ main'[c] \in SecondaryStages
                    /\ trap'[c] \in {"timer", "timer_send"} => TimerFault(c)'
  BY DEF SecondaryInv
<1>0. /\ "timer" \notin enabled[c] /\ main[c] \in SecondaryStages
      /\ trap[c] \in {"timer", "timer_send"} => TimerFault(c)'
  BY FaultStays DEF SecondaryInv
<1> USE DEF TypeOK
<1>1. CASE Receive \/ Tick \/ UNCHANGED vars
  BY <1>0, <1>1 DEF Receive, Tick, vars, control
<1>2. ASSUME NEW d \in Cpus, Main(d)
      PROVE  /\ "timer" \notin enabled'[c] /\ main'[c] \in SecondaryStages
             /\ UNCHANGED trap
  BY <1>0, <1>2 DEF Main, SetHandler, EnableRxIrq, StartTimer, EnablePrivate, EnableUart,
                    SetTarget, MainGoto, SecondaryStages
<1>3. ASSUME NEW d \in Cpus, Trap(d)
      PROVE  /\ "timer" \notin enabled'[c] /\ main'[c] \in SecondaryStages
             /\ trap'[c] \in {"timer", "timer_send"} => TimerFault(c)'
  <2>1. CASE TakeUart(d) \/ TakeTimer(d) \/ TakeIpi(d)
    BY <1>0, <2>1 DEF TakeUart, TakeTimer, TakeIpi, TrapGoto, control
  <2>2. CASE Fault(d)
    <3>1. UNCHANGED <<plat, enabled>> /\ d = plat.faulty /\ plat.code \in {1, 5}
      BY <2>2, InterruptsAssumption DEF Fault, Platform
    <3>2. main' = [main EXCEPT ![d] = "fault"]
      BY <2>2 DEF Fault
    <3>3. trap' = [trap EXCEPT ![d] = IF plat.arch # "riscv" THEN "spin"
                                      ELSE IF plat.code = 5 THEN "timer" ELSE "ipi"]
      BY <2>2 DEF Fault, TrapGoto
    <3>4. CASE c = d
      <4>1. trap'[c] = "timer" => plat.arch = "riscv" /\ plat.code = 5
        BY <3>1, <3>3, <3>4
      <4>2. trap'[c] # "timer_send"
        BY <3>1, <3>3, <3>4
      <4>3. main'[c] = "fault"
        BY <3>2, <3>4
      <4> QED
        BY <1>0, <3>1, <3>4, <4>1, <4>2, <4>3 DEF TimerFault, SecondaryStages
    <3>5. CASE c # d
      BY <1>0, <3>1, <3>2, <3>3, <3>5
    <3> QED
      BY <3>4, <3>5
  <2> QED
    BY <1>3, <2>1, <2>2 DEF Trap
<1>4. ASSUME NEW d \in Cpus, InTrap(d)
      PROVE  /\ "timer" \notin enabled'[c] /\ main'[c] \in SecondaryStages
             /\ trap'[c] \in {"timer", "timer_send"} => TimerFault(c)'
  BY <1>0, <1>4 DEF InTrap, Ack, UartRxHandler, UartClear, UartComplete, TimerHandler, TimerSend,
                    IpiHandler, IpiEnd, TrapGoto, control
<1> QED
  BY <1>0, <1>1, <1>2, <1>3, <1>4 DEF Next, Step

(* A step that sends and sees no IPI keeps the order.                      *)
LEMMA QuietOrder ==
  ASSUME TypeOK, InOrder, [Next]_vars, UNCHANGED <<seen, carry>>,
         ticks' \in Nat, ticks <= ticks'
  PROVE  InOrder'
<1>1. \A c, d \in Cpus : Skips(d, c) => Skips(d, c)'
  BY FaultStays DEF Skips
<1>2. \A c \in Cpus : carry[c] \in Nat /\ ticks \in Nat
  BY DEF TypeOK
<1> QED
  BY <1>1, <1>2 DEF InOrder

(* A CPU that takes an IPI has seen what the IPI carries.                  *)
LEMMA SeeOrder ==
  ASSUME TypeOK, InOrder, [Next]_vars, NEW c \in Cpus,
         seen' = [seen EXCEPT ![c] = carry[c]], UNCHANGED <<carry, ticks>>
  PROVE  InOrder'
<1>1. \A a, b \in Cpus : Skips(b, a) => Skips(b, a)'
  BY FaultStays DEF Skips
<1>2. \A a \in Cpus : carry[a] \in Nat /\ seen[a] \in Nat
                      /\ seen'[a] \in Nat /\ seen[a] <= seen'[a] /\ seen'[a] <= carry[a]
  BY DEF TypeOK, InOrder
<1>3. ASSUME NEW a \in Cpus, NEW b \in Cpus, b # Master, b < a
      PROVE  carry'[a] <= seen'[b] \/ Skips(b, a)'
  <2>1. carry[a] <= seen[b] \/ Skips(b, a)
    BY <1>3 DEF InOrder
  <2> QED
    BY <1>1, <1>2, <2>1
<1> QED
  BY <1>2, <1>3 DEF InOrder

(* Sending a tick that the CPUs before each target have seen.              *)
LEMMA SendOrder ==
  ASSUME TypeOK, InOrder, [Next]_vars, NEW c \in Cpus, NEW tick \in Nat,
         SendIpi(c, tick), UNCHANGED ticks, tick <= ticks,
         \A t \in IpiTargets(c) \cap Cpus, d \in Cpus :
           d # Master /\ d < t => tick <= seen[d] \/ Skips(d, t)
  PROVE  InOrder'
<1>1. \A a, b \in Cpus : Skips(b, a) => Skips(b, a)'
  BY FaultStays DEF Skips
<1>2. \A a \in Cpus : carry[a] \in Nat /\ seen[a] \in Nat
  BY DEF TypeOK
<1>3. UNCHANGED seen
  BY DEF SendIpi
<1>4. ASSUME NEW a \in Cpus
      PROVE  carry'[a] = carry[a] \/ (a \in IpiTargets(c) \cap Cpus /\ carry'[a] = tick
                                      /\ tick > carry[a])
  BY DEF SendIpi
<1>5. ASSUME NEW a \in Cpus
      PROVE  seen'[a] <= carry'[a] /\ carry'[a] <= ticks'
  BY <1>2, <1>3, <1>4 DEF InOrder, TypeOK
<1>6. ASSUME NEW a \in Cpus, NEW b \in Cpus, b # Master, b < a
      PROVE  carry'[a] <= seen'[b] \/ Skips(b, a)'
  <2>1. carry[a] <= seen[b] \/ Skips(b, a)
    BY <1>6 DEF InOrder
  <2> QED
    BY <1>1, <1>3, <1>4, <1>6, <2>1
<1> QED
  BY <1>5, <1>6 DEF InOrder

(* Whom a CPU interrupts: the next one; all of them only when it is the    *)
(* last and no harts are involved.                                         *)
LEMMA TargetCases ==
  ASSUME plat \in Platforms, NEW c \in Cpus, NEW t \in IpiTargets(c) \cap Cpus
  PROVE  \/ t = c + 1
         \/ plat.arch # "riscv" /\ t < c
<1>1. /\ NumCpus \in Nat \ {0} /\ plat \in Platform
      /\ (plat.arch = "riscv") <=> (plat.intc = "plic")
      /\ plat.intc = "gicv2" => NumCpus <= plat.list
  BY InterruptsAssumption
<1>2. c \in Nat /\ c <= NumCpus - 1 /\ t \in Nat /\ t <= NumCpus - 1
  BY <1>1 DEF Cpus
<1>3. CASE plat.intc = "gicv2" /\ c + 1 = plat.list
  <2>1. t # c /\ NumCpus <= c + 1
    BY <1>1, <1>3 DEF IpiTargets
  <2> QED
    BY <1>1, <1>2, <1>3, <2>1
<1>4. CASE ~(plat.intc = "gicv2" /\ c + 1 = plat.list)
  BY <1>4 DEF IpiTargets
<1> QED
  BY <1>3, <1>4

(* The CPUs before a target of ipi_handler have seen its tick.             *)
LEMMA IpiHandlerOrder ==
  ASSUME TypeOK, InOrder, [Next]_vars, NEW c \in Cpus,
         SendIpi(c, seen[c]), UNCHANGED ticks
  PROVE  InOrder'
<1>1. /\ \A a \in Cpus : a \in Nat /\ carry[a] \in Nat /\ seen[a] \in Nat
      /\ ticks \in Nat
  BY InterruptsAssumption DEF TypeOK, Cpus
<1>2. seen[c] <= carry[c] /\ seen[c] <= ticks
  BY <1>1 DEF InOrder
<1>3. ASSUME NEW t \in IpiTargets(c) \cap Cpus, NEW d \in Cpus, d # Master, d < t
      PROVE  seen[c] <= seen[d] \/ Skips(d, t)
  <2>1. CASE d = c
    BY <1>1, <2>1
  <2>2. CASE d < c
    <3>1. carry[c] <= seen[d] \/ Skips(d, c)
      BY <1>3, <2>2 DEF InOrder
    <3>2. CASE carry[c] <= seen[d]
      BY <1>1, <1>2, <3>2
    <3>3. CASE Skips(d, c)
      <4>1. PICK f \in Cpus : d <= f /\ f < c /\ TimerFault(f)
        BY <3>3 DEF Skips
      <4>2. t = c + 1
        BY <4>1, TargetCases DEF TimerFault, TypeOK
      <4> QED
        BY <1>1, <4>1, <4>2 DEF Skips
    <3> QED
      BY <3>1, <3>2, <3>3
  <2>3. d <= c
    BY <1>1, <1>3, TargetCases DEF TypeOK
  <2> QED
    BY <1>1, <2>1, <2>2, <2>3
<1> QED
  BY <1>1, <1>2, <1>3, SendOrder

(* timer_handler of the master sends to the first CPU of the wave, that of *)
(* a faulting hart to the next.                                            *)
LEMMA TimerSendOrder ==
  ASSUME TypeOK, InOrder, SecondaryInv, [Next]_vars, NEW c \in Cpus,
         trap[c] = "timer_send", SendIpi(c, ticks), UNCHANGED ticks
  PROVE  InOrder'
<1>1. (\A a \in Cpus : a \in Nat) /\ ticks \in Nat
  BY InterruptsAssumption DEF TypeOK, Cpus
<1>2. ASSUME NEW t \in IpiTargets(c) \cap Cpus, NEW d \in Cpus, d # Master, d < t
      PROVE  Skips(d, t)
  <2>1. CASE c = Master
    <3>1. t = c + 1 \/ t < c
      BY TargetCases DEF TypeOK
    <3>2. t \in Nat /\ d \in Nat /\ d # 0 /\ c = 0
      BY <1>1, <1>2, <2>1 DEF Master
    <3>3. d < t
      BY <1>2
    <3> QED
      BY <3>1, <3>2, <3>3
  <2>2. CASE c # Master
    <3>1. TimerFault(c)
      BY <2>2 DEF SecondaryInv
    <3>2. t = c + 1
      BY <3>1, TargetCases DEF TimerFault, TypeOK
    <3> QED
      BY <1>1, <1>2, <3>1, <3>2 DEF Skips
  <2> QED
    BY <2>1, <2>2
<1> QED
  BY <1>1, <1>2, SendOrder

(* Every step keeps the order.                                             *)
LEMMA NextOrder ==
  ASSUME TypeOK, InOrder, SecondaryInv, [Next]_vars
  PROVE  InOrder'
<1>0. ticks \in Nat
  BY DEF TypeOK
<1>1. CASE Receive \/ UNCHANGED vars
  BY <1>0, <1>1, QuietOrder DEF Receive, vars, timerVars, ipiVars
<1>2. CASE Tick
  <2>1. ticks' = ticks + 1 /\ UNCHANGED <<seen, carry>>
    BY <1>2 DEF Tick, ipiVars
  <2> QED
    BY <1>0, <2>1, QuietOrder
<1>3. ASSUME NEW c \in Cpus, Main(c)
      PROVE  InOrder'
  <2>1. UNCHANGED <<seen, carry, ticks>>
    BY <1>3 DEF Main, SetHandler, EnableRxIrq, StartTimer, EnablePrivate, EnableUart,
                SetTarget, MainGoto, SetTimer, timerVars, ipiVars
  <2> QED
    BY <1>0, <2>1, QuietOrder
<1>4. ASSUME NEW c \in Cpus,
             \/ TakeUart(c) \/ TakeTimer(c) \/ Fault(c) \/ Ack(c) \/ UartRxHandler(c)
             \/ UartClear(c) \/ UartComplete(c) \/ TimerHandler(c) \/ IpiEnd(c)
      PROVE  InOrder'
  <2>1. UNCHANGED <<seen, carry, ticks>>
    BY <1>4 DEF TakeUart, TakeTimer, Fault, Ack, UartRxHandler, UartClear, UartComplete,
                TimerHandler, IpiEnd, SetTimer, timerVars, ipiVars
  <2> QED
    BY <1>0, <2>1, QuietOrder
<1>5. ASSUME NEW c \in Cpus, TakeIpi(c)
      PROVE  InOrder'
  BY <1>5, SeeOrder DEF TakeIpi, timerVars
<1>6. ASSUME NEW c \in Cpus, TimerSend(c)
      PROVE  InOrder'
  BY <1>6, TimerSendOrder DEF TimerSend, TrapGoto, timerVars
<1>7. ASSUME NEW c \in Cpus, IpiHandler(c)
      PROVE  InOrder'
  <2>1. CASE "ipi" \in handlers
    BY <1>7, <2>1, IpiHandlerOrder DEF IpiHandler, timerVars
  <2>2. CASE "ipi" \notin handlers
    BY <1>0, <1>7, <2>2, QuietOrder DEF IpiHandler, timerVars, ipiVars
  <2> QED
    BY <2>1, <2>2
<1> QED
  BY <1>1, <1>2, <1>3, <1>4, <1>5, <1>6, <1>7 DEF Next, Step, Trap, InTrap

-----------------------------------------------------------------------------
LEMMA InitInv == Init => IndInv
<1> SUFFICES ASSUME Init PROVE IndInv
  OBVIOUS
<1>1. InOrder
  BY DEF Init, InOrder
<1>2. SecondaryInv
  BY DEF Init, SecondaryInv, SecondaryStages
<1> QED
  BY <1>1, <1>2, InitType, InitContext DEF IndInv, WaveInv

LEMMA NextInv ==
  ASSUME IndInv, [Next]_vars
  PROVE  IndInv'
  BY NextType, NextContext, NextOrder, NextSecondary DEF IndInv, WaveInv

(* The invariant holds whatever the CPUs, the platform and the events.     *)
THEOREM Invariance == Spec => []IndInv
<1>1. IndInv /\ [Next]_vars => IndInv'
  BY NextInv
<1> QED
  BY InitInv, <1>1, PTL DEF Spec

(* The interrupt path of irq.c, the drivers and main.c keeps its types.    *)
THEOREM TypeCorrect == Spec => []TypeOK
<1>1. IndInv => TypeOK
  BY DEF IndInv
<1> QED
  BY Invariance, <1>1, PTL

(* The vectors of the three architectures give back the registers and the  *)
(* stack frames of the code they interrupt, on every CPU of any number.    *)
THEOREM ContextKept == Spec => []ContextRestored
<1>1. IndInv => ContextRestored
  BY DEF IndInv, ContextInv, ContextRestored, OwnContext, InHandler
<1> QED
  BY Invariance, <1>1, PTL

(* The IPIs of timer_handler and ipi_handler pass the CPUs in order, but   *)
(* for the harts after one that takes a load fault for its timer.          *)
THEOREM WaveOrdered == Spec => []WaveInOrder
<1>1. IndInv => WaveInOrder
  <2> SUFFICES ASSUME IndInv, NEW c \in Cpus, c # Master
               PROVE  /\ seen[c] <= carry[c]
                      /\ \/ carry[c] <= IF c - 1 = Master THEN ticks ELSE seen[c - 1]
                         \/ /\ plat.arch = "riscv" /\ plat.code = 5
                            /\ main[c - 1] = "fault"
    BY DEF WaveInOrder
  <2>1. seen[c] <= carry[c] /\ carry[c] <= ticks
    BY DEF IndInv, WaveInv, InOrder
  <2>2. (\A a \in Cpus : a \in Nat) /\ c - 1 \in Cpus /\ c - 1 < c
    BY InterruptsAssumption DEF Cpus, Master
  <2>3. CASE c - 1 # Master
    <3>1. carry[c] <= seen[c - 1] \/ Skips(c - 1, c)
      BY <2>2, <2>3 DEF IndInv, WaveInv, InOrder
    <3>2. CASE Skips(c - 1, c)
      <4>1. PICK f \in Cpus : c - 1 <= f /\ f < c /\ TimerFault(f)
        BY <3>2 DEF Skips
      <4>2. f = c - 1
        BY <2>2, <4>1
      <4> QED
        BY <2>1, <4>1, <4>2 DEF TimerFault
    <3> QED
      BY <2>1, <2>3, <3>1, <3>2
  <2> QED
    BY <2>1, <2>3
<1> QED
  BY Invariance, <1>1, PTL
=============================================================================
