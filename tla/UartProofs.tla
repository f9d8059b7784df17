----------------------------- MODULE UartProofs -----------------------------
(***************************************************************************)
(* Uart for any number of CPUs, FIFO depth and amount of traffic: input is *)
(* stranded, a character lost and uart8250_getc misled only by the races   *)
(* that the properties name.                                               *)
(***************************************************************************)
EXTENDS Uart, SequenceTheorems, TLAPS

Ops == {"off", "on", "loopback", "busy", "clear", "irq_on", "irq_off", "reset", "read"}

(* The values of the state of the UART and of its users.                   *)
TypeOK ==
  /\ drv \in DRIVERS
  /\ rxOn \in BOOLEAN /\ raw \in BOOLEAN /\ irqEn \in BOOLEAN /\ overrun \in BOOLEAN
  /\ rx \in Nat
  /\ tx \in 0 .. Depth
  /\ setup \in Seq(Ops)
  /\ thread \in [Cpus -> {"idle", "put", "store", "get"}]
  /\ handler \in {"none", "put", "store", "drain", "clear"}
  /\ on \in Cpus
  /\ arrived \in Nat /\ printed \in Nat
  /\ late \in BOOLEAN /\ clash \in BOOLEAN /\ dropped \in BOOLEAN
  /\ deaf \in BOOLEAN
  /\ taken \in [Cpus -> BOOLEAN]

(* Nobody uses the UART before it is set up.                               *)
QuietInv == ~Running => handler = "none" /\ \A c \in Cpus : thread[c] = "idle"

(* The setup leaves the receive interrupt enabled.                         *)
IrqInv ==
  \/ irqEn /\ \A j \in 1 .. Len(setup) : setup[j] # "irq_off"
  \/ \E j \in 1 .. Len(setup) :
       setup[j] = "irq_on" /\ \A l \in j + 1 .. Len(setup) : setup[l] # "irq_off"

(* Only the holder of print_lock is in uart_putc, beside the handler; and  *)
(* whoever has found room in the transmitter still has it, unless there    *)
(* was a clash.                                                            *)
PutInv ==
  /\ \A c \in Cpus : thread[c] \in {"put", "store"} => printer = {c}
  /\ ~clash /\ (handler = "store" \/ \E c \in Cpus : thread[c] = "store") => tx < Depth
  /\ dropped => clash

(* A character without its latch, or that the next write to the clear      *)
(* register is going to strand, is late.                                   *)
LateInv ==
  Latched /\ rx > 0 /\ (~raw \/ ~Running \/ handler = "clear") => late

IndInv == TypeOK /\ QuietInv /\ IrqInv /\ PutInv /\ LateInv /\ Getc8250OnlyByRace

-----------------------------------------------------------------------------
(* There is room for a character in every transmitter.                     *)
LEMMA DepthType == Depth \in Nat \ {0}
  BY UartAssumption DEF Depth

LEMMA InitInv == Init => IndInv
<1> SUFFICES ASSUME Init PROVE IndInv
  OBVIOUS
<1>1. drv \in {"pl011", "zynq", "8250", "nxp"}
  BY UartAssumption DEF Init
<1>2. 0 \in Cpus
  BY UartAssumption DEF Cpus
<1>3. setup \in Seq(Ops) /\ IrqInv
  <2>1. CASE drv = "pl011"
    <3>1. setup = <<"off", "loopback", "busy", "on", "clear", "irq_on", "on">>
      BY <2>1 DEF Init, uart_init, uart_enable_rxirq
    <3>2. Len(setup) = 7 /\ setup[6] = "irq_on" /\ \A l \in 7 .. 7 : setup[l] = "on"
      BY <3>1
    <3>3. setup \in Seq(Ops)
      BY <3>1 DEF Ops
    <3>4. 6 \in 1 .. Len(setup) /\ \A l \in 6 + 1 .. Len(setup) : setup[l] # "irq_off"
      BY <3>2
    <3> QED
      BY <3>2, <3>3, <3>4 DEF IrqInv
  <2>2. CASE drv # "pl011"
    <3>1. uart_init \in Seq(Ops) /\ uart_enable_rxirq = <<"irq_on">>
      <4>1. CASE drv = "zynq"
        <5>1. uart_init = <<"off", "reset", "on", "clear", "irq_on", "reset", "reset", "on">>
          BY <4>1 DEF uart_init
        <5> QED
          BY <2>2, <5>1 DEF uart_enable_rxirq, Ops
      <4>2. CASE drv = "8250"
        <5>1. uart_init = <<"irq_off", "on", "read">>
          BY <4>2 DEF uart_init
        <5> QED
          BY <2>2, <5>1 DEF uart_enable_rxirq, Ops
      <4>3. CASE drv = "nxp"
        <5>1. uart_init = <<"irq_off", "on">>
          BY <4>3 DEF uart_init
        <5> QED
          BY <2>2, <5>1 DEF uart_enable_rxirq, Ops
      <4> QED
        BY <1>1, <2>2, <4>1, <4>2, <4>3
    <3>2. setup = Append(uart_init, "irq_on") /\ "irq_on" \in Ops
      BY <3>1 DEF Init, Ops
    <3>3. /\ setup \in Seq(Ops) /\ Len(setup) = Len(uart_init) + 1
          /\ setup[Len(uart_init) + 1] = "irq_on" /\ Len(uart_init) \in Nat
      BY <3>1, <3>2, AppendProperties, LenProperties
    <3>4. /\ Len(setup) \in 1 .. Len(setup) /\ setup[Len(setup)] = "irq_on"
          /\ Len(setup) + 1 .. Len(setup) = {}
      BY <3>3
    <3> QED
      BY <3>3, <3>4 DEF IrqInv
  <2> QED
    BY <2>1, <2>2
<1>4. TypeOK
  <2>1. tx \in 0 .. Depth /\ rx \in Nat /\ late \in BOOLEAN
    BY DepthType DEF Init
  <2>2. overrun \in BOOLEAN /\ deaf \in BOOLEAN
    BY DEF Init
  <2> QED
    BY <1>2, <1>3, <2>1, <2>2 DEF Init, TypeOK
<1>5. QuietInv /\ PutInv /\ LateInv /\ Getc8250OnlyByRace
  BY DEF Init, QuietInv, PutInv, LateInv, Getc8250OnlyByRace
<1> QED
  BY <1>3, <1>4, <1>5 DEF IndInv

-----------------------------------------------------------------------------
(* A step of the setup takes the first of the writes that are left.        *)
LEMMA SetupRest ==
  ASSUME TypeOK, NEW op, SetupStep(op)
  PROVE  /\ ~Running /\ setup' \in Seq(Ops) /\ op = setup[1]
         /\ Len(setup) \in Nat \ {0} /\ Len(setup') = Len(setup) - 1
         /\ \A j \in 1 .. Len(setup) - 1 : setup'[j] = setup[j + 1]
<1>1. setup \in Seq(Ops) /\ setup # << >> /\ setup' = Tail(setup) /\ op = Head(setup)
  BY DEF TypeOK, SetupStep
<1>2. Len(setup) \in Nat \ {0}
  BY <1>1, LenProperties, EmptySeq
<1> QED
  BY <1>1, <1>2, HeadTailProperties DEF Running

(* It keeps the interrupt enabled, or a write to enable it to come.        *)
LEMMA SetupIrqKept ==
  ASSUME TypeOK, IrqInv, NEW op, SetupStep(op),
         irqEn' = IF op = "irq_on" THEN TRUE ELSE IF op = "irq_off" THEN FALSE ELSE irqEn
  PROVE  IrqInv'
<1> DEFINE n == Len(setup)
<1>1. /\ op = setup[1] /\ n \in Nat \ {0} /\ Len(setup') = n - 1
      /\ \A j \in 1 .. n - 1 : setup'[j] = setup[j + 1]
  BY SetupRest
<1> HIDE DEF n
<1>2. CASE irqEn /\ \A j \in 1 .. n : setup[j] # "irq_off"
  <2>1. irqEn'
    BY <1>1, <1>2
  <2>2. \A j \in 1 .. n - 1 : j + 1 \in 1 .. n
    BY <1>1
  <2>3. \A j \in 1 .. n - 1 : setup'[j] # "irq_off"
    BY <1>1, <1>2, <2>2
  <2> QED
    BY <1>1, <2>1, <2>3 DEF IrqInv
<1>3. ASSUME NEW j \in 1 .. n, setup[j] = "irq_on", \A l \in j + 1 .. n : setup[l] # "irq_off"
      PROVE  IrqInv'
  <2>1. CASE j = 1
    <3>1. irqEn'
      BY <1>1, <1>3, <2>1
    <3>2. \A l \in 1 .. n - 1 : l + 1 \in j + 1 .. n
      BY <1>1, <2>1
    <3>3. \A l \in 1 .. n - 1 : setup'[l] # "irq_off"
      BY <1>1, <1>3, <3>2
    <3> QED
      BY <1>1, <3>1, <3>3 DEF IrqInv
  <2>2. CASE j # 1
    <3>1. j - 1 \in 1 .. n - 1 /\ (j - 1) + 1 = j
      BY <1>1, <2>2
    <3>2. setup'[j - 1] = "irq_on"
      BY <1>1, <1>3, <3>1
    <3>3. \A l \in (j - 1) + 1 .. n - 1 : l \in 1 .. n - 1 /\ l + 1 \in j + 1 .. n
      BY <1>1, <2>2
    <3>4. \A l \in (j - 1) + 1 .. n - 1 : setup'[l] # "irq_off"
      BY <1>1, <1>3, <3>3
    <3> QED
      BY <1>1, <3>1, <3>2, <3>4 DEF IrqInv
  <2> QED
    BY <2>1, <2>2
<1> QED
  BY <1>2, <1>3 DEF IrqInv, n

(* During the setup the other invariants only need that input stays late.  *)
LEMMA SetupQuiet ==
  ASSUME IndInv, NEW op, SetupStep(op),
         rx' \in Nat, tx' \in 0 .. Depth, rxOn' \in BOOLEAN, raw' \in BOOLEAN,
         irqEn' = IF op = "irq_on" THEN TRUE ELSE IF op = "irq_off" THEN FALSE ELSE irqEn,
         late' \in BOOLEAN, taken' \in [Cpus -> BOOLEAN],
         late /\ rx' > 0 => late', rx' > 0 => rx > 0
  PROVE  IndInv'
<1> USE DEF IndInv
<1>1. ~Running /\ setup' \in Seq(Ops)
  BY SetupRest
<1>2. /\ UNCHANGED <<drv, overrun, thread, handler, on, printer, arrived, printed, clash,
                     dropped, deaf>>
      /\ handler = "none" /\ \A c \in Cpus : thread[c] = "idle"
  BY <1>1 DEF SetupStep, QuietInv
<1>3. TypeOK'
  BY <1>1, <1>2 DEF TypeOK, Depth
<1>4. IrqInv'
  BY SetupIrqKept
<1>5. QuietInv' /\ PutInv' /\ Getc8250OnlyByRace'
  BY <1>2 DEF QuietInv, PutInv, Getc8250OnlyByRace
<1>6. LateInv'
  BY <1>1, <1>2 DEF LateInv, Latched
<1> QED
  BY <1>3, <1>4, <1>5, <1>6

(* A read of the data register.                                            *)
LEMMA ReadEffect ==
  ASSUME TypeOK, NEW readers, ReadBy(readers)
  PROVE  /\ rx' \in Nat /\ raw' \in BOOLEAN /\ late' \in BOOLEAN
         /\ rx' > 0 => rx > 0 /\ raw' = raw /\ late' = late
         /\ rx' = 0 => rx = 0 \/ rx = 1
         /\ taken' \in [Cpus -> BOOLEAN]
         /\ \A c \in Cpus : thread[c] = "get" /\ c \notin readers =>
              (taken[c] => taken'[c]) /\ (rx > 0 => taken'[c])
<1>1. /\ rx' = IF rx = 0 THEN 0 ELSE rx - 1
      /\ raw' = (raw /\ ~(drv = "pl011" /\ rx' = 0))
      /\ late' = (late /\ rx' > 0)
      /\ taken' = [c \in Cpus |->
           thread[c] = "get" /\ c \notin readers /\ (taken[c] \/ rx > 0)]
  BY DEF ReadBy
<1>2. rx \in Nat /\ raw \in BOOLEAN /\ late \in BOOLEAN
      /\ taken \in [Cpus -> BOOLEAN]
  BY DEF TypeOK
<1>3. rx' \in Nat /\ (rx' > 0 => rx > 0) /\ (rx' = 0 => rx = 0 \/ rx = 1)
  BY <1>1, <1>2
<1>4. raw' \in BOOLEAN /\ late' \in BOOLEAN /\ (rx' > 0 => raw' = raw /\ late' = late)
  BY <1>1, <1>2, <1>3
<1>5. /\ taken' \in [Cpus -> BOOLEAN]
      /\ \A c \in Cpus : thread[c] = "get" /\ c \notin readers =>
           (taken[c] => taken'[c]) /\ (rx > 0 => taken'[c])
  BY <1>1, Zenon
<1> QED
  BY <1>3, <1>4, <1>5

LEMMA SetupKept ==
  ASSUME IndInv, Setup
  PROVE  IndInv'
<1>0. /\ rx \in Nat /\ tx \in 0 .. Depth /\ Depth \in Nat \ {0}
      /\ rxOn \in BOOLEAN /\ raw \in BOOLEAN /\ irqEn \in BOOLEAN /\ late \in BOOLEAN
      /\ taken \in [Cpus -> BOOLEAN]
  BY DepthType DEF IndInv, TypeOK
<1>1. CASE SetupControl
  <2>1. PICK op \in {"off", "on"} : SetupStep(op) /\ rxOn' \in BOOLEAN
    BY <1>1 DEF SetupControl
  <2>2. UNCHANGED <<rx, raw, irqEn, tx, late, taken>>
    BY <1>1 DEF SetupControl, input
  <2>3. irqEn' = IF op = "irq_on" THEN TRUE ELSE IF op = "irq_off" THEN FALSE ELSE irqEn
    BY <2>2
  <2> QED
    BY <1>0, <2>1, <2>2, <2>3, SetupQuiet
<1>2. CASE SetupReset
  <2>1. PICK op \in {"reset"} :
          /\ SetupStep(op) /\ rx' = 0 /\ tx' = 0 /\ late' = FALSE
          /\ UNCHANGED <<rxOn, raw, irqEn, taken>>
    BY <1>2 DEF SetupReset
  <2>2. /\ irqEn' = IF op = "irq_on" THEN TRUE ELSE IF op = "irq_off" THEN FALSE ELSE irqEn
        /\ rx' \in Nat /\ ~(rx' > 0) /\ tx' \in 0 .. Depth
    BY <1>0, <2>1
  <2> QED
    BY <1>0, <2>1, <2>2, SetupQuiet
<1>3. CASE SetupIrq
  <2>1. PICK op \in {"clear", "irq_on", "irq_off"} :
          /\ SetupStep(op) /\ raw' \in BOOLEAN
          /\ irqEn' = IF op = "irq_on" THEN TRUE ELSE IF op = "irq_off" THEN FALSE ELSE irqEn
    BY <1>0, <1>3 DEF SetupIrq
  <2> QED
    BY <1>0, <1>3, <2>1, SetupQuiet DEF SetupIrq, input
<1>4. CASE SetupRead
  <2>1. PICK op \in {"read"} : SetupStep(op) /\ ReadBy({}) /\ UNCHANGED <<rxOn, irqEn, tx>>
    BY <1>4 DEF SetupRead, ReadData
  <2>2. /\ rx' \in Nat /\ raw' \in BOOLEAN /\ late' \in BOOLEAN
        /\ rx' > 0 => rx > 0 /\ raw' = raw /\ late' = late
        /\ taken' \in [Cpus -> BOOLEAN]
    BY <2>1, ReadEffect DEF IndInv
  <2>3. irqEn' = IF op = "irq_on" THEN TRUE ELSE IF op = "irq_off" THEN FALSE ELSE irqEn
    BY <2>1
  <2>4. /\ tx' \in 0 .. Depth /\ rxOn' \in BOOLEAN
        /\ late /\ rx' > 0 => late'
        /\ rx' > 0 => rx > 0
    BY <1>0, <2>1, <2>2
  <2> QED
    BY <2>1, <2>2, <2>3, <2>4, SetupQuiet
<1>5. CASE SetupLoopback
  <2>1. PICK op \in {"loopback", "busy"} : SetupStep(op) /\ tx' \in 0 .. Depth
    BY <1>0, <1>5 DEF SetupLoopback
  <2>2. UNCHANGED <<rxOn, rx, raw, irqEn, late, taken>>
    BY <1>5 DEF SetupLoopback, input
  <2>3. irqEn' = IF op = "irq_on" THEN TRUE ELSE IF op = "irq_off" THEN FALSE ELSE irqEn
    BY <2>2
  <2> QED
    BY <1>0, <2>1, <2>2, <2>3, SetupQuiet
<1> QED
  BY <1>1, <1>2, <1>3, <1>4, <1>5 DEF Setup
-----------------------------------------------------------------------------
(* After the setup: steps that leave the receiver alone keep what it needs. *)
ReceiverKept ==
  /\ UNCHANGED <<drv, rx, raw, irqEn, setup, late, taken>>
  /\ handler' = "clear" => handler = "clear" \/ rx = 0 \/ ~Latched
  /\ \A c \in Cpus : thread'[c] = "get" => thread[c] = "get"

LEMMA ReceiverFrame ==
  ASSUME IndInv, Running, ReceiverKept
  PROVE  QuietInv' /\ IrqInv' /\ LateInv' /\ Getc8250OnlyByRace'
<1>1. QuietInv'
  BY DEF ReceiverKept, QuietInv, Running
<1>2. IrqInv'
  BY DEF ReceiverKept, IndInv, IrqInv
<1>3. LateInv'
  BY DEF ReceiverKept, IndInv, TypeOK, LateInv, Latched, Running
<1>4. Getc8250OnlyByRace'
  BY DEF ReceiverKept, IndInv, Getc8250OnlyByRace
<1> QED
  BY <1>1, <1>2, <1>3, <1>4

(* Steps that leave the transmitter alone, and nobody enters uart_putc.    *)
TransmitterKept ==
  /\ UNCHANGED <<drv, tx, clash, dropped, printer>>
  /\ handler' = "store" => handler = "store"
  /\ \A c \in Cpus : thread'[c] \in {"put", "store"} => thread'[c] = thread[c]

LEMMA TransmitterFrame ==
  ASSUME IndInv, TransmitterKept
  PROVE  PutInv'
  BY DEF TransmitterKept, IndInv, PutInv, Depth

(* uart_putc of a thread.                                                  *)
LEMMA PutcKept ==
  ASSUME IndInv, NEW c \in Cpus, Putc(c)
  PROVE  IndInv'
<1> USE DEF IndInv
<1>0. /\ thread \in [Cpus -> {"idle", "put", "store", "get"}]
      /\ tx \in 0 .. Depth /\ Depth \in Nat \ {0} /\ clash \in BOOLEAN /\ dropped \in BOOLEAN
  BY DepthType DEF TypeOK
<1>1. /\ Running /\ thread' = [thread EXCEPT ![c] = thread'[c]]
      /\ UNCHANGED <<drv, rxOn, irqEn, overrun, setup, handler, on, arrived, rx, raw, late,
                     taken>>
      /\ thread'[c] \in {"put", "store", "idle"}
  BY <1>0 DEF Putc, PrintLock, PutWait, PutStore, ThreadGoto, ThreadRuns, input, history
<1>2. QuietInv' /\ IrqInv' /\ LateInv' /\ Getc8250OnlyByRace'
  <2>1. ReceiverKept
    BY <1>0, <1>1 DEF ReceiverKept
  <2> QED
    BY <1>1, <2>1, ReceiverFrame
<1>3. CASE PrintLock(c)
  <2>1. /\ printer = {} /\ printer' = {c} /\ thread[c] = "idle" /\ thread'[c] = "put"
        /\ UNCHANGED <<tx, clash, dropped, deaf>> /\ printed' = printed + 1
    BY <1>0, <1>3 DEF PrintLock, ThreadGoto, history
  <2>2. \A d \in Cpus : thread[d] \notin {"put", "store"}
    BY <2>1 DEF PutInv
  <2>3. \A d \in Cpus : thread'[d] \in {"put", "store"} => d = c /\ thread'[d] = "put"
    BY <1>0, <1>1, <2>1, <2>2
  <2>4. PutInv'
    BY <1>1, <2>1, <2>3 DEF PutInv, Depth
  <2>5. TypeOK'
    BY <1>0, <1>1, <2>1 DEF TypeOK, Depth
  <2> QED
    BY <1>2, <2>4, <2>5
<1>4. CASE PutWait(c)
  <2>1. /\ Room /\ thread[c] = "put" /\ thread'[c] = "store"
        /\ UNCHANGED <<tx, clash, dropped, deaf, printer, printed>>
    BY <1>0, <1>4 DEF PutWait, ThreadGoto, history
  <2>2. tx < Depth
    BY <1>0, <2>1 DEF Room
  <2>3. \A d \in Cpus : thread'[d] \in {"put", "store"} => thread[d] \in {"put", "store"}
    BY <1>0, <1>1, <2>1
  <2>4. PutInv'
    BY <1>1, <2>1, <2>2, <2>3 DEF PutInv, Depth
  <2>5. TypeOK'
    BY <1>0, <1>1, <2>1 DEF TypeOK, Depth
  <2> QED
    BY <1>2, <2>4, <2>5
<1>5. CASE PutStore(c)
  <2>1. /\ thread[c] = "store" /\ thread'[c] = "idle" /\ StoreChar(handler = "store")
        /\ UNCHANGED <<printed, deaf>>
    BY <1>0, <1>5 DEF PutStore, ThreadGoto, StoreChar
  <2>2. \A d \in Cpus : thread'[d] \notin {"put", "store"}
    <3>1. \A d \in Cpus : thread[d] \in {"put", "store"} => d = c
      BY <2>1 DEF PutInv
    <3> QED
      BY <1>0, <1>1, <2>1, <3>1
  <2>3. /\ tx' \in 0 .. Depth
        /\ dropped' = (dropped \/ tx = Depth) /\ clash' = (clash \/ handler = "store")
    BY <1>0, <2>1 DEF StoreChar
  <2>4. ~clash => tx < Depth
    BY <2>1 DEF PutInv
  <2>5. dropped' => clash'
    BY <1>0, <2>3, <2>4 DEF PutInv
  <2>6. PutInv'
    BY <1>1, <2>2, <2>3, <2>5 DEF PutInv
  <2>7. TypeOK'
    BY <1>0, <1>1, <2>1, <2>3 DEF TypeOK, Depth
  <2> QED
    BY <1>2, <2>6, <2>7
<1> QED
  BY <1>3, <1>4, <1>5 DEF Putc

(* A read of the data register after the setup, by CPUs or by the handler. *)
LEMMA ReadKept ==
  ASSUME IndInv, NEW readers, ReadBy(readers), Running, UNCHANGED <<drv, irqEn, setup>>,
         handler' = "clear" => handler = "clear" \/ ~Latched,
         \A c \in Cpus : thread'[c] = "get" => thread[c] = "get" /\ c \notin readers
  PROVE  QuietInv' /\ IrqInv' /\ LateInv' /\ Getc8250OnlyByRace'
<1> USE DEF IndInv
<1>1. /\ rx' \in Nat /\ rx \in Nat
      /\ rx' > 0 => rx > 0 /\ raw' = raw /\ late' = late
      /\ rx' = 0 => rx = 0 \/ rx = 1
      /\ \A c \in Cpus : thread[c] = "get" /\ c \notin readers =>
           (taken[c] => taken'[c]) /\ (rx > 0 => taken'[c])
  BY ReadEffect DEF TypeOK
<1>2. QuietInv' /\ IrqInv'
  BY DEF QuietInv, IrqInv, Running
<1>3. LateInv'
  <2>1. Latched' <=> Latched
    BY DEF Latched
  <2>2. Running'
    BY DEF Running
  <2> QED
    BY <1>1, <2>1, <2>2 DEF LateInv
<1>4. Getc8250OnlyByRace'
  <2> SUFFICES ASSUME NEW c \in Cpus, thread'[c] = "get"
               PROVE  drv = "8250" /\ rx' = 0 => taken'[c]
    BY DEF Getc8250OnlyByRace
  <2>1. /\ thread[c] = "get" /\ (taken[c] => taken'[c])
        /\ rx > 0 => taken'[c]
    BY <1>1
  <2>2. drv = "8250" /\ rx = 0 => taken[c]
    BY <2>1 DEF Getc8250OnlyByRace
  <2>3. rx = 0 \/ rx > 0
    BY <1>1
  <2> QED
    BY <1>1, <2>1, <2>2, <2>3
<1> QED
  BY <1>2, <1>3, <1>4

(* uart_getchar.                                                           *)
LEMMA GetcKept ==
  ASSUME IndInv, NEW c \in Cpus, Getc(c)
  PROVE  IndInv'
<1> USE DEF IndInv
<1>0. thread \in [Cpus -> {"idle", "put", "store", "get"}] /\ rx \in Nat
  BY DEF TypeOK
<1>1. /\ Running /\ thread' = [thread EXCEPT ![c] = thread'[c]]
      /\ UNCHANGED <<drv, rxOn, irqEn, overrun, setup, handler, on, arrived, tx, printer,
                     printed, clash, dropped>>
      /\ thread[c] \in {"idle", "get"} /\ thread'[c] \in {"get", "idle"}
  BY <1>0 DEF Getc, GetcWait, GetcRead, ThreadGoto, ThreadRuns, input, history
<1>2. PutInv'
  <2>1. TransmitterKept
    BY <1>0, <1>1 DEF TransmitterKept
  <2> QED
    BY <2>1, TransmitterFrame
<1>3. CASE GetcWait(c)
  <2>1. /\ UNCHANGED <<rx, raw, late, taken, deaf>> /\ thread[c] = "idle"
        /\ thread'[c] = "get"
        /\ drv # "8250" \/ rx > 0
    BY <1>0, <1>3 DEF GetcWait, ThreadGoto, input, history
  <2>2. Getc8250OnlyByRace'
    <3> SUFFICES ASSUME NEW d \in Cpus, thread'[d] = "get"
                 PROVE  drv = "8250" /\ rx = 0 => taken[d]
      BY <1>1, <2>1 DEF Getc8250OnlyByRace
    <3>1. CASE d = c
      BY <1>0, <2>1, <3>1
    <3>2. CASE d # c
      BY <1>0, <1>1, <3>2 DEF Getc8250OnlyByRace
    <3> QED
      BY <3>1, <3>2
  <2>3. QuietInv' /\ IrqInv' /\ LateInv'
    BY <1>1, <2>1 DEF QuietInv, IrqInv, LateInv, Running, Latched
  <2>4. TypeOK'
    BY <1>0, <1>1, <2>1 DEF TypeOK, Depth
  <2> QED
    BY <1>2, <2>2, <2>3, <2>4
<1>4. CASE GetcRead(c)
  <2>1. ReadBy({c}) /\ thread'[c] = "idle"
    BY <1>0, <1>4 DEF GetcRead, ThreadGoto
  <2>2. \A d \in Cpus : thread'[d] = "get" => thread[d] = "get" /\ d \notin {c}
    BY <1>0, <1>1, <2>1
  <2>3. QuietInv' /\ IrqInv' /\ LateInv' /\ Getc8250OnlyByRace'
    BY <1>1, <2>1, <2>2, ReadKept
  <2>4. /\ rx' \in Nat /\ raw' \in BOOLEAN /\ late' \in BOOLEAN
        /\ taken' \in [Cpus -> BOOLEAN]
    BY <2>1, ReadEffect
  <2>5. deaf' \in BOOLEAN
    BY <1>4 DEF GetcRead, TypeOK
  <2>6. TypeOK'
    BY <1>0, <1>1, <2>4, <2>5 DEF TypeOK, Depth
  <2> QED
    BY <1>2, <2>3, <2>6
<1> QED
  BY <1>3, <1>4 DEF Getc

-----------------------------------------------------------------------------
(* The receive handler.                                                    *)
LEMMA HandlerRuns ==
  ASSUME IndInv, Handler
  PROVE  /\ Running /\ UNCHANGED <<drv, rxOn, irqEn, setup, thread, printer, arrived, printed>>
         /\ on' \in Cpus /\ handler' \in {"none", "put", "store", "drain", "clear"}
<1>1. UNCHANGED <<drv, rxOn, irqEn, setup, thread, printer, arrived, printed>>
      /\ handler' \in {"none", "put", "store", "drain", "clear"}
  BY DEF Handler, HandlerEnter, HandlerPut, DrainLatched, uart8250_interrupt_handler,
         nxp_uart_clear_rxirq, HandlerGoto
<1>2. Running
  BY DEF Handler, HandlerEnter, HandlerPut, DrainLatched, uart8250_interrupt_handler,
         nxp_uart_clear_rxirq, HandlerGoto, IndInv, QuietInv
<1>3. on' \in Cpus
  BY DEF Handler, HandlerEnter, HandlerPut, DrainLatched, uart8250_interrupt_handler,
         nxp_uart_clear_rxirq, IndInv, TypeOK
<1> QED
  BY <1>1, <1>2, <1>3

(* The handler prints: its check and its store.                            *)
LEMMA HandlerPutKept ==
  ASSUME IndInv, HandlerPut, Handler
  PROVE  IndInv'
<1> USE DEF IndInv
<1>0. /\ tx \in 0 .. Depth /\ Depth \in Nat \ {0} /\ clash \in BOOLEAN /\ dropped \in BOOLEAN
  BY DepthType DEF TypeOK
<1>1. /\ Running /\ UNCHANGED <<drv, rxOn, irqEn, setup, thread, printer, arrived, printed>>
      /\ UNCHANGED <<on, rx, raw, overrun, late, taken>>
      /\ handler \in {"put", "store"} /\ handler' \in {"store", "drain"}
  BY HandlerRuns DEF HandlerPut, HandlerGoto, input
<1>2. QuietInv' /\ IrqInv' /\ LateInv' /\ Getc8250OnlyByRace'
  <2>1. ReceiverKept
    BY <1>1 DEF ReceiverKept
  <2> QED
    BY <1>1, <2>1, ReceiverFrame
<1>3. CASE Room /\ HandlerGoto("put", "store") /\ UNCHANGED <<tx, clash, dropped, deaf>>
  <2>1. tx < Depth
    BY <1>0, <1>3 DEF Room
  <2>2. PutInv'
    BY <1>1, <1>3, <2>1 DEF PutInv, Depth
  <2>3. TypeOK'
    BY <1>1, <1>3 DEF TypeOK, Depth
  <2> QED
    BY <1>2, <2>2, <2>3
<1>4. CASE HandlerGoto("store", "drain") /\ StoreChar(\E c \in Cpus : thread[c] = "store")
  <2>1. /\ tx' \in 0 .. Depth /\ handler = "store" /\ handler' = "drain"
        /\ UNCHANGED deaf /\ dropped' = (dropped \/ tx = Depth)
        /\ clash' = (clash \/ \E c \in Cpus : thread[c] = "store")
    BY <1>0, <1>4 DEF StoreChar, HandlerGoto
  <2>2. ~clash => tx < Depth
    BY <2>1 DEF PutInv
  <2>3. dropped' => clash'
    BY <1>0, <2>1, <2>2 DEF PutInv
  <2>4. PutInv'
    BY <1>1, <2>1, <2>3 DEF PutInv
  <2>5. TypeOK'
    BY <1>1, <2>1 DEF TypeOK, Depth
  <2> QED
    BY <1>2, <2>4, <2>5
<1> QED
  BY <1>3, <1>4 DEF HandlerPut

LEMMA HandlerKept ==
  ASSUME IndInv, Handler
  PROVE  IndInv'
<1> USE DEF IndInv
<1>1. /\ Running /\ UNCHANGED <<drv, rxOn, irqEn, setup, thread, printer, arrived, printed>>
      /\ on' \in Cpus /\ handler' \in {"none", "put", "store", "drain", "clear"}
  BY HandlerRuns
<1>2. ASSUME UNCHANGED <<tx, clash, dropped>>, handler' # "store"
      PROVE  PutInv'
  BY <1>1, <1>2, TransmitterFrame DEF TransmitterKept
<1>3. ASSUME ReadBy({}), UNCHANGED <<tx, clash, dropped, deaf, overrun>>, handler' # "store",
             handler' = "clear" => handler = "clear" \/ ~Latched
      PROVE  IndInv'
  <2>1. QuietInv' /\ IrqInv' /\ LateInv' /\ Getc8250OnlyByRace'
    BY <1>1, <1>3, ReadKept
  <2>2. /\ rx' \in Nat /\ raw' \in BOOLEAN /\ late' \in BOOLEAN
        /\ taken' \in [Cpus -> BOOLEAN]
    BY <1>3, ReadEffect
  <2>3. TypeOK'
    BY <1>1, <1>3, <2>2 DEF TypeOK, Depth
  <2> QED
    BY <1>2, <1>3, <2>1, <2>3
<1>4. CASE HandlerEnter
  <2>1. /\ UNCHANGED <<rx, raw, overrun, tx, late, taken, clash, dropped, deaf>> /\ handler' = "put"
    BY <1>4 DEF HandlerEnter, HandlerGoto, history, input
  <2>2. ReceiverKept
    BY <1>1, <2>1 DEF ReceiverKept
  <2>3. TypeOK'
    BY <1>1, <2>1 DEF TypeOK, Depth
  <2> QED
    BY <1>1, <1>2, <2>1, <2>2, <2>3, ReceiverFrame
<1>5. CASE DrainLatched
  <2>1. Latched /\ UNCHANGED <<on, overrun, tx, clash, dropped, deaf>>
    BY <1>5 DEF DrainLatched
  <2>2. CASE rx > 0 /\ HandlerGoto("drain", "drain") /\ ReadData
    BY <1>3, <2>1, <2>2 DEF HandlerGoto, ReadData
  <2>3. CASE rx = 0 /\ HandlerGoto("drain", "clear") /\ UNCHANGED <<rx, raw, input>>
    <3>1. ReceiverKept /\ handler' = "clear"
      BY <1>1, <2>3 DEF ReceiverKept, HandlerGoto, input
    <3>2. TypeOK'
      BY <1>1, <2>1, <2>3 DEF TypeOK, Depth, input
    <3> QED
      BY <1>1, <1>2, <2>1, <3>1, <3>2, ReceiverFrame
  <2>4. CASE HandlerGoto("clear", "none") /\ raw' = FALSE /\ UNCHANGED <<rx, input>>
    <3>1. handler = "clear" /\ handler' = "none" /\ UNCHANGED <<late, taken>>
      BY <2>4 DEF HandlerGoto, input
    <3>2. LateInv'
      BY <1>1, <2>4, <3>1 DEF LateInv, Latched
    <3>3. QuietInv' /\ IrqInv' /\ Getc8250OnlyByRace'
      BY <1>1, <2>4, <3>1 DEF QuietInv, IrqInv, Getc8250OnlyByRace, Running
    <3>4. TypeOK'
      BY <1>1, <2>1, <2>4, <3>1 DEF TypeOK, Depth
    <3> QED
      BY <1>2, <2>1, <3>1, <3>2, <3>3, <3>4
  <2> QED
    BY <1>5, <2>2, <2>3, <2>4 DEF DrainLatched
<1>6. CASE uart8250_interrupt_handler
  BY <1>3, <1>6 DEF uart8250_interrupt_handler, HandlerGoto, ReadData
<1>7. CASE nxp_uart_clear_rxirq
  <2>1. ~Latched /\ UNCHANGED <<on, tx, clash, dropped>>
    BY <1>7 DEF nxp_uart_clear_rxirq, Latched
  <2>2. CASE HandlerGoto("drain", "clear") /\ ReadData /\ UNCHANGED <<overrun, deaf>>
    BY <1>3, <2>1, <2>2 DEF HandlerGoto, ReadData
  <2>3. CASE /\ HandlerGoto("clear", "none")
             /\ overrun' = FALSE /\ deaf' = FALSE
             /\ UNCHANGED <<rx, raw, input>>
    <3>1. ReceiverKept /\ handler' = "none"
      BY <1>1, <2>3 DEF ReceiverKept, HandlerGoto, input
    <3>2. TypeOK'
      BY <1>1, <2>1, <2>3 DEF TypeOK, Depth, input
    <3> QED
      BY <1>1, <1>2, <2>1, <3>1, <3>2, ReceiverFrame
  <2> QED
    BY <1>7, <2>2, <2>3 DEF nxp_uart_clear_rxirq
<1> QED
  BY <1>4, <1>5, <1>6, <1>7, HandlerPutKept DEF Handler

-----------------------------------------------------------------------------
(* A character arrives, in any state.                                      *)
LEMMA ReceiveKept ==
  ASSUME IndInv, Receive
  PROVE  IndInv'
<1> USE DEF IndInv
<1>1. /\ UNCHANGED <<drv, rxOn, irqEn, tx, setup, thread, handler, on, printer, printed,
                     clash, dropped, deaf>>
      /\ arrived' = arrived + 1
  BY DEF Receive
<1>2. PutInv'
  BY <1>1, TransmitterFrame DEF TransmitterKept
<1>3. QuietInv' /\ IrqInv'
  BY <1>1 DEF QuietInv, IrqInv, Running
<1>4. CASE rx < Depth /\ ~overrun
  <2>1. /\ rx' = rx + 1 /\ raw' = (raw \/ Latched) /\ UNCHANGED <<overrun, taken>>
        /\ late' = (late \/ ~Running \/ handler = "clear")
    BY <1>4 DEF Receive
  <2>2. /\ rx \in Nat /\ raw \in BOOLEAN /\ late \in BOOLEAN
        /\ taken \in [Cpus -> BOOLEAN]
    BY DEF TypeOK
  <2>4. raw' \in BOOLEAN /\ late' \in BOOLEAN /\ rx' \in Nat /\ rx' # 0
    BY <2>1, <2>2 DEF Latched
  <2>5. TypeOK'
    BY <1>1, <2>1, <2>2, <2>4 DEF TypeOK, Depth
  <2>6. Getc8250OnlyByRace'
    BY <2>4 DEF Getc8250OnlyByRace
  <2>7. LateInv'
    BY <1>1, <2>1 DEF LateInv, Latched, Running
  <2> QED
    BY <1>2, <1>3, <2>5, <2>6, <2>7
<1>5. CASE ~(rx < Depth /\ ~overrun)
  <2>1. UNCHANGED <<rx, raw, late, taken>> /\ overrun' = (overrun \/ drv = "nxp")
    BY <1>5 DEF Receive, input
  <2>2. TypeOK'
    BY <1>1, <2>1 DEF TypeOK, Depth
  <2>3. Getc8250OnlyByRace' /\ LateInv'
    BY <1>1, <2>1 DEF Getc8250OnlyByRace, LateInv, Latched, Running
  <2> QED
    BY <1>2, <1>3, <2>2, <2>3
<1> QED
  BY <1>4, <1>5

LEMMA SendKept ==
  ASSUME IndInv, Send
  PROVE  IndInv'
<1> USE DEF IndInv
<1>1. /\ tx > 0 /\ tx' = tx - 1
      /\ UNCHANGED <<drv, rxOn, rx, raw, irqEn, overrun, setup, thread, handler, on, printer,
                     arrived, printed, late, taken, clash, dropped, deaf>>
  BY DEF Send, history, input
<1>2. tx \in 0 .. Depth /\ Depth \in Nat /\ Depth' = Depth
  BY <1>1, DepthType DEF TypeOK, Depth
<1>3. TypeOK'
  BY <1>1, <1>2 DEF TypeOK
<1>4. PutInv'
  BY <1>1, <1>2 DEF PutInv
<1>5. QuietInv' /\ IrqInv' /\ Getc8250OnlyByRace' /\ LateInv'
  BY <1>1 DEF QuietInv, IrqInv, Getc8250OnlyByRace, LateInv, Latched, Running
<1> QED
  BY <1>3, <1>4, <1>5

-----------------------------------------------------------------------------
(* The inductive invariant of the UART and its users.                      *)
THEOREM Invariance == Spec => []IndInv
<1>1. IndInv /\ [Next]_vars => IndInv'
  <2> SUFFICES ASSUME IndInv, [Next]_vars PROVE IndInv'
    OBVIOUS
  <2>1. CASE UNCHANGED vars
    BY <2>1 DEF vars, device, history, input, IndInv, TypeOK, QuietInv, IrqInv, PutInv,
                LateInv, Getc8250OnlyByRace, Depth, Latched, Running
  <2> QED
    BY <2>1, SetupKept, HandlerKept, ReceiveKept, SendKept, PutcKept, GetcKept DEF Next
<1> QED
  BY <1>1, InitInv, PTL DEF Spec

(* The state of the UART and of its users keeps its type; the transmitter  *)
(* never holds more than its depth.                                        *)
THEOREM TypeCorrect == Spec => []TypeOK
<1>1. IndInv => TypeOK
  BY DEF IndInv
<1> QED
  BY <1>1, Invariance, PTL

(* Input stays unannounced after uart_clear_rxirq only when it came during *)
(* the setup or between the last look at the receiver and the write to the *)
(* clear register.                                                         *)
THEOREM Stranded == Spec => []StrandedOnlyByRace
<1>1. IndInv => StrandedOnlyByRace
  <2> SUFFICES ASSUME IndInv, Running, handler = "none", rx > 0, ~Irq PROVE late
    BY DEF StrandedOnlyByRace
  <2>1. irqEn
    <3>1. Len(setup) = 0 /\ 1 .. 0 = {}
      BY DEF Running
    <3> QED
      BY <3>1 DEF IndInv, IrqInv
  <2> QED
    BY <2>1 DEF Irq, IndInv, LateInv
<1> QED
  BY <1>1, Invariance, PTL

(* uart_putc drops a character only when another context stored one        *)
(* between its check and its store.                                        *)
THEOREM CharLost == Spec => []CharLostOnlyByRace
<1>1. IndInv => CharLostOnlyByRace
  BY DEF IndInv, PutInv, CharLostOnlyByRace
<1> QED
  BY <1>1, Invariance, PTL

(* uart8250_getc reads an empty receive buffer only when the handler or    *)
(* another CPU took the character after its look at the line status.       *)
THEOREM GetcMisled == Spec => []Getc8250OnlyByRace
<1>1. IndInv => Getc8250OnlyByRace
  BY DEF IndInv
<1> QED
  BY <1>1, Invariance, PTL
=============================================================================
