----------------------------- MODULE BootProofs -----------------------------
(***************************************************************************)
(* Boot for any number of CPUs and any machines on which the stores of     *)
(* _start reach the other CPUs in order, because memory keeps it or        *)
(* because one CPU starts at reset and starts the others: C code finds     *)
(* .bss clear, and the UART and the output come up in order.               *)
(***************************************************************************)
EXTENDS Boot, SequenceTheorems, TLAPS

(* The machines of the theorems.  On others a CPU that skipped the         *)
(* election may read .bss before the stores of the primary: the code has   *)
(* no fence after them.                                                    *)
StoresOrdered ==
  \A m \in Machines : m.inOrder \/ \E s \in Cpus : m.atReset = {s}

-----------------------------------------------------------------------------
Labels == InC \cup {"off", "start", "el1", "stopped", "elected", "clear", "wait"}

Cells == Words \cup {"primary_hart", "ready"}

Lines == {<<"guest">>} \cup {<<"up", c>> : c \in Cpus}

(* The values of the state during bring-up.                                *)
TypeOK ==
  /\ machine \in Machines
  /\ valid \in {0, 1}
  /\ mem \in [Cells -> {0, 1, Junk} \cup Cpus]
  /\ \A w \in Words : mem[w] \in {0, 1, Junk}
  /\ pending \subseteq Cells
  /\ late \in BOOLEAN
  /\ primary \in Cpus \cup {Nobody}
  /\ pc \in [Cpus -> Labels]
  /\ i \in [Cpus -> Nat]
  /\ uart \in Nat
  /\ output \in Seq(Lines)

-----------------------------------------------------------------------------
(* The primary has left the loop that clears .bss.                         *)
Done == primary # Nobody /\ pc[primary] \notin {"elected", "clear"}

(* A word is clear, in memory or on its way there.                         *)
Clean(w) == w \in pending \/ mem[w] # Junk

(* The labels before the fence of spin_unlock.                             *)
Early == {"off", "start", "el1", "stopped", "elected", "clear", "wait",
          "init", "check", "uart_init", "unlock"}

(* At most one CPU is the primary, and it is so for good.                  *)
ElectionInv ==
  /\ machine.arch = "riscv" => (valid = 0 <=> primary = Nobody)
  /\ machine.arch # "riscv" =>
       /\ primary \in {0, Nobody}
       /\ pc[0] \in {"off", "start", "el1", "stopped"} => primary = Nobody
  /\ \A c \in Cpus : pc[c] \in {"elected", "clear"} => c = primary
  /\ primary # Nobody => pc[primary] \in {"elected", "clear", "wait"} \cup InC
  /\ primary = Nobody => pending = {}

(* Nobody passes the ready flag before the primary is done.                *)
ReadyInv ==
  /\ \A c \in Cpus : pc[c] \in InC => Done
  /\ mem["ready"] # 0 \/ "ready" \in pending => Done

(* What the primary has stored so far.                                     *)
ClearingInv ==
  /\ \A c \in Cpus :
       /\ pc[c] \in {"off", "start", "el1", "elected"} => i[c] = 0
       /\ pc[c] = "clear" => /\ i[c] <= Len(BssWords)
                             /\ \A k \in 1 .. i[c] : Clean(BssWords[k])
  /\ Done => \A w \in Words : Clean(w)
  /\ machine.arch = "riscv" /\ primary # Nobody /\ pc[primary] # "elected" =>
       "primary_hart" \in pending \/ mem["primary_hart"] = primary

(* Where stores are reordered, the CPU of reset is alone until its fence.  *)
AloneInv ==
  /\ machine.inOrder => pending = {}
  /\ ~machine.inOrder =>
       \E s \in Cpus :
         /\ machine.atReset = {s} /\ primary \in {s, Nobody}
         /\ pc[s] \in Early => \A c \in Cpus \ {s} : pc[c] = "off"
         /\ pc[s] \notin Early => pending = {}

BssInv == TypeOK /\ ElectionInv /\ ReadyInv /\ ClearingInv /\ AloneInv

-----------------------------------------------------------------------------
(* A word whose value 1 every CPU reads.                                   *)
Set(w) == w \notin pending /\ mem[w] = 1

HoldsInit(c) == pc[c] \in {"check", "uart_init", "unlock"}

(* init_lock, and what it protects: init_done and the UART.                *)
UartInv ==
  /\ ~Done => \A w \in Words : mem[w] # 1
  /\ \A c \in Cpus : HoldsInit(c) =>
       Set("init_lock") /\ \A d \in Cpus : HoldsInit(d) => d = c
  /\ \A c \in Cpus : pc[c] \in {"unlock"} \cup AfterInit => uart = 1
  /\ \A c \in Cpus : pc[c] = "uart_init" => uart = 0 /\ Set("init_done")
  /\ Set("init_done") /\ (\A c \in Cpus : pc[c] # "uart_init") => uart = 1
  /\ ~Set("init_done") => uart = 0

AfterBanner == {"handlers", "master_done", "wait_master", "up_lock", "up", "idle"}

AfterDone == {"wait_master", "up_lock", "up", "idle"}

(* The handler table is in memory, or on its way there.                    *)
Installed == Set("irq_handlers") \/ late

(* The banner is the primary's, and the others wait for its master_done.   *)
OutputInv ==
  /\ \A c \in Cpus : pc[c] \in {"banner_lock", "banner", "handlers", "master_done"}
                       => c = primary
  /\ \A c \in Cpus : pc[c] \in {"up_lock", "up", "idle"} => Set("master_done")
  /\ Set("master_done") => primary # Nobody /\ pc[primary] \in AfterDone
  /\ primary # Nobody /\ pc[primary] \in AfterDone \cup {"master_done"} => Installed
  /\ primary = Nobody \/ pc[primary] \notin AfterBanner => output = << >>
  /\ primary # Nobody /\ pc[primary] \in AfterBanner =>
       Len(output) >= 1 /\ output[1] = <<"guest">>
  /\ \A k \in 2 .. Len(output) :
       /\ \E c \in Cpus : output[k] = <<"up", c>> /\ pc[c] = "idle"
       /\ \A l \in 2 .. k - 1 : output[l] # output[k]

(* The table is on its way on a machine that reorders, and until the       *)
(* primary takes the lock for its own line.                                *)
LateInv ==
  late => /\ machine.arch = "riscv" /\ ~machine.inOrder
          /\ primary # Nobody /\ pc[primary] \in {"master_done", "wait_master", "up_lock"}

IndInv == BssInv /\ UartInv /\ OutputInv /\ LateInv

-----------------------------------------------------------------------------
(* The words and the labels.                                               *)
LEMMA WordsAre ==
  /\ Len(BssWords) = 5
  /\ Words = {"init_lock", "init_done", "print_lock", "master_done", "irq_handlers"}
  /\ \A k \in 1 .. 5 : BssWords[k] \in Words
  /\ \A w \in Words : \E k \in 1 .. 5 : w = BssWords[k]
  /\ "ready" \notin Words /\ "primary_hart" \notin Words
<1>1. Len(BssWords) = 5
  BY DEF BssWords
<1>2. 1 .. Len(BssWords) = {1, 2, 3, 4, 5}
  BY <1>1
<1>3. Words = {"init_lock", "init_done", "print_lock", "master_done", "irq_handlers"}
  BY <1>2 DEF Words, BssWords
<1>4. /\ \A k \in 1 .. 5 : BssWords[k] \in Words
      /\ \A w \in Words : \E k \in 1 .. 5 : w = BssWords[k]
  BY <1>1 DEF Words
<1> QED
  BY <1>1, <1>3, <1>4

(* What the three kinds of stores do to memory: a plain one ...            *)
LEMMA StoreEffect ==
  ASSUME TypeOK, NEW l \in Cells, Store(l)
  PROVE  /\ \A k \in Cells \ {l} : mem'[k] = mem[k] /\ (k \in pending' <=> k \in pending)
         /\ l \in pending' \/ mem'[l] = Stored(l)
         /\ mem'[l] \in {mem[l], Stored(l)}
         /\ machine.inOrder => pending' = pending
         /\ pending' \subseteq Cells
         /\ DOMAIN mem' = Cells /\ mem' = [k \in Cells |-> mem'[k]]
  BY DEF Store, TypeOK

(* ... one of C code ...                                                   *)
LEMMA AssignEffect ==
  ASSUME TypeOK, NEW c, NEW l \in Words, NEW v \in {0, 1}, Assign(c, l, v)
  PROVE  /\ \A k \in Cells \ {l} : mem'[k] = mem[k]
         /\ mem'[l] = v
         /\ pending' = pending /\ ~(c = primary /\ l \in pending)
         /\ mem' \in [Cells -> {0, 1, Junk} \cup Cpus]
         /\ \A w \in Words : mem'[w] \in {0, 1, Junk}
  BY DEF Assign, TypeOK, Cells

(* ... and one that reaches memory.                                        *)
LEMMA StoredValue ==
  ASSUME NEW l \in Cells
  PROVE  /\ l \in Words => Stored(l) = 0
         /\ l = "ready" => Stored(l) = 1
         /\ l = "primary_hart" => Stored(l) = primary
  BY WordsAre DEF Stored, Cells

(* No new stores, and nothing that was clear, unset or known is undone.    *)
MemKept ==
  /\ pending' \subseteq pending
  /\ \A w \in Words : Clean(w) => Clean(w)'
  /\ mem'["ready"] # 0 \/ "ready" \in pending' => mem["ready"] # 0 \/ "ready" \in pending
  /\ "primary_hart" \in pending \/ mem["primary_hart"] = primary =>
       "primary_hart" \in pending' \/ mem'["primary_hart"] = primary

LEMMA QuietKept ==
  ASSUME UNCHANGED <<mem, pending>>
  PROVE  MemKept
  BY DEF MemKept, Clean

LEMMA AssignKept ==
  ASSUME TypeOK, NEW c, NEW l \in Words, NEW v \in {0, 1}, Assign(c, l, v)
  PROVE  MemKept
<1>1. /\ \A k \in Cells \ {l} : mem'[k] = mem[k]
      /\ mem'[l] = v /\ pending' = pending
  BY AssignEffect
<1>2. mem'["ready"] = mem["ready"] /\ mem'["primary_hart"] = mem["primary_hart"]
  BY <1>1, WordsAre DEF Cells
<1>3. \A w \in Words : Clean(w) => Clean(w)'
  BY <1>1, BootAssumption DEF Clean, Cells
<1> QED
  BY <1>1, <1>2, <1>3 DEF MemKept

LEMMA DrainKept ==
  ASSUME TypeOK, Drain
  PROVE  MemKept
<1>1. PICK l \in pending : mem' = [mem EXCEPT ![l] = Stored(l)] /\ pending' = pending \ {l}
  BY DEF Drain
<1>2. l \in Cells /\ mem \in [Cells -> {0, 1, Junk} \cup Cpus]
  BY DEF TypeOK
<1>3. /\ \A k \in Cells \ {l} : mem'[k] = mem[k] /\ (k \in pending' <=> k \in pending)
      /\ mem'[l] = Stored(l)
  BY <1>1, <1>2
<1>4. \A w \in Words : Clean(w) => Clean(w)'
  BY <1>3, StoredValue, BootAssumption DEF Clean, Cells
<1>5. "ready" \in Cells /\ "primary_hart" \in Cells
  BY DEF Cells
<1> QED
  BY <1>1, <1>3, <1>4, <1>5, StoredValue DEF MemKept

LEMMA DrainHandlersKept ==
  ASSUME TypeOK, DrainHandlers
  PROVE  MemKept
<1>1. mem' = [mem EXCEPT !["irq_handlers"] = 1] /\ pending' = pending
  BY DEF DrainHandlers
<1>2. "irq_handlers" \in Words
  BY WordsAre
<1>3. \A k \in Cells \ {"irq_handlers"} : mem'[k] = mem[k]
  BY <1>1 DEF TypeOK
<1>4. mem'["irq_handlers"] = 1
  BY <1>1, <1>2 DEF TypeOK, Cells
<1>5. mem'["ready"] = mem["ready"] /\ mem'["primary_hart"] = mem["primary_hart"]
  BY <1>3, WordsAre DEF Cells
<1>6. \A w \in Words : Clean(w) => Clean(w)'
  BY <1>1, <1>3, <1>4, BootAssumption DEF Clean, Cells
<1> QED
  BY <1>1, <1>5, <1>6 DEF MemKept

-----------------------------------------------------------------------------
(* BssInv, step by step.  First what changes nothing that is cleared.      *)

ControlInv == ElectionInv /\ ReadyInv /\ ClearingInv /\ AloneInv

(* A store reaches memory, or nothing happens.                             *)
LEMMA StillBss ==
  ASSUME BssInv, MemKept, UNCHANGED <<machine, valid, primary, pc, i>>
  PROVE  ControlInv'
<1> USE DEF BssInv, MemKept
<1>1. ElectionInv'
  BY DEF ElectionInv
<1>2. Done' <=> Done
  BY DEF Done
<1>3. ReadyInv'
  BY <1>2 DEF ReadyInv
<1>4. ClearingInv'
  <2>1. \A c \in Cpus : pc[c] = "clear" => \A k \in 1 .. i[c] : Clean(BssWords[k])'
    BY WordsAre DEF ClearingInv, TypeOK
  <2> QED
    BY <1>2, <2>1 DEF ClearingInv
<1>5. AloneInv'
  BY DEF AloneInv
<1> QED
  BY <1>1, <1>3, <1>4, <1>5 DEF ControlInv

(* A CPU goes on in _start, without part in the election.                  *)
LEMMA StartBss ==
  ASSUME BssInv, NEW c \in Cpus, NEW to \in {"el1", "stopped", "wait"},
         pc[c] \in {"start", "el1"}, pc' = [pc EXCEPT ![c] = to],
         machine.arch # "riscv" => c # 0 \/ to # "wait",
         UNCHANGED <<machine, valid, mem, pending, primary, i>>
  PROVE  ControlInv'
<1> USE DEF BssInv, TypeOK
<1>1. c # primary
  BY BootAssumption DEF ElectionInv, InC
<1>2. ElectionInv'
  BY <1>1, BootAssumption DEF ElectionInv, Machine, InC
<1>3. Done' <=> Done
  BY <1>1 DEF Done
<1>4. ReadyInv'
  BY <1>3 DEF ReadyInv, InC
<1>5. ClearingInv'
  BY <1>1, <1>3 DEF ClearingInv, Clean
<1>6. AloneInv'
  BY DEF AloneInv, Early
<1> QED
  BY <1>2, <1>4, <1>5, <1>6 DEF ControlInv

(* A CPU enters or goes on in C code.                                      *)
LEMMA CBss ==
  ASSUME BssInv, NEW c \in Cpus, NEW to \in InC, pc' = [pc EXCEPT ![c] = to],
         pc[c] \in InC \cup {"wait"}, Done, MemKept,
         to \in Early => pc[c] \in Early,
         c = primary /\ to \notin Early => pc[c] \notin Early \/ pending = {},
         UNCHANGED <<machine, valid, primary>>, i' = [i EXCEPT ![c] = i'[c]]
  PROVE  ControlInv'
<1> USE DEF BssInv
<1>0. to \notin {"off", "start", "el1", "stopped", "elected", "clear", "wait"}
      /\ pc[c] \notin {"off", "start", "el1", "stopped", "elected", "clear"}
  BY DEF InC
<1>1. pc \in [Cpus -> Labels] /\ pc' \in [Cpus -> Labels] /\ i \in [Cpus -> Nat]
  BY DEF TypeOK, Labels
<1>2. ElectionInv'
  BY <1>0, <1>1 DEF ElectionInv, Done
<1>3. Done'
  BY <1>0, <1>1 DEF Done, ElectionInv
<1>4. ReadyInv'
  BY <1>3 DEF ReadyInv
<1>5. ClearingInv'
  <2>1. \A d \in Cpus : pc'[d] \notin {"elected", "clear"}
    BY <1>0, <1>1 DEF ElectionInv, Done
  <2>2. \A d \in Cpus : pc'[d] \in {"off", "start", "el1"} => i'[d] = 0
    BY <1>0, <1>1 DEF ClearingInv
  <2>3. pc[primary] # "elected" /\ primary # Nobody
    BY DEF Done
  <2>4. \A w \in Words : Clean(w)'
    BY DEF ClearingInv, MemKept
  <2>5. machine.arch = "riscv" => "primary_hart" \in pending' \/ mem'["primary_hart"] = primary
    BY <2>3 DEF ClearingInv, MemKept
  <2> QED
    BY <2>1, <2>2, <2>4, <2>5 DEF ClearingInv
<1>6. AloneInv'
  <2>1. machine.inOrder => pending' = {}
    BY DEF AloneInv, MemKept
  <2>2. CASE ~machine.inOrder
    <3>1. PICK s \in Cpus : /\ machine.atReset = {s} /\ primary \in {s, Nobody}
                            /\ pc[s] \in Early => \A d \in Cpus \ {s} : pc[d] = "off"
                            /\ pc[s] \notin Early => pending = {}
      BY <2>2 DEF AloneInv
    <3>2. primary = s
      BY <3>1 DEF Done
    <3>3. pc'[s] \in Early => \A d \in Cpus \ {s} : pc'[d] = "off"
      BY <1>0, <1>1, <3>1, <3>2 DEF Early
    <3>4. pc'[s] \notin Early => pending' = {}
      BY <1>0, <1>1, <3>1, <3>2 DEF MemKept
    <3> QED
      BY <3>1, <3>3, <3>4, <2>2 DEF AloneInv
  <2> QED
    BY <2>1, <2>2 DEF AloneInv
<1> QED
  BY <1>2, <1>4, <1>5, <1>6 DEF ControlInv

(* The election: there was no primary, and this CPU becomes it.            *)
LEMMA ElectBss ==
  ASSUME BssInv, NEW c \in Cpus, Elect(c)
  PROVE  ControlInv'
<1> USE DEF BssInv
<1>0. /\ pc \in [Cpus -> Labels] /\ i \in [Cpus -> Nat]
      /\ UNCHANGED <<machine, mem, pending, i>> /\ primary' = c
      /\ c # Nobody
  BY BootAssumption DEF TypeOK, Elect
<1>1. primary = Nobody
  BY DEF Elect, ElectionInv, Goto
<1>2. /\ pc[c] \in {"start", "el1"} /\ i[c] = 0
      /\ pc' = [pc EXCEPT ![c] = pc'[c]] /\ pc'[c] \in {"elected", "clear"}
      /\ machine.arch = "riscv" => pc'[c] = "elected" /\ valid' = 1
      /\ machine.arch # "riscv" => c = 0
  <2>1. CASE machine.arch = "riscv"
    BY <1>0, <2>1 DEF Elect, Goto, ClearingInv
  <2>2. CASE machine.arch # "riscv"
    BY <1>0, <2>2 DEF Elect, Goto, ClearingInv
  <2> QED
    BY <2>1, <2>2
<1>3. \A d \in Cpus : pc[d] \notin {"elected", "clear"}
  BY <1>1, BootAssumption DEF ElectionInv
<1>4. \A d \in Cpus : pc[d] \notin InC /\ mem["ready"] = 0 /\ "ready" \notin pending
  BY <1>1 DEF ReadyInv, Done
<1>5. ElectionInv'
  <2>1. machine.arch = "riscv" => (valid' = 0 <=> primary' = Nobody)
    BY <1>0, <1>2
  <2>2. machine.arch # "riscv" => primary' \in {0, Nobody}
                                  /\ pc'[0] \notin {"off", "start", "el1", "stopped"}
    BY <1>0, <1>2
  <2>3. \A d \in Cpus : pc'[d] \in {"elected", "clear"} => d = primary'
    BY <1>0, <1>2, <1>3
  <2>4. pc'[primary'] \in {"elected", "clear", "wait"} \cup InC
    BY <1>0, <1>2
  <2> QED
    BY <1>0, <2>1, <2>2, <2>3, <2>4 DEF ElectionInv
<1>6. ReadyInv'
  BY <1>0, <1>2, <1>4 DEF ReadyInv, InC
<1>7. ClearingInv'
  <2>1. \A d \in Cpus : pc'[d] \in {"off", "start", "el1", "elected"} => i'[d] = 0
    BY <1>0, <1>2 DEF ClearingInv
  <2>2. ASSUME NEW d \in Cpus, pc'[d] = "clear"
        PROVE  i'[d] <= Len(BssWords)' /\ \A k \in 1 .. i'[d] : Clean(BssWords[k])'
    <3>1. d = c
      BY <1>0, <1>2, <1>3, <2>2
    <3>2. i'[d] = 0 /\ 1 .. 0 = {}
      BY <1>0, <1>2, <3>1
    <3> QED
      BY <3>2, WordsAre DEF BssWords
  <2>3. ~Done'
    BY <1>0, <1>2 DEF Done
  <2> QED
    BY <1>0, <1>2, <2>1, <2>2, <2>3 DEF ClearingInv
<1>8. AloneInv'
  <2>1. CASE ~machine.inOrder
    <3>1. PICK s \in Cpus : /\ machine.atReset = {s} /\ primary \in {s, Nobody}
                            /\ pc[s] \in Early => \A d \in Cpus \ {s} : pc[d] = "off"
                            /\ pc[s] \notin Early => pending = {}
      BY <2>1 DEF AloneInv
    <3>2. pc[s] \in Early
      BY <1>0, <1>4 DEF Early, Labels
    <3>3. c = s
      BY <1>0, <1>2, <3>1, <3>2
    <3>4. pc'[s] \in Early /\ \A d \in Cpus \ {s} : pc'[d] = "off"
      BY <1>0, <1>2, <3>1, <3>2, <3>3 DEF Early
    <3> QED
      BY <1>0, <2>1, <3>1, <3>3, <3>4 DEF AloneInv
  <2> QED
    BY <1>0, <2>1 DEF AloneInv
<1> QED
  BY <1>5, <1>6, <1>7, <1>8 DEF ControlInv

(* The stores of the primary in _start: what they have in common.          *)
LEMMA PrimaryStores ==
  ASSUME BssInv, NEW c \in Cpus, pc[c] \in {"elected", "clear"}, NEW l \in Cells, Store(l),
         NEW to \in {"clear", "wait"}, pc' = [pc EXCEPT ![c] = to],
         to = "wait" => pc[c] = "clear",
         UNCHANGED <<machine, valid, primary>>
  PROVE  /\ c = primary /\ c # Nobody /\ ~Done
         /\ \A d \in Cpus \ {c} : pc[d] \notin {"elected", "clear"} \cup InC
                                  /\ pc'[d] = pc[d]
         /\ ElectionInv' /\ AloneInv'
         /\ \A w \in Words : w # l /\ Clean(w) => Clean(w)'
         /\ l \in Words => Clean(l)'
<1> USE DEF BssInv
<1>1. pc \in [Cpus -> Labels] /\ c = primary /\ c # Nobody /\ ~Done
  BY BootAssumption DEF TypeOK, ElectionInv, Done
<1>2. \A d \in Cpus \ {c} : pc[d] \notin {"elected", "clear"} \cup InC /\ pc'[d] = pc[d]
  BY <1>1 DEF ElectionInv, ReadyInv
<1>3. ElectionInv'
  BY <1>1, <1>2 DEF ElectionInv
<1>4. AloneInv'
  <2>1. machine.inOrder => pending' = {}
    BY StoreEffect DEF AloneInv
  <2>2. CASE ~machine.inOrder
    <3>1. PICK s \in Cpus : /\ machine.atReset = {s} /\ primary \in {s, Nobody}
                            /\ pc[s] \in Early => \A d \in Cpus \ {s} : pc[d] = "off"
      BY <2>2 DEF AloneInv
    <3>2. c = s /\ pc[s] \in Early /\ pc'[s] \in Early
      BY <1>1, <3>1 DEF Early
    <3> QED
      BY <1>2, <2>2, <3>1, <3>2 DEF AloneInv
  <2> QED
    BY <2>1, <2>2 DEF AloneInv
<1>5. \A w \in Words : w # l /\ Clean(w) => Clean(w)'
  BY StoreEffect DEF Clean, Cells
<1>6. l \in Words => Clean(l)'
  BY StoreEffect, StoredValue, BootAssumption DEF Clean
<1> QED
  BY <1>1, <1>2, <1>3, <1>4, <1>5, <1>6

LEMMA SetPrimaryBss ==
  ASSUME BssInv, NEW c \in Cpus, SetPrimary(c)
  PROVE  ControlInv'
<1> USE DEF BssInv
<1>0. /\ pc \in [Cpus -> Labels] /\ pc[c] = "elected" /\ pc' = [pc EXCEPT ![c] = "clear"]
      /\ Store("primary_hart") /\ "primary_hart" \in Cells /\ "ready" \in Cells
      /\ i[c] = 0 /\ UNCHANGED <<machine, valid, primary, i>>
  BY DEF SetPrimary, Goto, TypeOK, Cells, ClearingInv
<1>1. /\ c = primary /\ c # Nobody /\ ~Done
      /\ \A d \in Cpus \ {c} : pc[d] \notin {"elected", "clear"} \cup InC /\ pc'[d] = pc[d]
      /\ ElectionInv' /\ AloneInv'
  BY <1>0, PrimaryStores
<1>2. mem["ready"] = 0 /\ "ready" \notin pending
  BY <1>1 DEF ReadyInv
<1>3. mem'["ready"] = 0 /\ "ready" \notin pending'
  BY <1>0, <1>2, StoreEffect
<1>4. ~Done' /\ pc'[c] = "clear"
  BY <1>0, <1>1 DEF Done
<1>5. ReadyInv'
  BY <1>1, <1>3, <1>4 DEF ReadyInv, InC
<1>6. "primary_hart" \in pending' \/ mem'["primary_hart"] = primary
  BY <1>0, StoreEffect, StoredValue
<1>7. ClearingInv'
  <2>1. \A d \in Cpus : pc'[d] \in {"off", "start", "el1", "elected"} => i'[d] = 0
    BY <1>0, <1>1 DEF ClearingInv
  <2>2. ASSUME NEW d \in Cpus, pc'[d] = "clear"
        PROVE  i'[d] <= Len(BssWords)' /\ \A k \in 1 .. i'[d] : Clean(BssWords[k])'
    <3>1. i'[d] = 0 /\ 1 .. 0 = {}
      BY <1>0, <1>1, <2>2
    <3> QED
      BY <3>1, WordsAre DEF BssWords
  <2> QED
    BY <1>0, <1>4, <1>6, <2>1, <2>2 DEF ClearingInv
<1> QED
  BY <1>1, <1>5, <1>7 DEF ControlInv

LEMMA ClearBssBss ==
  ASSUME BssInv, NEW c \in Cpus, ClearBss(c)
  PROVE  ControlInv'
<1> USE DEF BssInv
<1>a. i[c] \in Nat /\ i[c] < 5 /\ BssWords[i[c] + 1] \in Words
  BY WordsAre DEF ClearBss, TypeOK
<1>b. PICK w \in Words : w = BssWords[i[c] + 1]
  BY <1>a
<1>0. /\ pc \in [Cpus -> Labels] /\ pc[c] = "clear" /\ pc' = pc /\ i \in [Cpus -> Nat]
      /\ i[c] < 5 /\ i' = [i EXCEPT ![c] = i[c] + 1]
      /\ Store(w) /\ w \in Words /\ w \in Cells /\ UNCHANGED <<machine, valid, primary>>
  BY <1>a, <1>b DEF ClearBss, TypeOK, Cells
<1>1. /\ c = primary /\ c # Nobody /\ ~Done
      /\ \A d \in Cpus \ {c} : pc[d] \notin {"elected", "clear"} \cup InC /\ pc'[d] = pc[d]
      /\ ElectionInv' /\ AloneInv'
      /\ \A x \in Words : x # w /\ Clean(x) => Clean(x)'
      /\ Clean(w)'
  <2>1. pc' = [pc EXCEPT ![c] = "clear"]
    BY <1>0
  <2> QED
    BY <1>0, <2>1, PrimaryStores
<1>2. /\ mem["ready"] = 0 /\ "ready" \notin pending
      /\ machine.arch = "riscv" => "primary_hart" \in pending \/ mem["primary_hart"] = primary
  BY <1>0, <1>1 DEF ReadyInv, ClearingInv
<1>3. /\ mem'["ready"] = 0 /\ "ready" \notin pending'
      /\ machine.arch = "riscv" =>
           "primary_hart" \in pending' \/ mem'["primary_hart"] = primary
  <2>1. "ready" \in Cells \ {w} /\ "primary_hart" \in Cells \ {w}
    BY <1>0, WordsAre DEF Cells
  <2> QED
    BY <1>0, <1>2, <2>1, StoreEffect
<1>4. ~Done'
  BY <1>0, <1>1 DEF Done
<1>5. ReadyInv'
  BY <1>0, <1>1, <1>3, <1>4 DEF ReadyInv, InC
<1>6. ClearingInv'
  <2>1. \A d \in Cpus : pc'[d] \in {"off", "start", "el1", "elected"} => i'[d] = 0
    BY <1>0, <1>1 DEF ClearingInv
  <2>2. ASSUME NEW d \in Cpus, pc'[d] = "clear"
        PROVE  i'[d] <= Len(BssWords)' /\ \A k \in 1 .. i'[d] : Clean(BssWords[k])'
    <3>1. d = c /\ i'[d] = i[c] + 1 /\ i[c] \in Nat
      BY <1>0, <1>1, <2>2
    <3>2. \A k \in 1 .. i[c] : Clean(BssWords[k]) /\ BssWords[k] \in Words
      BY <1>0, WordsAre DEF ClearingInv
    <3>3. \A k \in 1 .. i[c] + 1 : Clean(BssWords[k])'
      <4> SUFFICES ASSUME NEW k \in 1 .. i[c] + 1 PROVE Clean(BssWords[k])'
        OBVIOUS
      <4>1. k \in 1 .. i[c] \/ k = i[c] + 1
        BY <3>1
      <4>2. CASE k = i[c] + 1
        BY <1>1, <1>b, <4>2
      <4>3. CASE k \in 1 .. i[c]
        <5>1. Clean(BssWords[k]) /\ BssWords[k] \in Words
          BY <3>2, <4>3
        <5>2. PICK x \in Words : x = BssWords[k] /\ Clean(x)
          BY <5>1
        <5>3. Clean(x)'
          BY <1>1, <5>2
        <5> QED
          BY <5>2, <5>3 DEF BssWords
      <4> QED
        BY <4>1, <4>2, <4>3
    <3> QED
      BY <1>0, <3>1, <3>3, WordsAre DEF BssWords
  <2> QED
    BY <1>0, <1>3, <1>4, <2>1, <2>2 DEF ClearingInv
<1> QED
  BY <1>1, <1>5, <1>6 DEF ControlInv

LEMMA SetReadyBss ==
  ASSUME BssInv, NEW c \in Cpus, SetReady(c)
  PROVE  ControlInv'
<1> USE DEF BssInv
<1>0. /\ pc \in [Cpus -> Labels] /\ pc[c] = "clear" /\ pc' = [pc EXCEPT ![c] = "wait"]
      /\ i[c] = 5 /\ Store("ready") /\ "primary_hart" \in Cells /\ "ready" \in Cells
      /\ UNCHANGED <<machine, valid, primary, i>>
  BY WordsAre DEF SetReady, Goto, TypeOK, Cells
<1>1. /\ c = primary /\ c # Nobody /\ ~Done
      /\ \A d \in Cpus \ {c} : pc[d] \notin {"elected", "clear"} \cup InC /\ pc'[d] = pc[d]
      /\ ElectionInv' /\ AloneInv'
      /\ \A w \in Words : w # "ready" /\ Clean(w) => Clean(w)'
  BY <1>0, PrimaryStores
<1>2. Done' /\ pc'[c] = "wait"
  BY <1>0, <1>1 DEF Done
<1>3. ReadyInv'
  BY <1>2 DEF ReadyInv
<1>4. \A w \in Words : Clean(w)'
  BY <1>0, <1>1, WordsAre DEF ClearingInv
<1>5. machine.arch = "riscv" => "primary_hart" \in pending' \/ mem'["primary_hart"] = primary
  BY <1>0, <1>1, StoreEffect DEF ClearingInv
<1>6. ClearingInv'
  <2>1. \A d \in Cpus : pc'[d] \in {"off", "start", "el1", "elected"} => i'[d] = 0
    BY <1>0, <1>1, <1>2 DEF ClearingInv
  <2>2. \A d \in Cpus : pc'[d] # "clear"
    BY <1>0, <1>1, <1>2
  <2> QED
    BY <1>0, <1>4, <1>5, <2>1, <2>2 DEF ClearingInv
<1> QED
  BY <1>1, <1>3, <1>6 DEF ControlInv

(* The firmware starts a CPU that was off.                                 *)
LEMMA StartNextBss ==
  ASSUME BssInv, NEW c \in Cpus, StartNext(c)
  PROVE  ControlInv'
<1> USE DEF BssInv
<1>0. /\ pc \in [Cpus -> Labels] /\ pc[c] = "start_others" /\ i \in [Cpus -> Nat]
      /\ UNCHANGED <<machine, valid, mem, pending, primary>> /\ Done
      /\ i' = [i EXCEPT ![c] = i[c] + 1]
  BY DEF StartNext, TypeOK, ReadyInv, InC
<1>1. CASE UNCHANGED pc
  <2>1. \A d \in Cpus : pc[d] \notin {"elected", "clear"}
    BY <1>0 DEF ElectionInv, Done
  <2>2. Done'
    BY <1>0, <1>1 DEF Done
  <2>3. ElectionInv' /\ ReadyInv' /\ AloneInv'
    BY <1>0, <1>1, <2>2 DEF ElectionInv, ReadyInv, AloneInv
  <2>4. ClearingInv'
    BY <1>0, <1>1, <2>1, <2>2 DEF ClearingInv, Clean
  <2> QED
    BY <2>3, <2>4 DEF ControlInv
<1>2. ASSUME NEW n \in Cpus, pc[n] = "off", pc' = [pc EXCEPT ![n] = "start"]
      PROVE  ControlInv'
  <2>1. n # c /\ n # primary
    BY <1>0, <1>2, BootAssumption DEF ElectionInv, InC
  <2>2. ElectionInv'
    BY <1>0, <1>2, <2>1 DEF ElectionInv
  <2>3. Done' <=> Done
    BY <1>0, <1>2, <2>1 DEF Done
  <2>4. ReadyInv'
    BY <1>0, <1>2, <2>3 DEF ReadyInv, InC
  <2>5. ClearingInv'
    BY <1>0, <1>2, <2>1, <2>3 DEF ClearingInv, Clean
  <2>6. AloneInv'
    <3>1. CASE ~machine.inOrder
      <4>1. PICK s \in Cpus : /\ machine.atReset = {s} /\ primary \in {s, Nobody}
                              /\ pc[s] \in Early => \A d \in Cpus \ {s} : pc[d] = "off"
                              /\ pc[s] \notin Early => pending = {}
        BY <3>1 DEF AloneInv
      <4>2. pc[s] \notin Early
        BY <1>0, <4>1 DEF Early
      <4>3. n # s
        BY <1>2, <4>2 DEF Early
      <4>4. pc'[s] \notin Early
        BY <1>0, <1>2, <4>2, <4>3
      <4> QED
        BY <1>0, <3>1, <4>1, <4>2, <4>4 DEF AloneInv
    <3> QED
      BY <1>0, <3>1 DEF AloneInv
  <2> QED
    BY <2>2, <2>4, <2>5, <2>6 DEF ControlInv
<1> QED
  BY <1>1, <1>2 DEF StartNext, CanStart, sbi_hart_start, psci_cpu_on

-----------------------------------------------------------------------------
(* What a CPU in C code reads.                                             *)
LEMMA InCReads ==
  ASSUME BssInv, NEW c \in Cpus, pc[c] \in InC
  PROVE  /\ Done /\ \A d \in Cpus : pc[d] \notin {"elected", "clear"}
         /\ c # primary => pending = {}
         /\ \A w \in Words : /\ Load(c, w) \in {0, 1}
                             /\ Load(c, w) = 1 <=> Set(w)
                             /\ ~(c = primary /\ w \in pending) => Load(c, w) = mem[w]
         /\ machine.arch = "riscv" => Load(c, "primary_hart") = primary
         /\ IsMaster(c) <=> c = primary
<1> USE DEF BssInv
<1>1. Done
  BY DEF ReadyInv
<1>2. \A d \in Cpus : pc[d] \notin {"elected", "clear"}
  BY <1>1 DEF ElectionInv, Done
<1>3. c # primary => pending = {}
  <2>1. CASE machine.inOrder
    BY <2>1 DEF AloneInv
  <2>2. CASE ~machine.inOrder /\ c # primary
    <3>1. PICK s \in Cpus : /\ primary \in {s, Nobody}
                            /\ pc[s] \in Early => \A d \in Cpus \ {s} : pc[d] = "off"
                            /\ pc[s] \notin Early => pending = {}
      BY <2>2 DEF AloneInv
    <3>2. c # s /\ pc[c] # "off"
      BY <1>1, <2>2, <3>1 DEF Done, InC
    <3> QED
      BY <3>1, <3>2
  <2> QED
    BY <2>1, <2>2
<1>4. ASSUME NEW w \in Words
      PROVE  /\ Load(c, w) \in {0, 1} /\ (Load(c, w) = 1 <=> Set(w))
             /\ ~(c = primary /\ w \in pending) => Load(c, w) = mem[w]
  <2>1. Clean(w) /\ mem[w] \in {0, 1, Junk}
    BY <1>1 DEF ClearingInv, TypeOK
  <2>2. CASE c = primary /\ w \in pending
    <3>1. Load(c, w) = 0
      BY <2>2, StoredValue DEF Load, Cells
    <3> QED
      BY <2>2, <3>1 DEF Set
  <2>3. CASE ~(c = primary /\ w \in pending)
    <3>1. Load(c, w) = mem[w] /\ w \notin pending
      BY <1>3, <2>3 DEF Load
    <3> QED
      BY <2>1, <2>3, <3>1 DEF Clean, Set
  <2> QED
    BY <2>2, <2>3
<1>5. machine.arch = "riscv" => Load(c, "primary_hart") = primary
  <2>1. machine.arch = "riscv" => "primary_hart" \in pending \/ mem["primary_hart"] = primary
    BY <1>1 DEF ClearingInv, Done
  <2>2. Stored("primary_hart") = primary
    BY StoredValue DEF Cells
  <2> QED
    BY <1>3, <2>1, <2>2 DEF Load
<1>6. IsMaster(c) <=> c = primary
  <2>1. CASE machine.arch = "riscv"
    BY <1>5, <2>1 DEF IsMaster
  <2>2. CASE machine.arch # "riscv"
    BY <1>1, <2>2 DEF IsMaster, ElectionInv, Done
  <2> QED
    BY <2>1, <2>2
<1> QED
  BY <1>1, <1>2, <1>3, <1>4, <1>5, <1>6

-----------------------------------------------------------------------------
(* Type correctness.                                                       *)
LEMMA InitType == Init => TypeOK
<1> SUFFICES ASSUME Init PROVE TypeOK
  OBVIOUS
<1>1. PICK bss \in [Words -> {0, Junk}] :
        mem = [l \in Cells |-> IF l \in Words THEN bss[l] ELSE 0]
  BY DEF Init, Cells
<1>2. mem \in [Cells -> {0, 1, Junk} \cup Cpus] /\ \A w \in Words : mem[w] \in {0, 1, Junk}
  BY <1>1 DEF Cells
<1>3. pc \in [Cpus -> Labels] /\ i \in [Cpus -> Nat]
  BY DEF Init, Labels
<1>4. late \in BOOLEAN
  BY DEF Init
<1> QED
  BY <1>2, <1>3, <1>4 DEF Init, TypeOK

LEMMA StoreType ==
  ASSUME TypeOK, primary \in Cpus, NEW l \in Cells, Store(l)
  PROVE  /\ mem' \in [Cells -> {0, 1, Junk} \cup Cpus]
         /\ \A w \in Words : mem'[w] \in {0, 1, Junk}
         /\ pending' \subseteq Cells
<1>1. /\ l \in Words => Stored(l) = 0
      /\ Stored(l) \in {0, 1} \cup Cpus
  BY StoredValue DEF Cells
<1> QED
  BY <1>1 DEF Store, TypeOK, Cells

(* The three steps of _start that store.                                   *)
LEMMA StartStores ==
  ASSUME TypeOK, NEW c \in Cpus, SetPrimary(c) \/ ClearBss(c) \/ SetReady(c)
  PROVE  \E l \in Cells : Store(l)
<1>1. i[c] \in Nat
  BY DEF TypeOK
<1>2. i[c] < 5 => BssWords[i[c] + 1] \in Words
  BY <1>1, WordsAre
<1> QED
  BY <1>2, WordsAre DEF SetPrimary, ClearBss, SetReady, Cells

LEMMA NextType ==
  ASSUME BssInv, [Next]_vars
  PROVE  TypeOK'
<1> USE DEF BssInv, TypeOK
<1>1. CASE UNCHANGED vars \/ Idle
  BY <1>1 DEF vars, Idle
<1>2. CASE Drain
  <2>1. PICK l \in pending : mem' = [mem EXCEPT ![l] = Stored(l)] /\ pending' = pending \ {l}
    BY <1>2 DEF Drain
  <2>2. primary \in Cpus
    BY <2>1 DEF ElectionInv
  <2>3. l \in Cells /\ (l \in Words => Stored(l) = 0) /\ Stored(l) \in {0, 1} \cup Cpus
    BY <2>1, <2>2, StoredValue DEF Cells
  <2> QED
    BY <1>2, <2>1, <2>3 DEF Drain, Cells
<1>3. ASSUME NEW c \in Cpus, Step(c)
      PROVE  TypeOK'
  <2> USE DEF Goto, Labels, InC
  <2>1. CASE EnterEl1(c) \/ EntryEl1(c) \/ Skip(c) \/ WaitReady(c) \/ StartEnds(c)
             \/ Main(c) \/ WaitMaster(c)
    BY <2>1 DEF EnterEl1, EntryEl1, Skip, WaitReady, StartEnds, Main, WaitMaster
  <2>2. CASE Elect(c)
    BY <2>2 DEF Elect
  <2>3. CASE UartInit(c)
    BY <2>3 DEF UartInit
  <2>4. CASE SetPrimary(c) \/ ClearBss(c) \/ SetReady(c)
    <3>1. primary \in Cpus
      BY <2>4 DEF SetPrimary, ClearBss, SetReady, ElectionInv
    <3>2. PICK l \in Cells : Store(l)
      BY <2>4, StartStores
    <3>3. /\ mem' \in [Cells -> {0, 1, Junk} \cup Cpus]
          /\ \A w \in Words : mem'[w] \in {0, 1, Junk}
          /\ pending' \subseteq Cells
      BY <3>1, <3>2, StoreType
    <3>4. UNCHANGED <<machine, valid, late, primary, uart, output>>
      BY <2>4, Zenon DEF SetPrimary, ClearBss, SetReady
    <3>5. pc' \in [Cpus -> Labels] /\ i' \in [Cpus -> Nat]
      <4>1. CASE SetPrimary(c)
        BY <4>1 DEF SetPrimary
      <4>2. CASE ClearBss(c)
        BY <4>2 DEF ClearBss
      <4>3. CASE SetReady(c)
        BY <4>3 DEF SetReady
      <4> QED  BY <2>4, <4>1, <4>2, <4>3
    <3> QED
      BY <3>3, <3>4, <3>5
  <2>5. CASE StartNext(c)
    <3>1. pc' \in [Cpus -> Labels]
      BY <2>5 DEF StartNext, CanStart, sbi_hart_start, psci_cpu_on
    <3>2. i' \in [Cpus -> Nat] /\ UNCHANGED <<machine, valid, mem, pending, late, primary, uart, output>>
      BY <2>5 DEF StartNext
    <3> QED
      BY <3>1, <3>2
  <2>6. ASSUME NEW l \in Words, NEW v \in {0, 1}, Assign(c, l, v)
        PROVE  /\ mem' \in [Cells -> {0, 1, Junk} \cup Cpus]
               /\ \A w \in Words : mem'[w] \in {0, 1, Junk}
               /\ pending' \subseteq Cells
    BY <2>6, AssignEffect
  <2>7. CASE LockInit(c) \/ CheckInit(c) \/ UnlockInit(c) \/ LockPrint(c)
             \/ SetHandlers(c) \/ MasterDone(c)
    <3>1. /\ mem' \in [Cells -> {0, 1, Junk} \cup Cpus]
          /\ \A w \in Words : mem'[w] \in {0, 1, Junk}
          /\ pending' \subseteq Cells
      BY <2>6, <2>7, WordsAre DEF LockInit, CheckInit, UnlockInit, LockPrint, SetHandlers,
                                  MasterDone
    <3>2. late' \in BOOLEAN
      BY <2>7 DEF LockInit, CheckInit, UnlockInit, LockPrint, SetHandlers, MasterDone
    <3>3. UNCHANGED <<machine, valid, primary, uart, output>> /\ i' \in [Cpus -> Nat]
      BY <2>7 DEF LockInit, CheckInit, UnlockInit, LockPrint, SetHandlers, MasterDone
    <3>4. pc' \in [Cpus -> Labels]
      BY <2>7 DEF LockInit, CheckInit, UnlockInit, LockPrint, SetHandlers, MasterDone
    <3> QED
      BY <3>1, <3>2, <3>3, <3>4
  <2>8. CASE PrintBanner(c) \/ PrintUp(c)
    <3>1. /\ mem' \in [Cells -> {0, 1, Junk} \cup Cpus]
          /\ \A w \in Words : mem'[w] \in {0, 1, Junk}
          /\ pending' \subseteq Cells
      BY <2>6, <2>8, WordsAre DEF PrintBanner, PrintUp
    <3>2. output' \in Seq(Lines)
      <4>1. PICK x \in Lines : output' = Append(output, x)
        BY <2>8 DEF PrintBanner, PrintUp, Lines
      <4> QED
        BY <4>1, AppendProperties
    <3> QED
      BY <2>8, <3>1, <3>2 DEF PrintBanner, PrintUp
  <2> QED
    BY <1>3, <2>1, <2>2, <2>3, <2>4, <2>5, <2>7, <2>8 DEF Step
<1>4. CASE DrainHandlers
  BY <1>4, WordsAre DEF DrainHandlers, Cells
<1> QED
  BY <1>1, <1>2, <1>3, <1>4 DEF Next

-----------------------------------------------------------------------------
(* BssInv holds.                                                           *)
LEMMA InitBss ==
  ASSUME StoresOrdered, Init
  PROVE  BssInv
<1>1. /\ primary = Nobody /\ pending = {} /\ valid = 0 /\ mem["ready"] = 0
      /\ pc = [c \in Cpus |-> IF c \in machine.atReset THEN "start" ELSE "off"]
      /\ i = [c \in Cpus |-> 0] /\ machine \in Machines
  BY WordsAre DEF Init
<1>2. \A c \in Cpus : pc[c] \in {"start", "off"}
  BY <1>1
<1>3. ElectionInv
  BY <1>1, <1>2 DEF ElectionInv
<1>4. ReadyInv
  BY <1>1, <1>2 DEF ReadyInv, InC
<1>5. ClearingInv
  BY <1>1, <1>2 DEF ClearingInv, Done
<1>6. AloneInv
  BY <1>1 DEF AloneInv, StoresOrdered
<1> QED
  BY <1>3, <1>4, <1>5, <1>6, InitType DEF BssInv

(* In C code a CPU goes from label to label, and may store.                *)
CStep(c) ==
  \/ WaitReady(c) \/ LockInit(c) \/ CheckInit(c) \/ UartInit(c) \/ UnlockInit(c)
  \/ StartEnds(c) \/ Main(c) \/ LockPrint(c) \/ PrintBanner(c) \/ SetHandlers(c)
  \/ MasterDone(c) \/ WaitMaster(c) \/ PrintUp(c)

LEMMA CStepKept ==
  ASSUME BssInv, NEW c \in Cpus, CStep(c)
  PROVE  MemKept
<1>1. UNCHANGED <<mem, pending>> \/ \E l \in Words, v \in {0, 1} : Assign(c, l, v)
  BY WordsAre DEF CStep, WaitReady, LockInit, CheckInit, UartInit, UnlockInit, StartEnds,
                  Main, LockPrint, PrintBanner, SetHandlers, MasterDone, WaitMaster, PrintUp
<1> QED
  BY <1>1, QuietKept, AssignKept DEF BssInv

LEMMA CStepBss ==
  ASSUME BssInv, NEW c \in Cpus, CStep(c)
  PROVE  ControlInv'
<1>1. MemKept
  BY CStepKept
<1>2. pc \in [Cpus -> Labels] /\ i \in [Cpus -> Nat]
  BY DEF BssInv, TypeOK
<1>3. Done
  <2>1. CASE WaitReady(c)
    <3>1. mem["ready"] # 0 \/ "ready" \in pending
      BY <2>1 DEF WaitReady, Load
    <3> QED
      BY <3>1 DEF BssInv, ReadyInv
  <2>2. CASE ~WaitReady(c)
    <3>1. pc[c] \in InC
      BY <2>2 DEF CStep, LockInit, CheckInit, UartInit, UnlockInit, StartEnds, Main,
                  LockPrint, PrintBanner, SetHandlers, MasterDone, WaitMaster, PrintUp,
                  Goto, InC
    <3> QED
      BY <3>1 DEF BssInv, ReadyInv
  <2> QED
    BY <2>1, <2>2
<1>4. /\ UNCHANGED <<machine, valid, primary>>
      /\ i' = i \/ i' = [i EXCEPT ![c] = 0]
  BY DEF CStep, WaitReady, LockInit, CheckInit, UartInit, UnlockInit, StartEnds,
         Main, LockPrint, PrintBanner, SetHandlers, MasterDone, WaitMaster, PrintUp
<1>5. PICK to \in InC :
        /\ pc' = [pc EXCEPT ![c] = to] /\ pc[c] \in InC \cup {"wait"}
        /\ to \in Early => pc[c] \in Early
        /\ c = primary /\ to \notin Early => pc[c] \notin Early \/ pending = {}
  BY DEF CStep, WaitReady, LockInit, CheckInit, UartInit, UnlockInit, StartEnds,
         Main, LockPrint, PrintBanner, SetHandlers, MasterDone, WaitMaster, PrintUp,
         Goto, InC, Early
<1>6. i' = [i EXCEPT ![c] = i'[c]]
  BY <1>2, <1>4
<1> QED
  BY <1>1, <1>3, <1>4, <1>5, <1>6, CBss

LEMMA NextBss ==
  ASSUME BssInv, [Next]_vars
  PROVE  BssInv'
<1>1. ASSUME UNCHANGED vars \/ Idle
      PROVE  ControlInv'
  BY <1>1, QuietKept, StillBss DEF vars, Idle
<1>2. ASSUME Drain
      PROVE  ControlInv'
  BY <1>2, DrainKept, StillBss DEF Drain, BssInv
<1>3. ASSUME NEW c \in Cpus, Step(c)
      PROVE  ControlInv'
  <2>1. CASE EnterEl1(c) \/ EntryEl1(c)
    BY <2>1, StartBss DEF EnterEl1, EntryEl1, Goto
  <2>2. CASE Skip(c)
    BY <2>2, StartBss DEF Skip, Goto
  <2>3. CASE Elect(c) \/ SetPrimary(c) \/ ClearBss(c) \/ SetReady(c) \/ StartNext(c)
    BY <2>3, ElectBss, SetPrimaryBss, ClearBssBss, SetReadyBss, StartNextBss
  <2>4. CASE CStep(c)
    BY <2>4, CStepBss
  <2> QED
    BY <1>3, <2>1, <2>2, <2>3, <2>4 DEF Step, CStep
<1>4. ASSUME DrainHandlers
      PROVE  ControlInv'
  BY <1>4, DrainHandlersKept, StillBss DEF DrainHandlers, BssInv
<1>5. ControlInv'
  BY <1>1, <1>2, <1>3, <1>4 DEF Next
<1> QED
  BY <1>5, NextType DEF BssInv, ControlInv

-----------------------------------------------------------------------------
(* What each step does to the words whose value 1 is read.                 *)

(* The stores of _start set none ...                                       *)
LEMMA StoreSets ==
  ASSUME BssInv, UartInv, ~Done, NEW l \in Cells, Store(l), UNCHANGED primary
  PROVE  \A w \in Words : mem'[w] # 1 /\ ~Set(w) /\ ~Set(w)'
<1> SUFFICES ASSUME NEW w \in Words
             PROVE  mem'[w] # 1 /\ ~Set(w) /\ ~Set(w)'
  OBVIOUS
<1>1. mem[w] # 1
  BY DEF UartInv
<1>2. mem'[w] # 1
  <2>1. CASE w = l
    BY <1>1, <2>1, StoreEffect, StoredValue DEF BssInv
  <2>2. CASE w # l
    BY <1>1, <2>2, StoreEffect DEF BssInv, Cells
  <2> QED
    BY <2>1, <2>2
<1> QED
  BY <1>1, <1>2 DEF Set

(* ... nor does one that reaches memory change any.                        *)
LEMMA DrainSets ==
  ASSUME TypeOK, Drain
  PROVE  \A w \in Words : (Set(w)' <=> Set(w)) /\ (mem[w] # 1 => mem'[w] # 1)
<1>1. PICK l \in pending : mem' = [mem EXCEPT ![l] = Stored(l)] /\ pending' = pending \ {l}
  BY DEF Drain
<1> SUFFICES ASSUME NEW w \in Words
             PROVE  (Set(w)' <=> Set(w)) /\ (mem[w] # 1 => mem'[w] # 1)
  OBVIOUS
<1>2. l \in Cells /\ w \in Cells /\ mem \in [Cells -> {0, 1, Junk} \cup Cpus]
  BY DEF TypeOK, Cells
<1>3. CASE w = l
  <2>1. mem'[w] = 0
    BY <1>1, <1>2, <1>3, StoredValue
  <2> QED
    BY <1>1, <1>3, <2>1 DEF Set
<1>4. CASE w # l
  BY <1>1, <1>2, <1>4 DEF Set
<1> QED
  BY <1>3, <1>4

(* The handler table reaches memory; no other word changes.                *)
LEMMA DrainHandlersSets ==
  ASSUME BssInv, LateInv, DrainHandlers
  PROVE  /\ Done /\ Done' /\ Set("irq_handlers")'
         /\ \A w \in Words \ {"irq_handlers"} : Set(w)' <=> Set(w)
<1>1. /\ mem' = [mem EXCEPT !["irq_handlers"] = 1] /\ late
      /\ UNCHANGED <<pending, primary, pc, machine>>
  BY DEF DrainHandlers
<1>2. /\ ~machine.inOrder /\ primary # Nobody
      /\ pc[primary] \in {"master_done", "wait_master", "up_lock"}
  BY <1>1 DEF LateInv
<1>3. pending = {}
  BY <1>2 DEF BssInv, AloneInv, Early
<1>4. mem'["irq_handlers"] = 1 /\ \A k \in Cells \ {"irq_handlers"} : mem'[k] = mem[k]
  BY <1>1, WordsAre DEF BssInv, TypeOK, Cells
<1> QED
  BY <1>1, <1>2, <1>3, <1>4 DEF Done, Set, Cells

(* C code sets and resets one.                                             *)
LEMMA AssignSets ==
  ASSUME BssInv, NEW c \in Cpus, pc[c] \in InC, NEW l \in Words, NEW v \in {0, 1},
         Assign(c, l, v)
  PROVE  /\ Set(l)' <=> v = 1
         /\ \A w \in Words \ {l} : Set(w)' <=> Set(w)
<1>1. /\ \A k \in Cells \ {l} : mem'[k] = mem[k]
      /\ mem'[l] = v /\ pending' = pending /\ l \notin pending
  BY AssignEffect, InCReads DEF BssInv
<1> QED
  BY <1>1 DEF Set, Cells

-----------------------------------------------------------------------------
(* init_lock, init_done and the UART.                                      *)

Inside == {"check", "uart_init", "unlock"}

(* A step outside of _init.                                                *)
LEMMA UartFrame ==
  ASSUME UartInv, pc \in [Cpus -> Labels], pc' \in [Cpus -> Labels], UNCHANGED uart,
         Set("init_lock")' <=> Set("init_lock"), Set("init_done")' <=> Set("init_done"),
         ~Done' => \A w \in Words : mem'[w] # 1,
         \A c \in Cpus : /\ pc'[c] \in Inside \/ pc[c] \in Inside => pc'[c] = pc[c]
                         /\ pc'[c] \in AfterInit => pc[c] \in AfterInit
  PROVE  UartInv'
<1>1. \A c \in Cpus : HoldsInit(c)' <=> HoldsInit(c)
  BY DEF HoldsInit, Inside
<1>2. \A c \in Cpus : pc'[c] = "uart_init" <=> pc[c] = "uart_init"
  BY DEF Inside
<1>3. \A c \in Cpus : pc'[c] \in {"unlock"} \cup AfterInit => pc[c] \in {"unlock"} \cup AfterInit
  BY DEF Inside
<1> QED
  BY <1>1, <1>2, <1>3 DEF UartInv

(* One CPU inside at a time.                                               *)
LEMMA LockInitUart ==
  ASSUME BssInv, UartInv, NEW c \in Cpus, LockInit(c), Done'
  PROVE  UartInv'
<1>0. /\ pc \in [Cpus -> Labels] /\ pc[c] = "init" /\ pc[c] \in InC
      /\ pc' = [pc EXCEPT ![c] = "check"] /\ UNCHANGED uart
      /\ Load(c, "init_lock") = 0 /\ Assign(c, "init_lock", 1)
  BY DEF BssInv, TypeOK, LockInit, Goto, InC
<1>1. ~Set("init_lock")
  BY <1>0, InCReads, WordsAre
<1>2. \A d \in Cpus : ~HoldsInit(d)
  BY <1>1 DEF UartInv
<1>3. Set("init_lock")' /\ (Set("init_done")' <=> Set("init_done"))
  BY <1>0, AssignSets, WordsAre
<1>4. \A d \in Cpus : HoldsInit(d)' => d = c
  BY <1>0, <1>2 DEF HoldsInit
<1>5. \A d \in Cpus : /\ pc'[d] # "uart_init" /\ pc[d] # "uart_init"
                      /\ pc'[d] \in {"unlock"} \cup AfterInit =>
                           pc[d] \in {"unlock"} \cup AfterInit
  BY <1>0, <1>2 DEF HoldsInit, AfterInit, InC
<1> QED
  BY <1>0, <1>3, <1>4, <1>5 DEF UartInv

(* The first one inside finds init_done clear, the later ones set.         *)
LEMMA CheckInitUart ==
  ASSUME BssInv, UartInv, NEW c \in Cpus, CheckInit(c), Done'
  PROVE  UartInv'
<1>0. /\ pc \in [Cpus -> Labels] /\ pc[c] = "check" /\ pc[c] \in InC /\ UNCHANGED uart
      /\ HoldsInit(c)
  BY DEF BssInv, TypeOK, CheckInit, Goto, InC, HoldsInit
<1>1. \A d \in Cpus : HoldsInit(d) => d = c
  BY <1>0 DEF UartInv
<1>2. \A d \in Cpus : pc[d] # "uart_init" /\ pc[d] # "unlock"
  BY <1>0, <1>1 DEF HoldsInit
<1>3. CASE Load(c, "init_done") = 0
  <2>1. pc' = [pc EXCEPT ![c] = "uart_init"] /\ Assign(c, "init_done", 1)
    BY <1>3 DEF CheckInit, Goto
  <2>2. ~Set("init_done")
    BY <1>0, <1>3, InCReads, WordsAre
  <2>3. Set("init_done")' /\ (Set("init_lock")' <=> Set("init_lock"))
    BY <1>0, <2>1, AssignSets, WordsAre
  <2>4. uart = 0
    BY <2>2 DEF UartInv
  <2>5. \A d \in Cpus : HoldsInit(d)' => d = c
    BY <1>0, <1>1, <2>1 DEF HoldsInit
  <2>6. \A d \in Cpus : pc'[d] \notin {"unlock"} \cup AfterInit
    BY <1>0, <2>1, <2>4 DEF UartInv, AfterInit
  <2>7. Set("init_lock")
    BY <1>0 DEF UartInv
  <2>8. pc'[c] = "uart_init" /\ uart' = 0
    BY <1>0, <2>1, <2>4
  <2> QED
    BY <2>3, <2>5, <2>6, <2>7, <2>8 DEF UartInv
<1>4. CASE Load(c, "init_done") # 0
  <2>1. pc' = [pc EXCEPT ![c] = "unlock"] /\ UNCHANGED <<mem, pending>>
    BY <1>4 DEF CheckInit, Goto
  <2>2. Set("init_done")
    BY <1>0, <1>4, InCReads, WordsAre
  <2>3. uart = 1
    BY <1>2, <2>2 DEF UartInv
  <2>4. \A d \in Cpus : HoldsInit(d)' => d = c
    BY <1>0, <1>1, <2>1 DEF HoldsInit
  <2>5. Set("init_lock")' /\ Set("init_done")'
    BY <1>0, <2>1, <2>2 DEF UartInv, Set
  <2>6. \A d \in Cpus : pc'[d] # "uart_init"
    BY <1>0, <1>2, <2>1
  <2> QED
    BY <1>0, <2>3, <2>4, <2>5, <2>6 DEF UartInv
<1> QED
  BY <1>3, <1>4

LEMMA UartInitUart ==
  ASSUME BssInv, UartInv, NEW c \in Cpus, UartInit(c), Done'
  PROVE  UartInv'
<1>0. /\ pc \in [Cpus -> Labels] /\ pc[c] = "uart_init" /\ HoldsInit(c)
      /\ pc' = [pc EXCEPT ![c] = "unlock"] /\ uart' = uart + 1
      /\ UNCHANGED <<mem, pending>>
  BY DEF BssInv, TypeOK, UartInit, Goto, HoldsInit
<1>1. uart' = 1 /\ Set("init_done") /\ Set("init_lock")
  BY <1>0 DEF UartInv
<1>2. Set("init_done")' /\ Set("init_lock")'
  BY <1>0, <1>1 DEF Set
<1>3. \A d \in Cpus : HoldsInit(d) => d = c
  BY <1>0 DEF UartInv
<1>4. \A d \in Cpus : (HoldsInit(d)' => d = c) /\ pc'[d] # "uart_init"
  BY <1>0, <1>3 DEF HoldsInit
<1> QED
  BY <1>1, <1>2, <1>4 DEF UartInv

LEMMA UnlockInitUart ==
  ASSUME BssInv, UartInv, NEW c \in Cpus, UnlockInit(c), Done'
  PROVE  UartInv'
<1>0. /\ pc \in [Cpus -> Labels] /\ pc[c] = "unlock" /\ pc[c] \in InC /\ HoldsInit(c)
      /\ Assign(c, "init_lock", 0) /\ UNCHANGED uart
      /\ pc' = [pc EXCEPT ![c] = pc'[c]] /\ pc'[c] \in {"start_others", "main"}
  BY DEF BssInv, TypeOK, UnlockInit, Goto, HoldsInit, InC
<1>1. uart = 1
  BY <1>0 DEF UartInv
<1>2. Set("init_done")' <=> Set("init_done")
  BY <1>0, AssignSets, WordsAre
<1>3. \A d \in Cpus : HoldsInit(d) => d = c
  BY <1>0 DEF UartInv
<1>4. \A d \in Cpus : ~HoldsInit(d)' /\ pc'[d] # "uart_init"
  BY <1>0, <1>3 DEF HoldsInit
<1>5. Set("init_done")
  BY <1>1 DEF UartInv
<1> QED
  BY <1>0, <1>1, <1>2, <1>4, <1>5 DEF UartInv

(* The steps that change neither of the two words.                         *)
LEMMA NextUart ==
  ASSUME BssInv, BssInv', UartInv, LateInv, [Next]_vars
  PROVE  UartInv'
<1>0. pc \in [Cpus -> Labels] /\ pc' \in [Cpus -> Labels] /\ "init_lock" \in Words
      /\ "init_done" \in Words
  BY WordsAre DEF BssInv, TypeOK
<1> USE DEF Inside, AfterInit, InC
<1>1. CASE UNCHANGED vars \/ Idle
  <2>1. UNCHANGED vars
    BY <1>1 DEF Idle
  <2> QED
    BY <1>0, <2>1, UartFrame DEF vars, Set, Done, UartInv
<1>2. CASE Drain
  <2>1. UNCHANGED <<pc, primary, uart>>
    BY <1>2 DEF Drain
  <2>2. Done' <=> Done
    BY <2>1 DEF Done
  <2>3. \A w \in Words : (Set(w)' <=> Set(w)) /\ (mem[w] # 1 => mem'[w] # 1)
    BY <1>2, DrainSets DEF BssInv
  <2>4. ~Done' => \A w \in Words : mem'[w] # 1
    BY <2>2, <2>3 DEF UartInv
  <2> QED
    BY <1>0, <2>1, <2>3, <2>4, UartFrame
<1>3. ASSUME NEW c \in Cpus, Step(c)
      PROVE  UartInv'
  <2>1. CASE EnterEl1(c) \/ EntryEl1(c) \/ Skip(c) \/ Elect(c)
    <3>1. /\ UNCHANGED <<mem, pending, uart>> /\ pc[c] \in {"start", "el1"}
          /\ pc'[c] \in {"el1", "stopped", "wait", "elected", "clear"}
          /\ pc' = [pc EXCEPT ![c] = pc'[c]]
      BY <1>0, <2>1 DEF EnterEl1, EntryEl1, Skip, Elect, Goto
    <3>2. ~Done' => ~Done
      <4>1. c # primary
        BY <3>1, BootAssumption DEF BssInv, ElectionInv
      <4>2. CASE Elect(c)
        <5>1. primary = Nobody
          BY <4>2 DEF Elect, Goto, BssInv, ElectionInv
        <5> QED
          BY <5>1 DEF Done
      <4>3. CASE ~Elect(c)
        <5>1. primary' = primary
          BY <2>1, <4>3 DEF EnterEl1, EntryEl1, Skip
        <5> QED
          BY <1>0, <3>1, <4>1, <5>1 DEF Done, BssInv, TypeOK
      <4> QED
        BY <4>2, <4>3
    <3> QED
      BY <1>0, <3>1, <3>2, UartFrame DEF UartInv, Set
  <2>2. CASE SetPrimary(c) \/ ClearBss(c) \/ SetReady(c)
    <3>1. /\ UNCHANGED <<uart, primary>> /\ pc[c] \in {"elected", "clear"}
          /\ pc'[c] \in {"clear", "wait"} /\ pc' = [pc EXCEPT ![c] = pc'[c]]
      BY <1>0, <2>2 DEF SetPrimary, ClearBss, SetReady, Goto
    <3>2. PICK l \in Cells : Store(l)
      BY <2>2, StartStores DEF BssInv
    <3>3. ~Done
      BY <3>1 DEF BssInv, ElectionInv, Done
    <3>4. \A w \in Words : mem'[w] # 1 /\ ~Set(w) /\ ~Set(w)'
      BY <3>1, <3>2, <3>3, StoreSets
    <3> QED
      BY <1>0, <3>1, <3>4, UartFrame
  <2>3. CASE StartNext(c)
    <3>1. UNCHANGED <<mem, pending, primary, uart>> /\ pc[c] = "start_others"
      BY <2>3 DEF StartNext
    <3>2. \A d \in Cpus : pc'[d] = pc[d] \/ (pc[d] = "off" /\ pc'[d] = "start")
      BY <1>0, <2>3 DEF StartNext, CanStart, sbi_hart_start, psci_cpu_on
    <3>3. Done'
      BY <3>1, <3>2 DEF BssInv, ReadyInv
    <3> QED
      BY <1>0, <3>1, <3>2, <3>3, UartFrame DEF Set
  <2>4. CASE WaitReady(c) \/ StartEnds(c) \/ Main(c) \/ WaitMaster(c)
    <3>1. /\ UNCHANGED <<mem, pending, primary, uart>>
          /\ pc' = [pc EXCEPT ![c] = pc'[c]]
          /\ pc[c] \in {"wait", "start_others", "main", "wait_master"}
          /\ pc[c] = "wait" => pc'[c] = "init"
          /\ pc'[c] \in {"init", "main", "banner_lock", "wait_master", "up_lock"}
      BY <1>0, <2>4 DEF WaitReady, StartEnds, Main, WaitMaster, Goto
    <3>2. Done'
      BY <3>1 DEF BssInv, ReadyInv
    <3> QED
      BY <1>0, <3>1, <3>2, UartFrame DEF Set
  <2>5. CASE LockPrint(c) \/ PrintBanner(c) \/ SetHandlers(c) \/ MasterDone(c) \/ PrintUp(c)
    <3>1. /\ UNCHANGED uart /\ pc' = [pc EXCEPT ![c] = pc'[c]]
          /\ pc[c] \in {"banner_lock", "up_lock", "banner", "handlers", "master_done", "up"}
          /\ pc'[c] \in {"banner", "up", "handlers", "master_done", "wait_master", "idle"}
      BY <1>0, <2>5 DEF LockPrint, PrintBanner, SetHandlers, MasterDone, PrintUp, Goto
    <3>2. UNCHANGED <<mem, pending>>
          \/ \E l \in {"print_lock", "irq_handlers", "master_done"}, v \in {0, 1} : Assign(c, l, v)
      BY <2>5 DEF LockPrint, PrintBanner, SetHandlers, MasterDone, PrintUp
    <3>3. (Set("init_lock")' <=> Set("init_lock")) /\ (Set("init_done")' <=> Set("init_done"))
      <4>1. CASE UNCHANGED <<mem, pending>>
        BY <4>1 DEF Set
      <4>2. CASE \E l \in {"print_lock", "irq_handlers", "master_done"}, v \in {0, 1} :
                   Assign(c, l, v)
        BY <1>0, <3>1, <4>2, AssignSets, WordsAre
      <4> QED
        BY <3>2, <4>1, <4>2
    <3>4. Done'
      BY <3>1 DEF BssInv, ReadyInv
    <3> QED
      BY <1>0, <3>1, <3>3, <3>4, UartFrame
  <2>6. CASE LockInit(c) \/ CheckInit(c) \/ UartInit(c) \/ UnlockInit(c)
    <3>1. pc'[c] \in InC
      BY <1>0, <2>6 DEF LockInit, CheckInit, UartInit, UnlockInit, Goto
    <3>2. Done'
      BY <3>1 DEF BssInv, ReadyInv
    <3> QED
      BY <2>6, <3>2, LockInitUart, CheckInitUart, UartInitUart, UnlockInitUart
  <2> QED
    BY <1>3, <2>1, <2>2, <2>3, <2>4, <2>5, <2>6 DEF Step
<1>4. CASE DrainHandlers
  <2>1. UNCHANGED <<pc, uart>>
    BY <1>4 DEF DrainHandlers
  <2>2. /\ Done'
        /\ Set("init_lock")' <=> Set("init_lock")
        /\ Set("init_done")' <=> Set("init_done")
    BY <1>0, <1>4, DrainHandlersSets
  <2> QED
    BY <1>0, <2>1, <2>2, UartFrame
<1> QED
  BY <1>1, <1>2, <1>3, <1>4 DEF Next

-----------------------------------------------------------------------------
(* The output.                                                             *)

Late == {"banner_lock", "banner"} \cup AfterBanner

(* A step that neither prints nor goes from or to the labels of the output. *)
LEMMA OutputFrame ==
  ASSUME OutputInv, primary \in Cpus \cup {Nobody},
         Set("master_done")' <=> Set("master_done"),
         Installed' <=> Installed,
         UNCHANGED <<output, primary>>,
         \A c \in Cpus : pc'[c] \in Late \/ pc[c] \in Late => pc'[c] = pc[c]
  PROVE  OutputInv'
<1> USE DEF Late, AfterBanner, AfterDone
<1>1. \A c \in Cpus : pc[c] = "idle" => pc'[c] = "idle"
  OBVIOUS
<1>2. \A c \in Cpus :
        /\ pc'[c] \in AfterDone <=> pc[c] \in AfterDone
        /\ pc'[c] \in AfterDone \cup {"master_done"} <=> pc[c] \in AfterDone \cup {"master_done"}
        /\ pc'[c] \in AfterBanner <=> pc[c] \in AfterBanner
  OBVIOUS
<1>3. \A c \in Cpus :
        /\ pc'[c] \in {"banner_lock", "banner", "handlers", "master_done"} => pc'[c] = pc[c]
        /\ pc'[c] \in {"up_lock", "up", "idle"} => pc'[c] = pc[c]
  OBVIOUS
<1>4. \A k \in 2 .. Len(output) :
        /\ \E c \in Cpus : output[k] = <<"up", c>> /\ pc'[c] = "idle"
        /\ \A l \in 2 .. k - 1 : output[l] # output[k]
  BY <1>1 DEF OutputInv
<1> QED
  BY <1>2, <1>3, <1>4 DEF OutputInv

LEMMA MainOutput ==
  ASSUME BssInv, OutputInv, NEW c \in Cpus, Main(c)
  PROVE  OutputInv'
<1>0. /\ pc \in [Cpus -> Labels] /\ pc[c] = "main" /\ pc[c] \in InC
      /\ pc' = [pc EXCEPT ![c] = IF c = primary THEN "banner_lock" ELSE "wait_master"]
      /\ UNCHANGED <<mem, pending, late, primary, output>>
  <2>1. pc[c] = "main" /\ pc[c] \in InC
    BY DEF Main, Goto, InC
  <2>2. IsMaster(c) <=> c = primary
    BY <2>1, InCReads
  <2> QED
    BY <2>1, <2>2 DEF BssInv, TypeOK, Main, Goto
<1>1. (\A w \in Words : Set(w)' <=> Set(w)) /\ (Installed' <=> Installed)
  BY <1>0 DEF Set, Installed
<1>2. \A d \in Cpus \ {c} : pc'[d] = pc[d]
  BY <1>0
<1>3. c = primary => pc'[c] = "banner_lock"
  BY <1>0
<1>4. c # primary => pc'[c] = "wait_master"
  BY <1>0
<1>5. primary \in Cpus /\ primary # Nobody
  BY <1>0, InCReads DEF Done, BssInv, TypeOK
<1>6. pc[primary] \in AfterDone => pc'[primary] = pc[primary]
  BY <1>0, <1>2, <1>5 DEF AfterDone
<1>7. \A k \in 2 .. Len(output) :
        /\ \E d \in Cpus : output[k] = <<"up", d>> /\ pc'[d] = "idle"
        /\ \A l \in 2 .. k - 1 : output[l] # output[k]
  BY <1>0, <1>2 DEF OutputInv
<1>8. \A d \in Cpus : pc'[d] \in {"banner_lock", "banner", "handlers", "master_done"}
                        => d = primary
  BY <1>0, <1>2, <1>4 DEF OutputInv
<1>9. \A d \in Cpus : pc'[d] \in {"up_lock", "up", "idle"} => pc[d] \in {"up_lock", "up", "idle"}
  BY <1>2, <1>3, <1>4
<1>10. /\ pc'[primary] \in AfterDone \cup {"master_done"} =>
            pc[primary] \in AfterDone \cup {"master_done"}
       /\ pc'[primary] \in AfterBanner <=> pc[primary] \in AfterBanner
  BY <1>0, <1>2, <1>3, <1>5 DEF AfterDone, AfterBanner
<1> QED
  BY <1>0, <1>1, <1>5, <1>6, <1>7, <1>8, <1>9, <1>10, WordsAre DEF OutputInv

LEMMA LockPrintOutput ==
  ASSUME BssInv, OutputInv, NEW c \in Cpus, LockPrint(c)
  PROVE  OutputInv'
<1>0. /\ pc \in [Cpus -> Labels] /\ pc' = [pc EXCEPT ![c] = pc'[c]]
      /\ \/ pc[c] = "banner_lock" /\ pc'[c] = "banner"
         \/ pc[c] = "up_lock" /\ pc'[c] = "up"
      /\ pc[c] \in InC /\ Assign(c, "print_lock", 1)
      /\ UNCHANGED <<late, primary, output>>
  BY DEF BssInv, TypeOK, LockPrint, Goto, InC
<1>1. /\ Set("master_done")' <=> Set("master_done")
      /\ Installed' <=> Installed
  BY <1>0, AssignSets, WordsAre DEF Installed
<1>2. \A d \in Cpus \ {c} : pc'[d] = pc[d]
  BY <1>0
<1>3. primary \in Cpus
  BY <1>0, InCReads DEF Done, BssInv, TypeOK
<1>4. /\ pc'[primary] \in AfterDone <=> pc[primary] \in AfterDone
      /\ pc'[primary] \in AfterDone \cup {"master_done"} <=>
           pc[primary] \in AfterDone \cup {"master_done"}
      /\ pc'[primary] \in AfterBanner <=> pc[primary] \in AfterBanner
  BY <1>0, <1>2, <1>3 DEF AfterDone, AfterBanner
<1>5. \A d \in Cpus :
        /\ pc'[d] \in {"banner_lock", "banner", "handlers", "master_done"} =>
             pc[d] \in {"banner_lock", "banner", "handlers", "master_done"}
        /\ pc'[d] \in {"up_lock", "up", "idle"} => pc[d] \in {"up_lock", "up", "idle"}
        /\ pc[d] = "idle" => pc'[d] = "idle"
  BY <1>0, <1>2
<1>6. \A k \in 2 .. Len(output) :
        /\ \E d \in Cpus : output[k] = <<"up", d>> /\ pc'[d] = "idle"
        /\ \A l \in 2 .. k - 1 : output[l] # output[k]
  BY <1>5 DEF OutputInv
<1> QED
  BY <1>0, <1>1, <1>4, <1>5, <1>6 DEF OutputInv

(* The banner is the first line.                                           *)
LEMMA PrintBannerOutput ==
  ASSUME BssInv, OutputInv, NEW c \in Cpus, PrintBanner(c)
  PROVE  OutputInv'
<1>0. /\ pc \in [Cpus -> Labels] /\ pc' = [pc EXCEPT ![c] = "handlers"]
      /\ pc[c] = "banner" /\ pc[c] \in InC /\ Assign(c, "print_lock", 0)
      /\ UNCHANGED <<late, primary>> /\ output' = Append(output, <<"guest">>)
  BY DEF BssInv, TypeOK, PrintBanner, Goto, InC
<1>1. /\ Set("master_done")' <=> Set("master_done")
      /\ Installed' <=> Installed
  BY <1>0, AssignSets, WordsAre DEF Installed
<1>2. c = primary /\ c # Nobody
  BY <1>0, BootAssumption DEF OutputInv
<1>3. output = << >>
  BY <1>0, <1>2 DEF OutputInv, AfterBanner
<1>4. output' = <<<<"guest">>>>
  BY <1>0, <1>3
<1>5. Len(output') = 1 /\ output'[1] = <<"guest">>
  BY <1>4
<1>6. ~Set("master_done")
  BY <1>0, <1>2 DEF OutputInv, AfterDone
<1>7. \A d \in Cpus \ {c} : pc'[d] = pc[d] /\ pc'[c] = "handlers"
  BY <1>0
<1>8. 2 .. Len(output') = {}
  BY <1>5
<1>9. pc'[primary] = "handlers"
  BY <1>0, <1>2
<1>10. \A d \in Cpus :
         /\ pc'[d] \in {"banner_lock", "banner", "handlers", "master_done"} => d = primary
         /\ pc'[d] \notin {"up_lock", "up", "idle"}
  BY <1>2, <1>6, <1>7, <1>9 DEF OutputInv
<1> QED
  BY <1>0, <1>1, <1>2, <1>5, <1>6, <1>8, <1>9, <1>10 DEF OutputInv, AfterBanner, AfterDone

(* The handlers are installed before master_done is set.                   *)
LEMMA MasterOutput ==
  ASSUME BssInv, OutputInv, NEW c \in Cpus, SetHandlers(c) \/ MasterDone(c)
  PROVE  OutputInv'
<1>0. /\ pc \in [Cpus -> Labels] /\ pc' = [pc EXCEPT ![c] = pc'[c]] /\ pc[c] \in InC
      /\ UNCHANGED <<primary, output>>
      /\ \/ /\ pc[c] = "handlers" /\ pc'[c] = "master_done"
            /\ (Assign(c, "irq_handlers", 1) \/ (late' /\ UNCHANGED <<mem, pending>>))
         \/ /\ pc[c] = "master_done" /\ pc'[c] = "wait_master"
            /\ Assign(c, "master_done", 1) /\ UNCHANGED late
  BY DEF BssInv, TypeOK, SetHandlers, MasterDone, Goto, InC
<1>1. c = primary /\ c # Nobody
  BY <1>0, BootAssumption DEF OutputInv
<1>2. ~Set("master_done")
  BY <1>0, <1>1 DEF OutputInv, AfterDone
<1>3. /\ Installed'
      /\ Set("master_done")' => pc'[c] = "wait_master"
  <2>1. CASE pc[c] = "handlers"
    <3>1. CASE Assign(c, "irq_handlers", 1)
      BY <1>0, <1>2, <2>1, <3>1, AssignSets, WordsAre DEF Installed
    <3>2. CASE late' /\ UNCHANGED <<mem, pending>>
      BY <1>2, <3>2 DEF Installed, Set
    <3> QED
      BY <1>0, <2>1, <3>1, <3>2
  <2>2. CASE pc[c] = "master_done"
    <3>1. Installed
      BY <1>1, <2>2 DEF OutputInv
    <3> QED
      BY <1>0, <2>2, <3>1, AssignSets, WordsAre DEF Installed
  <2> QED
    BY <1>0, <2>1, <2>2
<1>4. \A d \in Cpus \ {c} : pc'[d] = pc[d]
  BY <1>0
<1>5. \A d \in Cpus : pc[d] \notin {"up_lock", "up", "idle"}
  BY <1>2 DEF OutputInv
<1>6. \A d \in Cpus :
        /\ pc'[d] \in {"banner_lock", "banner", "handlers", "master_done"} => d = primary
        /\ pc'[d] \notin {"up_lock", "up", "idle"}
  BY <1>0, <1>1, <1>4, <1>5 DEF OutputInv
<1>7. Len(output) >= 1 /\ output[1] = <<"guest">>
  BY <1>0, <1>1 DEF OutputInv, AfterBanner
<1>8. \A k \in 2 .. Len(output) : FALSE
  BY <1>5 DEF OutputInv
<1>9. pc'[primary] \in {"master_done", "wait_master"}
  BY <1>0, <1>1
<1>10. Set("master_done")' => primary' # Nobody /\ pc'[primary] \in AfterDone
  BY <1>0, <1>1, <1>3 DEF AfterDone
<1> QED
  BY <1>0, <1>1, <1>3, <1>6, <1>7, <1>8, <1>9, <1>10 DEF OutputInv, AfterBanner, AfterDone

LEMMA WaitMasterOutput ==
  ASSUME BssInv, OutputInv, NEW c \in Cpus, WaitMaster(c)
  PROVE  OutputInv'
<1>0. /\ pc \in [Cpus -> Labels] /\ pc' = [pc EXCEPT ![c] = "up_lock"]
      /\ pc[c] = "wait_master" /\ pc[c] \in InC
      /\ UNCHANGED <<mem, pending, late, primary, output>>
  BY DEF BssInv, TypeOK, WaitMaster, Goto, InC
<1>1. Set("master_done")
  BY <1>0, InCReads, WordsAre DEF WaitMaster
<1>2. (\A w \in Words : Set(w)' <=> Set(w)) /\ (Installed' <=> Installed)
  BY <1>0 DEF Set, Installed
<1>3. \A d \in Cpus \ {c} : pc'[d] = pc[d] /\ pc'[c] = "up_lock"
  BY <1>0
<1>4. primary \in Cpus
  BY <1>0, InCReads DEF Done, BssInv, TypeOK
<1>5. /\ pc'[primary] \in AfterDone <=> pc[primary] \in AfterDone
      /\ pc'[primary] \in AfterDone \cup {"master_done"} <=>
           pc[primary] \in AfterDone \cup {"master_done"}
      /\ pc'[primary] \in AfterBanner <=> pc[primary] \in AfterBanner
  BY <1>0, <1>4 DEF AfterDone, AfterBanner
<1>6. \A d \in Cpus :
        /\ pc'[d] \in {"banner_lock", "banner", "handlers", "master_done"} => pc'[d] = pc[d]
        /\ pc[d] = "idle" => pc'[d] = "idle"
  BY <1>0
<1>7. \A k \in 2 .. Len(output) :
        /\ \E d \in Cpus : output[k] = <<"up", d>> /\ pc'[d] = "idle"
        /\ \A l \in 2 .. k - 1 : output[l] # output[k]
  BY <1>6 DEF OutputInv
<1> QED
  BY <1>0, <1>1, <1>2, <1>5, <1>6, <1>7, WordsAre DEF OutputInv

(* A CPU that says it is up has not said so before.                        *)
LEMMA PrintUpOutput ==
  ASSUME BssInv, OutputInv, NEW c \in Cpus, PrintUp(c)
  PROVE  OutputInv'
<1>0. /\ pc \in [Cpus -> Labels] /\ pc' = [pc EXCEPT ![c] = "idle"]
      /\ pc[c] = "up" /\ pc[c] \in InC /\ Assign(c, "print_lock", 0)
      /\ UNCHANGED <<late, primary>> /\ output' = Append(output, <<"up", c>>)
      /\ output \in Seq(Lines) /\ <<"up", c>> \in Lines
  BY DEF BssInv, TypeOK, PrintUp, Goto, InC, Lines
<1>1. /\ Set("master_done")' <=> Set("master_done")
      /\ Installed' <=> Installed
  BY <1>0, AssignSets, WordsAre DEF Installed
<1>2. Set("master_done") /\ primary # Nobody /\ pc[primary] \in AfterDone /\ primary \in Cpus
  BY <1>0 DEF OutputInv, BssInv, TypeOK
<1>3. Len(output) >= 1 /\ output[1] = <<"guest">>
  BY <1>2 DEF OutputInv, AfterDone, AfterBanner
<1> DEFINE n == Len(output)
<1>4. /\ n \in Nat /\ Len(output') = n + 1
      /\ \A k \in 1 .. n : output'[k] = output[k]
      /\ output'[n + 1] = <<"up", c>>
  <2>1. n \in Nat
    BY <1>0, LenProperties
  <2> QED
    BY <1>0, <2>1, AppendProperties
<1> HIDE DEF n
<1>5. \A d \in Cpus :
        /\ pc'[d] \in {"banner_lock", "banner", "handlers", "master_done"} => pc'[d] = pc[d]
        /\ pc[d] = "idle" => pc'[d] = "idle" /\ d # c
  BY <1>0
<1>6. pc'[primary] \in AfterDone /\ pc'[c] = "idle"
  BY <1>0, <1>2 DEF AfterDone
<1>7. \A k \in 2 .. n :
        /\ \E d \in Cpus : output[k] = <<"up", d>> /\ pc[d] = "idle"
        /\ \A l \in 2 .. k - 1 : output[l] # output[k]
  BY DEF OutputInv, n
<1>8. \A k \in 2 .. n : output[k] # <<"up", c>>
  <2> SUFFICES ASSUME NEW k \in 2 .. n PROVE output[k] # <<"up", c>>
    OBVIOUS
  <2>1. PICK d \in Cpus : output[k] = <<"up", d>> /\ pc[d] = "idle"
    BY <1>7
  <2>2. d # c
    BY <1>5, <2>1
  <2> QED
    BY <2>1, <2>2
<1>9. ASSUME NEW k \in 2 .. n + 1
      PROVE  /\ \E d \in Cpus : output'[k] = <<"up", d>> /\ pc'[d] = "idle"
             /\ \A l \in 2 .. k - 1 : output'[l] # output'[k]
  <2>1. k \in 2 .. n \/ k = n + 1
    BY <1>4
  <2>2. CASE k = n + 1
    <3>1. \A l \in 2 .. k - 1 : l \in 2 .. n /\ l \in 1 .. n
      BY <1>4, <2>2
    <3> QED
      BY <1>4, <1>6, <1>8, <2>2, <3>1
  <2>3. CASE k \in 2 .. n
    <3>1. k \in 1 .. n /\ \A l \in 2 .. k - 1 : l \in 1 .. n
      BY <1>4, <2>3
    <3> QED
      BY <1>4, <1>5, <1>7, <2>3, <3>1
  <2> QED
    BY <2>1, <2>2, <2>3
<1>10. Len(output') >= 1 /\ output'[1] = <<"guest">>
  <2>1. n >= 1
    BY <1>3 DEF n
  <2> QED
    BY <1>3, <1>4, <2>1
<1>11. Installed
  BY <1>2 DEF OutputInv
<1>12. \A k \in 2 .. Len(output') :
         /\ \E d \in Cpus : output'[k] = <<"up", d>> /\ pc'[d] = "idle"
         /\ \A l \in 2 .. k - 1 : output'[l] # output'[k]
  BY <1>4, <1>9
<1>13. pc'[primary] \in AfterBanner
  BY <1>6 DEF AfterBanner, AfterDone
<1>14. \A d \in Cpus : pc'[d] \in {"banner_lock", "banner", "handlers", "master_done"}
                         => d = primary
  BY <1>5 DEF OutputInv
<1> QED
  BY <1>0, <1>1, <1>2, <1>6, <1>10, <1>11, <1>12, <1>13, <1>14 DEF OutputInv

(* The election: before it, nobody was in C code and nothing was printed.  *)
LEMMA ElectOutput ==
  ASSUME BssInv, OutputInv, NEW c \in Cpus, Elect(c)
  PROVE  OutputInv'
<1>0. /\ pc \in [Cpus -> Labels] /\ primary = Nobody /\ primary' = c /\ c # Nobody
      /\ UNCHANGED <<mem, pending, output>> /\ pc' = [pc EXCEPT ![c] = pc'[c]]
      /\ pc'[c] \in {"elected", "clear"}
  BY BootAssumption DEF BssInv, TypeOK, ElectionInv, Elect, Goto
<1>1. \A d \in Cpus : pc[d] \notin InC
  BY <1>0 DEF BssInv, ReadyInv, Done
<1>2. \A d \in Cpus : pc'[d] \notin Late
  BY <1>0, <1>1 DEF InC, Late, AfterBanner
<1>3. output = << >> /\ ~Set("master_done")
  BY <1>0 DEF OutputInv
<1>4. output' = << >> /\ ~Set("master_done")' /\ 2 .. Len(output') = {}
  <2>1. Len(<< >>) = 0 /\ 2 .. 0 = {}
    OBVIOUS
  <2> QED
    BY <1>0, <1>3, <2>1 DEF Set
<1> QED
  BY <1>0, <1>2, <1>4 DEF OutputInv, Late, AfterBanner, AfterDone

LEMMA NextOutput ==
  ASSUME BssInv, BssInv', UartInv, OutputInv, LateInv, [Next]_vars
  PROVE  OutputInv'
<1>0. /\ pc \in [Cpus -> Labels] /\ primary \in Cpus \cup {Nobody}
      /\ "master_done" \in Words /\ "irq_handlers" \in Words
  BY WordsAre DEF BssInv, TypeOK
<1>1. CASE UNCHANGED vars \/ Idle \/ Drain
  <2>1. UNCHANGED <<pc, late, primary, output>>
    BY <1>1 DEF Idle, Drain, vars
  <2>2. /\ Set("master_done")' <=> Set("master_done")
        /\ Installed' <=> Installed
    <3>1. CASE Drain
      BY <1>0, <2>1, <3>1, DrainSets DEF BssInv, Installed
    <3>2. CASE UNCHANGED <<mem, pending>>
      BY <2>1, <3>2 DEF Set, Installed
    <3> QED
      BY <1>1, <3>1, <3>2 DEF Idle, vars
  <2> QED
    BY <1>0, <2>1, <2>2, OutputFrame
<1>2. ASSUME NEW c \in Cpus, Step(c)
      PROVE  OutputInv'
  <2> USE DEF Late, AfterBanner
  <2>1. CASE EnterEl1(c) \/ EntryEl1(c) \/ Skip(c) \/ WaitReady(c) \/ UartInit(c) \/ StartEnds(c)
    <3>1. /\ UNCHANGED <<mem, pending, late, primary, output>>
          /\ pc[c] \in {"start", "el1", "wait", "uart_init", "start_others"}
          /\ pc'[c] \in {"el1", "stopped", "wait", "init", "unlock", "main"}
          /\ pc' = [pc EXCEPT ![c] = pc'[c]]
      BY <1>0, <2>1 DEF EnterEl1, EntryEl1, Skip, WaitReady, UartInit, StartEnds, Goto
    <3> QED
      BY <1>0, <3>1, OutputFrame DEF Set, Installed
  <2>2. CASE SetPrimary(c) \/ ClearBss(c) \/ SetReady(c)
    <3>1. /\ UNCHANGED <<late, primary, output>> /\ pc[c] \in {"elected", "clear"}
          /\ pc'[c] \in {"clear", "wait"} /\ pc' = [pc EXCEPT ![c] = pc'[c]]
      BY <1>0, <2>2 DEF SetPrimary, ClearBss, SetReady, Goto
    <3>2. PICK l \in Cells : Store(l)
      BY <2>2, StartStores DEF BssInv
    <3>3. ~Done
      BY <3>1 DEF BssInv, ElectionInv, Done
    <3>4. \A w \in Words : ~Set(w) /\ ~Set(w)'
      BY <3>1, <3>2, <3>3, StoreSets
    <3> QED
      BY <1>0, <3>1, <3>4, OutputFrame DEF Installed
  <2>3. CASE StartNext(c)
    <3>1. UNCHANGED <<mem, pending, late, primary, output>>
      BY <2>3 DEF StartNext
    <3>2. \A d \in Cpus : pc'[d] = pc[d] \/ (pc[d] = "off" /\ pc'[d] = "start")
      BY <1>0, <2>3 DEF StartNext, CanStart, sbi_hart_start, psci_cpu_on
    <3> QED
      BY <1>0, <3>1, <3>2, OutputFrame DEF Set, Installed
  <2>4. CASE LockInit(c) \/ CheckInit(c) \/ UnlockInit(c)
    <3>1. /\ UNCHANGED <<late, primary, output>> /\ pc[c] \in {"init", "check", "unlock"}
          /\ pc'[c] \in {"check", "uart_init", "unlock", "start_others", "main"}
          /\ pc' = [pc EXCEPT ![c] = pc'[c]] /\ pc[c] \in InC
      BY <1>0, <2>4 DEF LockInit, CheckInit, UnlockInit, Goto, InC
    <3>2. UNCHANGED <<mem, pending>>
          \/ \E l \in {"init_lock", "init_done"}, v \in {0, 1} : Assign(c, l, v)
      BY <2>4 DEF LockInit, CheckInit, UnlockInit
    <3>3. /\ Set("master_done")' <=> Set("master_done")
          /\ Installed' <=> Installed
      <4>1. CASE UNCHANGED <<mem, pending>>
        BY <3>1, <4>1 DEF Set, Installed
      <4>2. CASE \E l \in {"init_lock", "init_done"}, v \in {0, 1} : Assign(c, l, v)
        BY <3>1, <4>2, AssignSets, WordsAre DEF Installed
      <4> QED
        BY <3>2, <4>1, <4>2
    <3> QED
      BY <1>0, <3>1, <3>3, OutputFrame
  <2>5. CASE \/ Elect(c) \/ Main(c) \/ LockPrint(c) \/ PrintBanner(c) \/ SetHandlers(c)
             \/ MasterDone(c) \/ WaitMaster(c) \/ PrintUp(c)
    BY <2>5, ElectOutput, MainOutput, LockPrintOutput, PrintBannerOutput, MasterOutput,
       WaitMasterOutput, PrintUpOutput
  <2> QED
    BY <1>2, <2>1, <2>2, <2>3, <2>4, <2>5 DEF Step
<1>3. CASE DrainHandlers
  <2>1. UNCHANGED <<pc, primary, output>> /\ late
    BY <1>3 DEF DrainHandlers
  <2>2. /\ Set("master_done")' <=> Set("master_done")
        /\ Installed' /\ Installed
    BY <1>0, <1>3, <2>1, DrainHandlersSets DEF Installed
  <2> QED
    BY <1>0, <2>1, <2>2, OutputFrame
<1> QED
  BY <1>1, <1>2, <1>3 DEF Next

(* The primary stores the handler table and does not pass its lock before  *)
(* the table has reached memory.                                           *)
LEMMA NextLate ==
  ASSUME BssInv, OutputInv, LateInv, [Next]_vars
  PROVE  LateInv'
<1> SUFFICES ASSUME late' PROVE LateInv'
  BY DEF LateInv
<1>0. pc \in [Cpus -> Labels] /\ primary \in Cpus \cup {Nobody}
  BY DEF BssInv, TypeOK
<1>1. CASE UNCHANGED vars \/ Idle \/ Drain \/ DrainHandlers
  BY <1>1 DEF vars, Idle, Drain, DrainHandlers, LateInv
<1>2. ASSUME NEW c \in Cpus, Step(c)
      PROVE  LateInv'
  <2>1. CASE SetHandlers(c)
    <3>1. CASE machine.arch = "riscv" /\ ~machine.inOrder
      <4>1. c = primary /\ c # Nobody
        BY <2>1, BootAssumption DEF SetHandlers, Goto, OutputInv
      <4> QED
        BY <1>0, <2>1, <3>1, <4>1 DEF SetHandlers, Goto, LateInv
    <3>2. CASE ~(machine.arch = "riscv" /\ ~machine.inOrder)
      BY <2>1, <3>2 DEF SetHandlers, LateInv
    <3> QED
      BY <3>1, <3>2
  <2>2. CASE ~SetHandlers(c)
    <3>1. late /\ UNCHANGED machine
      BY <1>2, <2>2 DEF Step, EnterEl1, EntryEl1, Elect, Skip, SetPrimary, ClearBss, SetReady,
            WaitReady, LockInit, CheckInit, UartInit, UnlockInit, StartNext, StartEnds, Main,
            LockPrint, PrintBanner, MasterDone, WaitMaster, PrintUp
    <3>2. /\ machine.arch = "riscv" /\ ~machine.inOrder /\ primary \in Cpus /\ primary # Nobody
          /\ pc[primary] \in {"master_done", "wait_master", "up_lock"}
      BY <1>0, <3>1 DEF LateInv
    <3>3. ~Elect(c)
      BY <3>2 DEF Elect, BssInv, ElectionInv
    <3>4. UNCHANGED primary
      BY <1>2, <2>2, <3>3 DEF Step, EnterEl1, EntryEl1, Skip, SetPrimary, ClearBss, SetReady,
            WaitReady, LockInit, CheckInit, UartInit, UnlockInit, StartNext, StartEnds, Main,
            LockPrint, PrintBanner, MasterDone, WaitMaster, PrintUp
    <3>5. pc'[primary] \in {"master_done", "wait_master", "up_lock"}
      <4>1. CASE StartNext(c)
        BY <1>0, <3>2, <4>1 DEF StartNext, CanStart, sbi_hart_start, psci_cpu_on
      <4>2. CASE MasterDone(c) \/ WaitMaster(c)
        BY <1>0, <3>2, <4>2 DEF MasterDone, WaitMaster, Goto
      <4>3. CASE LockPrint(c)
        BY <1>0, <3>1, <3>2, <4>3 DEF LockPrint, Goto
      <4>4. CASE ~StartNext(c) /\ ~MasterDone(c) /\ ~WaitMaster(c) /\ ~LockPrint(c)
        <5>1. pc' = pc \/ (/\ pc' = [pc EXCEPT ![c] = pc'[c]]
                          /\ pc[c] \notin {"master_done", "wait_master", "up_lock"})
          BY <1>0, <1>2, <2>2, <3>3, <4>4 DEF Step, EnterEl1, EntryEl1, Skip, SetPrimary,
                ClearBss, SetReady, WaitReady, LockInit, CheckInit, UartInit, UnlockInit,
                StartEnds, Main, PrintBanner, PrintUp, Goto
        <5> QED
          BY <1>0, <3>2, <5>1
      <4> QED
        BY <4>1, <4>2, <4>3, <4>4
    <3> QED
      BY <3>1, <3>2, <3>4, <3>5 DEF LateInv
  <2> QED
    BY <2>1, <2>2
<1> QED
  BY <1>1, <1>2 DEF Next

-----------------------------------------------------------------------------
LEMMA InitInv ==
  ASSUME StoresOrdered, Init
  PROVE  IndInv
<1>1. /\ primary = Nobody /\ uart = 0 /\ output = << >>
      /\ pc = [c \in Cpus |-> IF c \in machine.atReset THEN "start" ELSE "off"]
  BY DEF Init
<1>2. \A w \in Words : mem[w] # 1
  BY BootAssumption DEF Init
<1>3. \A c \in Cpus : pc[c] \in {"start", "off"}
  BY <1>1
<1>4. UartInv
  BY <1>1, <1>2, <1>3, WordsAre DEF UartInv, Set, HoldsInit, AfterInit, InC
<1>5. Len(output) = 0 /\ 2 .. Len(output) = {}
  BY <1>1
<1>6. OutputInv
  BY <1>1, <1>2, <1>3, <1>5, WordsAre DEF OutputInv, Set
<1>7. LateInv
  BY DEF LateInv, Init
<1> QED
  BY <1>4, <1>6, <1>7, InitBss DEF IndInv

(* The inductive invariant, on the machines of StoresOrdered.              *)
THEOREM Invariance ==
  ASSUME StoresOrdered
  PROVE  Spec => []IndInv
<1>1. Init => IndInv
  BY InitInv
<1>2. IndInv /\ [Next]_vars => IndInv'
  BY NextBss, NextUart, NextOutput, NextLate DEF IndInv
<1> QED
  BY <1>1, <1>2, PTL DEF Spec

(* The values of the state during bring-up: RAM holds what the program     *)
(* stored or junk, and a CPU is at a label of the program.                 *)
THEOREM TypeCorrect ==
  ASSUME StoresOrdered
  PROVE  Spec => []TypeOK
<1>1. IndInv => TypeOK
  BY DEF IndInv, BssInv
<1> QED
  BY <1>1, Invariance, PTL

(* No CPU enters C code before the loop of _start has cleared .bss: it     *)
(* reads no junk there, all the stores of the primary have reached it, and *)
(* it knows who the primary is.                                            *)
THEOREM BssClear ==
  ASSUME StoresOrdered
  PROVE  Spec => []BssClearBeforeC
<1>1. IndInv => BssClearBeforeC
  BY InCReads, BootAssumption DEF IndInv, BssClearBeforeC
<1> QED
  BY <1>1, Invariance, PTL

(* _init and main: uart_init runs once and before any CPU leaves _init,    *)
(* the banner is the first line, each CPU says once that it is up, and     *)
(* then the handlers are installed, save for the lines of the other harts  *)
(* of a RISC-V machine that reorders stores.                               *)
THEOREM OutputOrdered ==
  ASSUME StoresOrdered
  PROVE  Spec => []OutputInOrder
<1> SUFFICES IndInv => OutputInOrder
  BY Invariance, PTL
<1> SUFFICES ASSUME IndInv PROVE OutputInOrder
  OBVIOUS
<1> USE DEF IndInv
<1>1. uart <= 1
  <2>1. uart \in {0, 1}
    BY DEF UartInv
  <2> QED
    BY <2>1
<1>2. \A c \in Cpus : pc[c] \in AfterInit => uart = 1
  BY DEF UartInv
<1>3. output # << >> => primary # Nobody /\ pc[primary] \in AfterBanner
  BY DEF OutputInv
<1>4. output # << >> => output[1] = <<"guest">>
  BY <1>3 DEF OutputInv
<1>5. \A k \in 2 .. Len(output) :
        output[k] # <<"guest">> /\ \A l \in 2 .. k - 1 : output[l] # output[k]
  BY DEF OutputInv
<1>6. ASSUME NEW k \in 2 .. Len(output),
             machine.arch # "riscv" \/ machine.inOrder \/ output[k] = <<"up", primary>>
      PROVE  mem["irq_handlers"] = 1
  <2>1. PICK c \in Cpus : output[k] = <<"up", c>> /\ pc[c] = "idle"
    BY DEF OutputInv
  <2>2. Set("master_done")
    BY <2>1 DEF OutputInv
  <2>3. Installed
    BY <2>2 DEF OutputInv
  <2>4. ~late
    <3>1. CASE output[k] = <<"up", primary>>
      <4>1. c = primary
        BY <2>1, <3>1
      <4> QED
        BY <2>1, <4>1 DEF LateInv
    <3>2. CASE machine.arch # "riscv" \/ machine.inOrder
      BY <3>2 DEF LateInv
    <3> QED
      BY <1>6, <3>1, <3>2
  <2> QED
    BY <2>3, <2>4 DEF Installed, Set
<1> QED
  BY <1>1, <1>2, <1>4, <1>5, <1>6 DEF OutputInOrder
=============================================================================
