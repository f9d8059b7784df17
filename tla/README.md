# Verification of bao-baremetal-guest in TLA+

The repository is a small bare-metal guest for the Bao hypervisor: start-up code
for AArch64, AArch32 and RISC-V, a spinlock per architecture, interrupt
controllers (GICv2, GICv3, PLIC), UART drivers, a demo `main.c`, and a VirtIO
console driver with its virtqueues and memory pool. There are no tests and no
documents in it; what the code promises is in its comments, in the documentation
comments of its headers and in its assertions.

This directory holds TLA+ models of the parts that have state and concurrency,
TLC configurations for small instances, and TLAPS proofs for every instance.

    tlc -workers 2 -config MCTx.cfg MCVirtioConsoleTx     # a run
    tlapm VirtQueueProofs.tla                             # proofs

## 1. Inventory

| component | state it keeps | operations | interacts with |
|---|---|---|---|
| virtqueue (`virtio_queue.h`) | descriptor table, free chain, available and used ring, four indices | get/put free descriptor, fill, add available, get used; device side: get available, add used | console driver, the device |
| memory pool (`virtio_memory_pool.h`) | bytes, an offset | alloc, free | `transmit`, `receive` |
| console transmit (`virtio_console.c`) | `tx_lock`, transmit queue | `virtio_console_transmit` on any CPU; completion part of `virtio_console_receive` in the interrupt handler | virtqueue, pool, device |
| console receive | `rx_lock`, console buffer, receive queue | `virtio_console_receive` and its `rx_*` helpers; a reader that prints the buffer | the same, the application |
| console initialisation, MMIO transport | status, feature and queue registers, `ready` | `virtio_console_init`, `virtio_console_mmio_init` | device, `receive` |
| spinlock | lock word, exclusive monitors | `spin_lock`, `spin_unlock` | everything shared |
| boot (`start.S`, `_init`, `arch_init`, `main`) | `.bss`, primary hart, ready flag, `init_lock`, `print_lock`, `master_done` | leave EL2, elect, clear, wait, initialise, start the others | firmware (`sbi_hart_start`, `psci_cpu_on`), other CPUs |
| interrupts (`irq.c`, `plic.c`, `gicv*.c`, `exceptions.c`, `main.c`) | handler table, enable bits, routing, pending bits | enable, trap, acknowledge, dispatch, complete; UART, timer and IPI handler | `main`, controllers |
| exception vectors (`exceptions.S`, `exceptions.c`) and stacks | registers and trap frames of each CPU | save, call C, restore; spin on a fault | every interrupt, `start.S` |
| GIC drivers (`gicv2.c`, `gicv3.c`) | `gicd_lock`, `gicr_lock`; enable, pending, active, priority, target, configuration and route registers, shared or per CPU | `gic_init`, set and get of each field, SGIs | `irq_enable` on every CPU, `arch_init` |
| UART drivers and platform glue | device registers, FIFOs, receive interrupt, overrun flag | init, putc, getc, interrupt enable and clear | `_write`, `_read`, `uart_rx_handler` |
| libc stubs, other firmware calls, page tables, register headers | none of its own that matters | marshalling | |

What is hard here:

* **Concurrency on plain memory.** `transmit` takes `tx_lock`; the handler
  touches the same free list with no lock, on another CPU or on top of `transmit`.
* **Interrupts and locks.** The handler takes `rx_lock`, and so does thread code
  with interrupts enabled.
* **Acknowledge and completion order.** Interrupt causes are read once,
  acknowledged, and the handler may return early.
* **Bring-up.** Several CPUs run `_start` on RAM that holds junk, with plain stores
  and no fence, and every hart starts every other.
* **Traps.** Each vector saves its own choice of registers on one or two stacks per
  CPU, and on RISC-V a fault is taken for an interrupt.
* **Shared device registers.** Fields of several interrupts share a register that
  is read, masked and written back; `GICD_CTLR` and the UART's data register are
  used without a common lock; a latched interrupt is cleared after the last look
  at the receiver.
* **Boundaries.** 16-bit ring indices, a circular pool that guesses occupancy
  from the contents of memory, a console buffer with a limit.

`PROJECT.json` lists each hazard at its line with the properties aimed at it.

## 2. Modules

| module | models | state and actions |
|---|---|---|
| `VirtQueue` | `virtio_queue.h` | One variable per field; one action per function, except that `virtq_add_avail_buf` and `virtq_add_used_buf` are two (store the entry, publish the index), so that the other side can run between them. `owner` is a history variable: where each descriptor is in its life. |
| `VirtqChannel` | abstract: what a virtqueue promises | Two FIFO channels that pass descriptors with their contents to the device and back. |
| `VirtQueueRefinement` | | The refinement mapping from `VirtQueue` to `VirtqChannel`. |
| `VirtioMemoryPool` | `virtio_memory_pool.h` as `transmit` and `receive` use it | A byte is zero or not. Allocation and `strcpy` are separate steps; messages have any length from one byte on, and the device uses them in any order. `erased` is a history: the bytes of outstanding blocks that the NUL of a later copy overwrote. |
| `VirtioConsoleTx` | `virtio_console_transmit` and the completion path of `virtio_console_receive` | Each load and store of the free list is a step. The rings are the channels of `VirtqChannel`; blocks are opaque and distinct (that the pool may give a byte twice is `VirtioMemoryPool`'s subject), and an allocation may fail at any time. A failed assertion stops its CPU. |
| `VirtioConsoleRx` | `virtio_console_receive`, the console buffer and its reader | Bytes of the buffer and the copy loop's bounds are exact; a chunk is a character and a length. |
| `VirtioConsoleInit` | `virtio_console_init`, `virtio_console_mmio_init` | Registers, each check and each early return; the device is any device. |
| `VirtioConsoleShared` | what the two above share | `ready` and the size of a receive buffer. |
| `VirtioConsole` | the console from `virtio_console_init` on | `VirtioConsoleInit` and `VirtioConsoleRx` together: the device sends from `DRIVER_OK` on, before `ready` is set, and the interrupt is taken on another CPU or on the initialising one (`irqCpu`). |
| `Spinlock` | the three `spinlock.h` | Load- and store-exclusive with monitors, a store buffer per CPU, the release or the plain store with a fence. |
| `Lock` | abstract: what a `spinlock_t` promises | Acquire and release in one step; the other modules use locks this way. |
| `Boot` | `start.S`, `_init`, `arch_init`, `main`, the firmware calls that start a CPU | One label per step of each CPU. The `.bss` words the program depends on are cleared one by one. A machine has an architecture, an exception level and a memory: if it is not in order, the stores of `_start` wait in `pending` and reach memory in any order, until the fence or release of the first `spin_unlock`. `late` does the same for the handler table of a RISC-V primary, which no fence separates from `master_done`. |
| `TrapContext` | `exceptions.S`, the prologue of `exception_handler`, the stacks of `start.S` | Registers in four classes (scratch, saved, link, return address), and a frame of `main` and of a trap per CPU. Entering a trap saves what the vector saves and spoils what C may change; leaving it reloads the frame. |
| `Interrupts` | handlers of `main.c`, `irq.c`, `irq_enable`, trap entry and exit | What `main` enables on each CPU, the trap each CPU is in, pending bits; every IPI carries the tick behind it as a history. The interrupt of a PL011 is a latch: the handler drains the receiver and clears it in two steps. Each trap enters and leaves through `TrapContext`. On a platform that says so, an instruction of `main` faults. |
| `Gic` | `gicv2.c`, `gicv3.c`, `irq_enable` | The fields of a few interrupts, a copy per CPU of the private ones. Each CPU has a list of the steps left of its function; a read-modify-write is a load and a store, under the lock the code takes. The CPUs enter `gic_init` in any order. `asked`, `early` and `behind` are histories: the last request per field, that a CPU entered `gic_init` before CPU 0 had left it, and that one was between load and store of `GICD_CTLR` when CPU 0 stored. |
| `Uart` | the four UART drivers, the platforms' `uart_*` functions, `_write` and `_read` | Characters are counted. `uart_init` is the list of its register writes; `uart_putc` and `uart_getchar` are a check and an access; `late`, `taken` and `clash` are histories of what came between, `deaf` of an LPUART that nothing can wake; the handler prints, drains and clears as each platform does. |
| `*Proofs` | | Theorems about the module of that name, with their inductive invariants. `VirtQueueProofs` is also about `VirtQueueRefinement`; `BufferProofs` is about the two users of byte buffers, `VirtioMemoryPool` and `VirtioConsoleRx`; `VirtioConsoleInitProofs` is also about `VirtioConsole`; `LockProofs` about `Spinlock` and `Gic`, whose registers the locks guard. |
| `MC*` | | Model values and definitions for TLC. |

How they compose: `VirtioConsoleTx` and `VirtioConsoleRx` work on the queues
`VirtqChannel` specifies, which `VirtQueue` implements (run `vq`). `VirtioConsole`
runs the initialisation and the receive path on one device and one `ready`. `Boot`,
`Gic`, `VirtioConsoleTx` and `VirtioConsoleRx` use atomic locks, which `Spinlock`
implements (run `lock`). `Interrupts` starts where the master of `Boot` enters its
handler set-up, and extends `TrapContext`.

Definitions named like a C function translate that function; others name the
step of the function they stand for. Some definitions are not used by the
specification: each is a wrong variant of the definition that follows it, kept to
show that a property notices it (`mutants` in `PROJECT.json`).

## 3. Runs

| run | instance | shows |
|---|---|---|
| `vq` | 2 descriptors, indices modulo 4, 2 contents | `FreeListOK`, `AvailWindowOK`, `UsedWindowOK`, `LifeCycle`: free chain, ring windows and the life of a descriptor with completion in any order. `ChannelSpec`: refinement of the FIFO channels. `OfferedReturns`: what is offered returns. Four is the smallest index range that both wraps the ring and overflows; with three descriptors and one content the properties hold too (919,000 states, five minutes), and all but the last are proved for every size. |
| `pool` | 8 bytes, 3 descriptors, messages of 1 to 5 bytes, used in any order, 198,000 states | `NoResidue`, `IdlePoolServes`: freed bytes are zero, an idle pool serves half its size. `SharedOnlyErased`: two outstanding blocks share a byte only where a NUL erased it. Messages longer and shorter than half the pool wrap in every way, and a one-byte block is erased by its neighbour and given out again while both are outstanding. |
| `tx` | 3 descriptors, 2 CPUs, 2 blocks, 112,000 states | `Conserved`, `DeviceBlocksLive`, `PutAssertHolds`: `tx_lock` keeps free list, rings and pool consistent although allocations fail, the configuration changes and receive overflows; `AbortOnlyWhenFull`: the only failing assertion is that of a full queue; `UsedIsReaped`: without a disturbance all completed buffers are reaped. The handler is kept out of `transmit`. |
| `console` | 2 required features in word 1, 1 other in word 0, all devices; then 3 receive buffers of 3 bytes, console buffer of 7, 3 chunks, interrupts on either CPU, 621,000 states | `DriverOkMeansConfigured`, `ResultMatchesStatus`: `DRIVER_OK` only to a configured device, result and status agree. `NullFits`, `PrintsWholeMessage`: the terminator always fits, and what the reader prints is the beginning of one message. `HandlerReturns`, `TxReaped`; `InputTaken`: also a chunk that comes before `ready` leaves the ring. Two chunks fill the buffer, the third overflows it. |
| `lock` | 3 CPUs, 3 critical sections, both unlocks | Mutual exclusion, progress, refinement of `Lock`, no lost update with a store-release. Three CPUs allow one to fail its store-exclusive while two others hand the lock over. |
| `boot` | 4 CPUs, 8 machines, 81,000 states | `BssClearBeforeC`: `.bss` is clear and the primary known before C, with stores out of order where the primary starts the others and with stores in order where several CPUs leave reset; `OutputInOrder`: one `uart_init`, the banner first, each CPU once, and the handlers installed by then wherever stores are in order; `AllUp`. Two secondaries beside a primary and a started hart are needed for the start loops to meet. |
| `irq` | 3 CPUs, 7 platforms, 2 events (ticks or bytes), 247,000 states | `ContextRestored`: registers and stack of the interrupted code survive every trap, on three architectures; bytes are read (`UartServed`) unless one came between the last look at a PL011 and the clearing of its latch; the wave of IPIs is ordered (`WaveInOrder`) and, with a GIC, complete (`WaveReachesAll`). Three CPUs have a first, a middle and a last one; the second tick can overtake the first wave. A GICv2 with a target list of three stands for one with eight CPUs. Faults: instruction access on the master and load access on a secondary of RISC-V, any on a secondary of Arm. |
| `gic` | 2 CPUs, interrupts 0, 32, 33, 34, 160 of 192, 2 calls, any start order, 1,320,000 states | `FlagsAsAsked`, `FieldsAsAsked`: every field is what the last call on its interrupt asked for, in both drivers and in any start order; `ResetV2`: after `gic_init` of `gicv2.c` every other field has its default; `DistributorStaysOn`, but for the race it names. 33 and 34 share every register, 0 is the IPI and 32 the interrupt that `gicv3.c` takes for a private one, 160 is in the last register. Two calls are a race. |
| `uart` | 4 drivers, 2 CPUs, FIFOs of 2, 3 characters in, 2 out, all drivers polled too, 114,000 states | `StrandedOnlyByRace`, `CharLostOnlyByRace`, `Getc8250OnlyByRace`: input waits without an interrupt, output is lost, an 8250 returns an empty buffer only through a race the property names; `ReceiverDrains`: a receiver with a level interrupt is emptied and leaves its overrun, unless an LPUART is left with the overrun flag and nothing to read. Three characters fill and overrun the deepest FIFO. |
| `tx_smp` | 2 descriptors, handler on its own CPU | **Violation**: `assert(vq->desc_num_free < VIRTQ_SIZE)` fails. |
| `rx_exhaust` | 2 buffers, 3 chunks | **Violation**: the third chunk is never received. |
| `gic_reset` | 1 CPU, interrupts 0, 33, 160 | **Violation**: after `gicd_init` of `gicv3.c` interrupt 160 may be enabled, pending and active, and 33 has the priority it had. |

`CHECK_DEADLOCK FALSE` appears where the environment is bounded or an assertion
may stop a CPU (`tx`, `console`, `lock`, `irq`, `gic`, `uart` and the three violations): when bytes, ticks,
messages, calls or critical sections are used up nothing is left to do. `vq`,
`pool` and `boot` are checked for deadlock.

### Fairness

* `vq`: weak fairness of the driver's reaping and of the device's work;
  strong fairness of a completion, because the device has one slot for it. The
  handler's loops run until the rings are empty.
* `tx`, `console`, `rx_exhaust`: a running CPU executes its next step, a pending level interrupt is
  taken, the device serves what it holds. The handler's lock attempt
  succeeds if the lock is free again and again (the reader's `printf` between lock
  and unlock is much longer than the gap, but the store-exclusive cannot fail for
  ever in it). Nobody is obliged to transmit or to print.
  The initialising CPU runs unless an interrupt is taken on it.
* `lock`: CPUs run, stores drain, and some store-exclusive succeeds at last. No
  CPU is promised that it is the one: the lock has no queue.
* `boot`: a CPU that is on and not blocked runs, and a store reaches memory, the
  handler table too; each lock is taken boundedly often.
* `irq`: the timer fires and every CPU runs; nothing about the choice between
  pending interrupts, or between a trap, `main` and a fault that comes back.
* `uart`: CPUs run, a pending receive interrupt is taken and the transmitter
  sends. Nobody is obliged to print or to read.

## 4. Proofs

| theorems | statement | hypotheses beside the module's `ASSUME` |
|---|---|---|
| `VirtQueueProofs`: `TypeCorrect`, `FreeListCorrect`, `AvailRingCorrect`, `UsedRingCorrect`, `PutFreeAssertHolds`, `LifeCycleHolds` | the safety properties of `vq`, and the assertion of `virtq_put_free_desc` | none: `VIRTQ_SIZE > 0`, `IDX_WRAP > VIRTQ_SIZE` and a multiple of it |
| `VirtQueueProofs`: `ChannelRefined` | `VirtQueue` implements `VirtqChannel` | none |
| `BufferProofs`: `TypeCorrect`, `FreedIsReusable`, `IdleServes` | blocks inside the pool, no residue, an idle pool serves half its size | none: any sizes, any order of completion |
| `BufferProofs`: `DoubleOnlyAfterNul` | outstanding blocks share a byte only where a NUL erased it | none |
| `BufferProofs`: `RxTypeCorrect`, `TerminatorFits`, `ReaderSeesOneMessage`, `ReceiveStoresFirst` | types, the two invariants of the receive path in `console`, and that a `receive` that returns true leaves a terminated string that begins with the first chunk | none: a receive buffer has two bytes or more and the console buffer is larger |
| `VirtioConsoleTxProofs`: `TypeCorrect` | types | none: the handler may preempt `transmit` or run on another CPU |
| `VirtioConsoleTxProofs`: `ConservedAlways`, `DeviceReadsLive`, `PutNeverAborts`, `GetAbortsWhenFull` | the four invariants of `tx` | `Handler = "excluded"` |
| `VirtioConsoleInitProofs`: `TypeCorrect`, `Configured`, `ResultReported` | types and the two invariants of the initialisation in `console` | none: any features and device |
| `VirtioConsoleInitProofs`: `ConsoleIsBoth` | the composed console implements `VirtioConsoleInit` and `VirtioConsoleRx`, so that the invariants of both hold of it | none |
| `LockProofs`: `TypeCorrect`, `Excludes`, `KeepsUpdates` | types, mutual exclusion, no lost update | none: any CPUs; the property of the last is about the store-release |
| `LockProofs`: `LockRefined` | `Spinlock` implements `Lock` | none: either unlock; that the data is published is part of it for the store-release |
| `LockProofs`: `GicTypeCorrect` | types of `Gic`; only CPU 0 runs `gicd_init` | none: any start order |
| `LockProofs`: `DistributorOn`, `FlagsKeptApart`, `FieldsKeptApart`, `GicReset` | the four invariants of `gic`, for any CPUs, interrupts, calls and start order | none |
| `BootProofs`: `TypeCorrect`, `BssClear`, `OutputOrdered` | types and the two invariants of `boot`, for any CPUs | `StoresOrdered` |
| `InterruptsProofs`: `TypeCorrect`, `ContextKept`, `WaveOrdered` | types and the two invariants of `irq`, for any CPUs, ticks and bytes | none |
| `UartProofs`: `TypeCorrect`, `Stranded`, `CharLost`, `GetcMisled` | types and the three invariants of `uart`, for any CPUs and FIFO depth | none |

The hypotheses are what the code leaves to its surroundings, and section 5 says
what happens without them: `receive` does not take `tx_lock`, so that keeping the
handler out of `transmit` is the application's business; `_start` has no fence, so
that `StoresOrdered` asks for a memory that keeps the order of stores or for one
CPU at reset that starts the others. Each has instances among the runs (`tx`,
`boot`), so neither is empty. What the pool and the GIC do where the code falls short
is in the properties themselves, as the exception they name. The
assumption of `Gic` says that no interrupt beyond the implemented ones is named. The
assumption of `Interrupts` says what every platform of the repository has: the PLIC
with RISC-V and a GIC with Arm, and at most as many CPUs as a GICv2 has targets.

Each proof has one inductive invariant, `IndInv` (`MutexInv` and `DataInv` of the
spinlock, `Inv` and `ErasedInv` of the pool, `RxInv`, `GicInv`), which TLC has checked on an
instance like that of the run. `Invariance` proves it; the theorems above follow.

**VirtQueue.** The invariant is the conjunction of the type invariant, the free
chain, the two windows and "at most one descriptor is placed, and at most one
stored". The last is needed because the entry ahead of the index is in no window
yet: two of them would overwrite each other. That windows never overlap is an
argument about `%`: two positions less than `VIRTQ_SIZE` apart have different
slots, and because `VIRTQ_SIZE` divides the index range this survives the
overflow of the index. The window has room because the descriptors in it are
different, and there are `VIRTQ_SIZE` of them (a cardinality argument).
For the refinement a channel's queue is the window of its ring, read from the
consumer's index on. Publishing an index appends to it, taking an entry removes
its head, every other step leaves it alone: a store to the slot ahead of the index
is outside the window. The contents survive because only `virtq_desc_init` writes
a descriptor on its way, which the invariant `ContentOK` adds.

**VirtioMemoryPool.** Every non-zero byte lies in a block that is outstanding,
and a reserved block has not been written. Freeing clears the block's whole
span, so what remains non-zero lies in the others. For double allocation,
`ZeroOnlyErased` says that a byte of an outstanding block is zero only if the NUL of a
copy overwrote it: an allocation finds its bytes zero, so it shares with an outstanding
block erased bytes only, and a free clears bytes of another block only where the two
share them. This needs neither an order of completion nor a shortest message.

**VirtioConsoleTx.** `LockInv` says that one CPU is inside `transmit`, or the
handler runs, or neither. `Shape(taken, n, filled)` then describes the whole state
by where that one actor is: the free list links up exactly `n` different
descriptors, all but the outstanding, the dropped and the taken one, and the pool
holds one block for each outstanding or filled descriptor. `n` differs from
`desc_num_free` between the store of the head and that of the count. `LoadedInv`
says that what the actor has loaded is not stale. Lemmas about `Chain` pop and push
its head, change a link elsewhere and count it; counting is what makes both
assertions hold: a descriptor in the handler's hand is not on the list, so the list
is not full, and an empty list leaves every descriptor outstanding or dropped.
The device only moves descriptors between rings, which leaves `Shape` alone.

**VirtioConsoleRx.** The copy loop begins at the buffer position and ends at one chunk
size, so the first append writes the front of the console buffer and every later one
nothing: `PosOK` bounds the position by the number of appends, which leaves room for
the terminator. `BytesOK` describes the buffer at every step of the handler: NUL in
front while nothing of the message is stored, from then on the bytes of the first chunk
(all but its last), and behind them nothing but NUL and junk. So a reader that takes
`rx_lock` between any two critical sections of the handler finds no text or that of the
first chunk, which is the beginning of the message, and `Terminated` adds where the terminator lies when `receive` has returned.
That a C string is what lies before its first NUL is a lemma about `Min`.

**VirtioConsoleInit.** One conjunct per loop and check of `virtio_console_mmio_init`:
the features of the words the loop has gone through, the queues below the loop's
index with the addresses of their own rings, that no check has failed so far, and
that `FAILED` is written on the way out only. `ConsoleIsBoth` maps every action of the
composition to a step or a stutter of either part: the initialisation moves no variable
of the receive path but `ready`.

**Spinlock.** A set monitor implies a free lock word, because every store to the
word clears all monitors; a free word implies that no CPU holds the lock. For the
data, the invariant follows the owner: until its store drains memory holds what
the previous owner left, and the release waits for the drain. For the refinement
a CPU holds the abstract lock from its successful store-exclusive to its release.

**Gic.** Each CPU has a list of steps; a call or `gic_init` is any of the suffixes of its
list. The invariants are about the set of steps left instead: a step of `gic_init` is
passed when it is in the set no more, and a line of a GICv2 has its default from then on.
`FlagsOK` and `FieldsOK` say so, together with "as asked". Three parts carry the rest.
`EarlyOK`: unless a CPU came early, nobody else is up until CPU 0 is through, so the
loops without a lock race with nobody; a CPU that did come early can undo their defaults
but not a request, which is recorded as withdrawn when a loop overwrites it. `CtlrOK`:
once CPU 0 has no step left that turns the distributor on, it is on, in the register and
in the copy of every CPU between its load and its store, unless one fell `behind`.
`LocksOK` and `LoadedOK`: past `spin_lock` a CPU holds the lock of the bank its register
is in, and what it has loaded is as good as what the register holds; so the store changes
one field. `RouteOK` follows the two stores of a route. The bank decides the lock: on a
GICv3 shared interrupts but 32 are under `gicd_lock` and the others under `gicr_lock`, in the
redistributor of one CPU. The bounds of the loops are arithmetic about `\div`.

**Boot.** `BssInv` counts the words the primary has cleared, in memory or on their
way, and says that nobody passes the ready flag before it is done; where stores are
late, the CPU of reset is alone until the fence of its first `spin_unlock`. The other
half follows `init_lock` and `init_done` to exactly one `uart_init`, and `master_done`
to a banner that comes first. `Installed` holds from the primary's `irq_set_handler`
on: the table is in memory or on its way; `LateInv` says where it may still be on its
way, which is over when the primary takes the lock for its own line.

**Interrupts.** For the context: the frame of `main` is never written, and a CPU in
a handler has in its own trap frame what the handler may change. `WaveInOrder`
compares a CPU with its neighbour, which is not inductive: a fault on RISC-V sends
IPIs to all CPUs at once, so `InOrder` compares every pair.

**Uart.** `IrqInv` reads the rest of the setup list: the last word on the receive
interrupt enables it. `LateInv` catches the stranded character before the write that
strands it, and `PutInv` says that whoever found room still has it unless there
was a clash, because `print_lock` leaves only the handler as a second writer.

Only model-checked:

* all liveness properties, which need fairness and `ENABLED`: every other property of a
  passing run has a theorem;
* the violations of `tx_smp`, `rx_exhaust` and `gic_reset`.

## 5. What the models show that is not right

Kept as runs, because a comment or an assertion says otherwise:

* `tx_smp`: `virtio_console_receive` changes the transmit free list without
  `tx_lock`. With the handler on another CPU a decrement is lost and the assertion
  in `virtq_put_free_desc` fails.
* `rx_exhaust`: a used receive buffer is never offered again.
* `gic_reset`: the loops of `gicd_init` in `gicv3.c` leave out the last 32 interrupts and
  begin the priorities at register 32, which is interrupt 128; "all interrupts are not
  enabled, non pending, non active" and "All interrupts have lowest priority possible by
  default" hold for the others only.

Seen in the models and recorded among the hazards. A property that holds but for one of
these names it as its exception; some are reached by changing a constant:

* `VirtioConsoleTx`, `Handler = "preempt"`: the handler between load and store of
  `desc_num_free` loses an increment.
* `VirtioConsoleTx`: a full queue fails the assertion of `virtq_get_free_desc_id`
  with `tx_lock` held; a failed allocation drops its descriptor; a configuration
  change acknowledged together with a completion hides it.
* `VirtioConsoleRx`, `Preempt = TRUE`: an interrupt while its CPU prints the buffer
  under `rx_lock` spins on that lock for ever; `HandlerReturns` fails.
* `VirtioConsoleRx`: of several chunks in one interrupt only the first is copied,
  because the copy loop starts at the buffer position and ends at one chunk size;
  on overflow `receive` returns false although data was received.
* `VirtioConsoleInit`: `ready` is set after a failed initialisation too.
* `VirtioConsole`: a message between `DRIVER_OK` and `ready` that interrupts the
  initialising CPU is taken there for ever, which `InputTaken` names.
* `VirtioMemoryPool`: the NUL behind a copy makes the first byte of the next block
  look free while the device has it; a one-byte block, or one whose neighbour is
  freed out of order, is given out twice. `SharedOnlyErased` names it. A size that fits neither before nor behind
  the offset is refused on an empty pool.
* `Spinlock`, `"store_fence"`: the RISC-V unlock may become visible before the
  stores of the critical section; `NoLostUpdate` excludes it.
* `Boot`, several harts at reset and `inOrder = FALSE`: a hart may see the ready
  flag before `.bss` is clear, because `_start` has no fence; `BssClearBeforeC` fails.
* `Boot`: with four harts and primary 2 the start loops may leave out hart 3;
  `AllUp` asks for all CPUs only when 0 or 1 is the primary.
* `Interrupts`: on RISC-V an IPI that arrives while `ipi_handler` runs is lost,
  because SSIP is cleared after the handler; `WaveReachesAll` excludes it.
* `Interrupts`: on RISC-V an access fault of a hart is dispatched as an IPI or as
  its timer interrupt, again and again, and the other harts receive IPIs for it;
  a load fault of a secondary breaks `WaveInOrder`, which names that case.
* `Interrupts`: with as many CPUs as the target list of a GICv2 has, the last one's
  IPI to its successor goes to all others and the wave never ends.
* `Boot`, RISC-V with `inOrder = FALSE`: no fence lies between the stores of
  `irq_set_handler` and that of `master_done`, so that a hart may report itself and
  enable its interrupts before it sees the handlers; `OutputInOrder` names it.
* `Gic`, a CPU in `gic_init` before CPU 0 has left it (`NO_FIRMWARE`): its unlocked `|=`
  on `GICD_CTLR` may turn the distributor off (`DistributorStaysOn` names it), its
  read-modify-writes may undo the loops of `gicd_init` (`ResetV2` names it), and those
  loops take back what it has configured.
* `Gic`, GICv3: interrupt 32 is treated as private and its calls change fields of
  interrupts 0 and 16 (such a call asks nothing of 32, and undoes what was asked of those); `gic_get_prio` returns the
  field in its place in the register, right only for the first interrupt of a register.
* `Interrupts` and `Uart`, PL011 and Zynq: a character between the last look at the
  receiver and the clearing of the interrupt is stranded until the next one comes;
  `UartServed` and `StrandedOnlyByRace` name it.
* `Uart`: `pl011_uart_getc` waits while there is data, though its comment says "wait until
  there is data in FIFO" (`pl011_uart.c:100`), and the Zynq driver waits for the wrong
  condition too; no property is about what these two return. `uart_putc` races with
  the handler.
* `Uart`, LPUART: an overrun flag left by an earlier boot stage is not cleared by
  `nxp_uart_init`, and after an overrun a CPU that polls takes the character that would
  have raised the interrupt: the receiver stays stopped. `ReceiverDrains` names it.

## 6. Not modelled

* Weak memory, except in `Spinlock` and for `_start` and the handler table in `Boot`: the ring stores of
  the virtqueue are seen in program order. That the order matters is what the
  mutant of `AvailWindowOK` shows.
* Several harts that leave reset together in a `SINGLE_CORE` RISC-V build: they would share
  one stack (`riscv/start.S:68-71`). `Boot` has such a build with one hart.
* MMU, MPU and page tables: constants, and registers private to a CPU. Of the
  exception levels only where `_start` goes from each.
* Firmware calls the guest never makes: fences, version queries, suspend.
* Floating-point registers: the Arm vectors do not save them and the Arm builds
  are compiled without them. What the C library does with them is not known here.
* newlib stubs and `printf`: output is a line, or a number of characters. `_sbrk`
  changes its break without a lock, and who calls it is up to newlib.
* Interrupt priorities: they delay a delivery and do not change what is delivered.
* Faults inside a handler, and exception codes without a handler: the first spin or
  recur, the second do nothing.
* GIC group, priority-mask and hypervisor registers, UART divisors and line
  settings: written once and never read back.

## 7. Plan

Done, in this order: `VirtQueue` with its proofs and refinement, the pool with
proofs, the console (transmit, receive, initialisation), the spinlock with proofs,
boot, interrupts, the GIC and UART drivers; then late stores and exception levels
in `Boot`, trap contexts and faults in `Interrupts`, whole messages in
`VirtioConsoleRx`, `uart_getchar` in `Uart`; then the composed console, the pool with
short messages and any order of completion, and any start order in `Gic`.

Then the proofs: the two refinements, and the safety invariants of the pool, the
console's transmit queue, its receive path and initialisation, boot, interrupts, the
UART and the GIC.

Next, most valuable first:

1. The liveness properties, with a prover that has `ENABLED` and fairness.
2. `AllInterruptsReset` for `gicv3.c` as a theorem, once its loops cover all interrupts.
