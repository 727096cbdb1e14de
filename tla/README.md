# TLA+ models of the Linux-Device-Driver examples

These modules model the concurrent parts of the repository: the example
drivers under `examples/` and the QEMU devices under `tools/qemu/hw/ldd/` they
drive. TLC checks the models on small instances; TLAPS proves the most
important safety properties for every value of the constants. `PROJECT.json`
gives, for each definition, the source lines it models, and lists the runs,
the hazards and the theorems.

## 1. The system

The repository is a set of independent kernel modules, each about one
mechanism, and three emulated devices. Modules that share nothing but the
kernel are modelled apart; a driver is composed with the device it drives.

| Part | State | Operations | Interacts with | What is hard |
|---|---|---|---|---|
| 08, 09 pipes | mutex, buffer, `buff_len`, `rd_pos`, two wait queues | read, write | each other's callers | sleeping outside the mutex, lost wake-ups, faults and signals in the middle |
| ldd-pcie | interrupt status, mask and delivery, descriptor registers, a transfer with a timer, on-board memory | register writes, timer | 20, 26, 27, 28 | edge-triggered delivery, starts ignored while busy, errors part-way |
| 26 MSI | counters, one handler per vector | raise, handlers, probe, remove | ldd-pcie | handlers in parallel on one status register |
| 27 DMA | mutex, completion, `removed`, references, mapped buffer | open, read, write, release, handler, probe, remove | ldd-pcie | time-out against a late interrupt, unbinding with open files |
| 28 scatter/gather, 24 zero copy | pinned pages, descriptor table | read, write; pin, fill, sum, unpin | ldd-pcie | partial pins, the same time-out |
| 30 netdev | two devices: buffer pool, receive queue, status, NAPI | transmit, interrupt, poll, open, stop | each other | stop/wake of the queue, re-enabling interrupts |
| 21 usb_skel, ldd-usb | tick URB, `ticks`, `disconnected`, kref; pending tick | open, read, write, poll, release, disconnect; endpoints, timer | each other | disconnect against everything |
| 15-19 short, ldd-io | receive register, CTRL, edge interrupt, panel output | polled and interrupt-driven reads, writes | each other | read/acknowledge order, collapsing frames |
| 10, 11 poll, fasync | readiness flags, timer, fasync list | read, write, poll, release | - | flag taken, then the lock interrupted |
| 13, 14 jit, jiq | per-read or shared buffer, timer, work | proc reads, callbacks | - | callbacks that re-arm themselves against a signalled reader |
| 25 async_io | ring, deferred completions | read, write, completion work | - | completion after submission, ring arithmetic |
| 29 memdisk, 31 tty | disk; line buffer, timer | requests; open, write, close | - | two walks of one request; timer against shutdown |
| 03, 06, 07, 12 | a buffer under one lock, or a completion | read, write, seek, ioctl | - | position arithmetic |
| 01, 02, 04, 05, 20, 22, 23, `ds/`, scripts | little of their own | - | the kernel | - |

## 2. Modules

| Module | Models |
|---|---|
| `PipeSpec` | abstract: what both pipe drivers promise, a channel for one message |
| `Pipe` | `pipe_read`, `pipe_write` of 08 and 09, step by step |
| `LddPcieIrq` | the interrupts of the ldd-pcie device, as actions its drivers compose with |
| `LddPcie` | the rest of the ldd-pcie device: the DMA engine |
| `MsiInterrupt` | 26_msi_interrupt on `LddPcieIrq` |
| `Dma` | 27_dma on `LddPcie` |
| `DmaSg` | 28_dma_sg on `LddPcie` |
| `Netdev` | 30_netdev: both devices, the handlers, NAPI, the links, load and unload |
| `LddUsb` | the ldd-usb device |
| `UsbSkel` | 21_usb_skel on `LddUsb` |
| `LddIo` | the ldd-io device and its panel |
| `Short` | 15 to 19, one loaded after another, on `LddIo` |
| `Tty` | one line of 31_tty |
| `Deferred` | 13_jit and 14_jiq |
| `AsyncIo` | 25_async_io |
| `Poll` | 10_poll |
| `DmaProofs` | theorems about `Dma` |
| `NetdevBase`, `NetdevCounts`, `NetdevProofs` | the parts of the invariant of `Netdev`, and theorems about it |
| `ShortProofs` | theorems about `Short` and `LddIo` |
| `OpenProofs` | theorems about `UsbSkel` and `Tty` |
| `EventProofs` | theorems about `Deferred` and `MsiInterrupt` |
| `BufferProofs` | theorems about `Pipe`, `AsyncIo` and `Poll` |
| `MCPipe`, `MCMsi`, `MCDma`, `MCNetdev`, `MCUsbSkel` | symmetry sets and model constants for TLC |
| `MCPipeLive` | liveness of `Pipe`, with either driver |
| `MCDrivers` | `Short`, `DmaSg`, `Tty`, `Deferred`, `AsyncIo` and `Poll`, one at a time |

An operator whose comment begins with "Mutant:" is a plausible bug of the
definition that follows it. No specification uses it; put in place of that
definition it makes a property fail, which shows that the property depends on
the code.

**Pipe.** `pc[p]` is the place of a thread in its call. A step ends where
another thread can see or change something: taking the mutex, the test of the
condition under it, dropping it, `prepare_to_wait`, the lockless test,
`schedule`, `finish_wait`, the copy, the wake-up, the final unlock. The two
drivers share all but the sleep: 09 writes it out (`AdvancedSleep`), 08 calls
`wait_event_interruptible` (`SimpleSleep`, with the kernel's macro modelled from
its use and marked external). A copy may fault after any part of the write; a
signal may arrive at any time and ends an interruptible sleep or a wait for
the mutex; `O_NONBLOCK` returns at once.

**LddPcieIrq, LddPcie.** Registers are variables. `ldd_pcie_update_irq` models all three
ways of delivery (MSI-X, MSI, INTx): a message is sent on a pending bit's
0-to-1 edge only, the INTx line follows the level. `ldd_pcie_transfer` checks
the whole descriptor table before it moves a byte, and can fault at any
descriptor. The status becomes visible when the timer fires
(`ldd_pcie_complete`), a start while BUSY is ignored, and a reset abandons the
transfer without an interrupt. Messages already sent stay on their way
(`msgs`) across mask writes and resets.

**MsiInterrupt.** One handler instance per vector, each in the steps read,
acknowledge, count; probe and remove in the order of the code, a failing
`request_irq` included. `raised` is a history variable: how often each bit went
from 0 to 1.

**Dma.** Any number of threads, each with a file. `dma_xfer` is one action per
register write or call that another party can notice. The handler reads,
acknowledges, stores `int_status` and completes in four steps. The time-out
may happen at any moment of the wait. Probe is modelled from `request_irq` on,
with the failures of `request_irq` and `cdev_device_add`. Two reference counts
(`dev_ref`, `cdev_ref`) follow the structure. `mode` is chosen once, in `Init`:
the kind of interrupt the machine grants. `Leftover[mode]` is the set of
`INT_STATUS` bits a previous driver may have left set.

**DmaSg.** The process's buffer lies on pages that are scattered on the bus.
A call is cut to what is left of the memory and to as many pages as there are
descriptors; pinning may give fewer pages than asked for; segments may be
merged where pages are neighbours. The transfer, its time-out and the handler are as in
`Dma`; probe may fail at each resource it takes and gives back what it took. The model starts with an empty `INT_STATUS`: 28 requests
its interrupt before it clears the register (`examples/28_dma_sg/main.c:386-391`),
in the order section 6 is about for 27, and nothing is claimed here for a device
on which bits were left.

**Netdev.** The sender's transmit path `x[d]` does all the work of the wire: it
queues the packet at the twin, runs the twin's interrupt handler and then its
own. `p[d]` is NAPI's poll, `link` the holder of the rtnl lock, `load` insmod and
rmmod. A section under `priv->lock` is one step; between two of them everybody
else may run, also between the unlock and the wake-up of a stopped queue. A frame
may be dropped wherever the code drops one. `RegisterFails` names the devices
whose `register_netdev()` may fail.

**LddUsb, UsbSkel.** The device's time is the number of its ticks, and the ticks
not reported yet collapse into one. `urb` is the tick URB, with the host controller
or in its completion; `usb_kill_urb` keeps it from being submitted again and waits.
A thread has one file at a time and may be anywhere in open, read, write, poll or
release when the device is unplugged; `skel_disconnect` runs in steps. `kref` is
counted as in the code, and `life` says when it frees the structure.

**LddIo, Short.** Every register access of a driver is one step, so keys typed,
other threads and the handler come in between. A loaded driver finds the device as
the one before it left it, a waiting byte included. 18 and 19 take the interrupt,
a pulse that is sent when a byte comes in and when the interrupt is enabled with a
byte waiting; 19 first probes for its line and may fail. The panel is sent in
pieces to a viewer who may come, be slow, or go.

**Tty.** The timer, the writes and the echo of what the timer inserted run
against open, close and hangup, which the tty layer serialises.

**Deferred.** A timer or work item is queued, then runs in the steps record, queue
again or publish, wake. A read waits for it in the order of the code (13 and most of
14 with `wait_event_interruptible`, `jiq_read_wq` by hand), may be signalled, and
cancels it before its data goes.

**AsyncIo.** The mutex covers all of the two copies, which are one step each and
may be cut short by a fault. The completion is two steps, `ki_complete` and the rest,
because the module may be unloaded in between.

**Poll.** The timer sets a flag and wakes its sleepers in separate steps; a call takes
the flag with one exchange, or prepares to wait, tests and sleeps.

## 3. Runs

| Run | Question | Bounds | Distinct states |
|---|---|---|---|
| PipeAdvanced | 09: no lost wake-up, positions in the buffer, implements `PipeSpec` | 2 readers, 1 writer, buffer 2, reads up to 2, writes of 0, 1, 3 distinct bytes | 1.70 M |
| PipeSimple | 08: implements `PipeSpec` | 1 reader, 2 writers | 1.90 M |
| PipeLive | both: a served condition ends the call | 09: 2 + 1, 08: 1 + 1; buffer 1, blocking calls | 148 k |
| Dma | 27 over MSI and over a shared INTx line: protocol, lifetimes, calls return, remove ends | 2 threads; stale DONE and SOFT under MSI, stale SOFT on the line | 77 k |
| DmaData | 27 moves what it reports | 1 thread, memory 3, buffer 2, two byte values | 1.62 M |
| DmaLeft | the first finding of section 6 | 1 thread, stale DONE, INTx | violated |
| Msi | 26 over MSI-X, MSI and INTx: events counted, none swallowed, quiet remove | 3 raises, every stale bit | 30 k |
| Netdev | 30 with and without NAPI: buffers and frames conserved, order, lifetimes, no frame and no queue left behind | pools of 1 and 2, 2 frames one way and 1 the other, budget 1, links brought up twice, the first registration may fail | 1.96 M |
| NetdevRegister | the second finding of section 6 | pool of 1, the second registration may fail | violated |
| UsbSkel | 21: lifetimes, polling only while open, no tick passed over | 2 threads, 2 ticks, 3 opens, 1 write of an interval | 715 k |
| UsbSkelLive | 21: sleepers are woken, disconnect returns | 2 threads, 1 tick, 2 opens | 59 k |
| Drivers | 10, 13 to 19, 25, 28, 31: thirteen invariants, each about one of them | see below | 869 k |

"Drivers" chooses one driver in its initial state and then runs that driver alone, so
that the state spaces add up and do not multiply. Its bounds: 15 to 19 with 2 threads,
2 modules loaded one after the other, 2 bytes, 2 calls, the widths 0 and 8, two tries
of the probe; the same with a viewer of the panel, frames in 2 pieces and 1 load, byte
and call; 28 with 2 threads and calls, three pages of 2 bytes, on-board memory 5, 2
descriptors of at most 4 bytes, MSI and INTx; 31 with 2 files, lines of 2 characters
and 4 characters written; 13 and 14 with 2 threads and reads, 2 loops and 3 lines; 25
with a ring of 3, 6 bytes and 2 requests at a time; 10 with 2 threads, 3 ticks and 3
calls.

Why the bounds are enough. A write longer than the buffer and a read longer
than what is left make both cuts happen; a short write after a long one leaves
old bytes behind it, which two byte values tell from new ones; two threads on
one side make one of them find the condition taken away after its wake-up. In
`DmaData` the memory is longer than the buffer and not a multiple of it, so a call
can be cut by either. Two DMA
threads are one transfer and one waiter for the mutex; a third waiter has
nobody else to race with. Three raises let a second event of a kind arrive
while the first is being handled and a third behind it. A pool of one buffer stops
the queue with every frame, two leave a frame under way while the next is sent, and a
budget of one makes a poll end with frames left (the code's is 2). Two ticks let the
second come between a read's sample and its transfer; three opens let a file be opened
again while another is being closed. Two modules one after the other let the second
find what the first left. A ring of three and requests for three go round its end from
every offset. A page table out of order, and calls that begin inside a page, give
segments that can and that cannot be merged, and calls that are cut by the descriptors
and by the memory. Lines of two characters are full, cut and ended in texts of four. With two loops the
functions of 13 re-arm themselves once, and with three lines those of 14 do. `SYMMETRY` is used in
safety runs only, over threads no definition tells apart.

Deadlock is checked in every run. `Finished` stutters in the states where the
driver is gone and every file is closed, and nowhere else.

**Fairness.** A thread inside the driver and a handler that has been called
run on (weak fairness: the scheduler). A mutex that is released again and again
is given to each waiter in the end (strong fairness: the kernel's mutex hands
itself to a waiter that keeps losing it). On a shared line the handler is also
called for other devices. `free_irq` unlinks it before it waits, so these calls
cannot hold it up for ever, and it has strong fairness. `synchronize_irq` does
not unlink; that it ends is an assumption on the other devices, that their
interrupts leave gaps in which it finds the handler idle. With weak
fairness for either, TLC finds a thread or `dma_remove` stuck there for ever. The device's timer fires and an
interrupt that is signalled and unmasked is delivered (weak). Nothing is
assumed of users: they may never call, close, signal or unbind, and a thread
whose condition never becomes true may sleep for ever.

In `UsbSkel` the host controller gives back a URB that was unlinked, and completions
run (weak). A call in progress and the disconnect run on;
where they wait for `io_mutex`, which others take again and again, that is strong
fairness, for the same reason as above. No fairness is put on the device's ticks, on
the unplugging, or on opening and closing.

## 4. Properties

- `NoLostWakeup`: a thread asleep in `schedule` whose condition is true is
  about to be woken by a thread that holds the mutex just before its wake-up.
- `PositionInBuffer`: the unsigned `buff_len - rd_pos` never wraps, and a read about to
  copy has a byte to copy, whoever else was woken with it: it never returns 0 for want of
  data.
- `ImplementsPipe`: each byte accepted is delivered once, in order; a call that
  fails moves nothing. The mapping reads the channel off the buffer, and
  pending calls off `pc`.
- `CallServed`: a call, read or write, whose condition holds returns, unless
  another thread changes the buffer first.
- `BufferOwnership`: the device is never BUSY on an unmapped buffer, and the
  CPU touches it only when it is unmapped and the device idle.
- `StartAccepted`: no transfer is programmed or started on a busy device.
- `OwnCompletion`: a call that was completed was completed by its own transfer.
- `InterruptNotLost`: the interrupt of a finished transfer is always
  somewhere between the device and the completion.
- `NoUseAfterFree`: nobody uses buffers, registers or structure once freed, and
  the structure is freed exactly when the driver and all files are gone.
- `DataMoved`: a successful call moved all the bytes it reports.
- `CallReturns`, `RemoveEnds`: every call returns; remove ends with files open.
- `CountedOnce`, `EventCounted`: each 0-to-1 change of an event bit is counted
  exactly once, and in the end, while the driver is bound.
- `NotSwallowed`: a set bit always has an interrupt or a handler to clear it.
- `QuietRemove`: the device is silent before its handlers go.
- `Conserved` (30): every transmit buffer is in its pool, in a queue or with one
  thread, and every skb is freed once, whichever handler takes `tx_skb`.
- `PassedInOrder` (30): no frame goes up twice; with NAPI they go up in order. Without it
  two handlers may overtake each other, and no order is claimed.
- `FrameHasTaker` (30): a frame queued at a running device has a handler or a poll
  coming for it, although one status bit stands for any number of frames and the poll
  enables interrupts again after it looked.
- `WakeComing` (30): a queue is stopped with buffers free only while somebody is on
  the way to wake it.
- `NoUseAfterFree` (30, 21): no thread, handler, poll or completion uses a device that
  was freed.
- `PollsOnlyOpen` (21): the tick URB is with the host controller for open files only.
- `ReadCurrent` (21): a read returns a time at least as new as the last tick it counts
  as seen, although it samples the count before it waits for the mutex.
- `ReaderWoken`, `DisconnectEnds` (21): a sleeper with a tick to see, or whose device is
  gone, wakes up; disconnect returns with files open.
- `BytesTaken` (15 to 19): each byte received is taken once, in order. The bytes that the
  probe of 19 drops are not counted: the history begins at its end.
- `ByteNotStuck` (18, 19): with the interrupt enabled a waiting byte has a pulse or the
  handler coming, although the line has edges only.
- `InterruptOwned` (18, 19): the device can interrupt only while a handler or the probe
  is there, and the handler runs only while the module holds registers and line.
- `PictureWhole` (15 to 17): a picture read from the matrix is not mixed from two writes.
- `PanelFollows` (ldd-io): a viewer sees the registers, or the latest state is on its way.
- `PagesHeld`, `ScatterExact` (28): the device works on pinned and mapped pages only,
  after a time-out too; a call moves the bytes it reports, each to its place, and no
  other byte changes.
- `TimerOff`, `LinesAsWritten` (31): no timer is left for a closed port; what is printed
  depends on the text alone, not on how it was cut into writes. The reference is
  `LinesOf`, which reads the lines off the whole text.
- `SleeperWoken`, `OutputOwned` (13, 14): a reader of a complete buffer is woken; a timer
  or work item belongs to a read in progress, and a read shows its own lines, all of them.
- `RingExact` (25): the ring is a queue, and each request is answered once.
- `FlagServed` (10): nobody sleeps on with the flag set, one call at most gets past each
  setting of it, and the timer goes before the structure.

## 5. What is proved

Every safety invariant of section 3 except three is proved for every value of the
constants, and so is the refinement of `PipeSpec`. Each theorem has the form
`Spec => []Property`, from an inductive invariant that the initial states satisfy and
every action preserves, one lemma per action or group of actions. The bounds that
keep TLC finite (numbers of calls, loads, ticks, frames) are arbitrary naturals in
the proofs, and the threads, files and values arbitrary sets. Finite sets are
assumed only where the code counts them (`Threads` of 27, `Files` of 21, `TtyFiles` of 31).

**Pipes** (`BufferProofs`): `WakeupsReach`, `PositionsKept`, `OneHolder`, for both drivers.
`NoLostWakeup` is not inductive: a wake-up reaches only threads on a queue, and must be
owed to a change that happened. `IInv` adds that the mutex belongs to the one thread
between taking and giving it back (`Holder`), that a thread at its wake-up has just
made the other side's condition true (`WakeHasCause`), that a thread at the copy has
its condition (`CopyAllowed`), and that a sleeper is queued (`AsleepIsQueued`).
`AdvancedRefines` and `SimpleRefines` show that each driver implements `PipeSpec`: each
step maps to a read, a write or a stutter of the abstract channel.

**27_dma** (`DmaProofs`): `BufferSafe`, `StartsAccepted`, `CompletionsOwn`,
`InterruptsKept`, `BytesMoved`, `Lifetime`. All assume that on an INTx line no DMA bit
was left set by an earlier driver
(`"INTX" \in Modes => Leftover["INTX"] \cap DMA_BITS = {}`); section 6 shows that
`BufferOwnership` fails without it. `Where` is the place of the mutex's holder, and
everything the device and the handler can do is related to it. The part that makes the
invariant inductive is `Progress`: while a transfer is waited for, it is BUSY with
nothing pending, or its interrupt is `Pending`, `Handled` or `Completed`, one stage
after another; `IrqIdle` says that outside a transfer the interrupt path is empty, which
is what the reset, `synchronize_irq` and unmask of the time-out path restore. `Data`
follows the bytes through the stages of a call: the bounce buffer holds what a write
brought, the descriptor covers it, and once `result` is OK memory and buffer agree. `Refs`
equates the two reference counts with the files and lookups in progress, by the
library's facts about cardinality.

**26_msi_interrupt, 13_jit, 14_jiq** (`EventProofs`): `EventsCountedOnce`,
`NothingSwallowed`, `RemovesQuietly`, in any mode, for any number of raises and any
stale bits. They rest on `Hands`: what a handler will clear is its own vector's and still set, and
with MSI-X a message stands for a bit that nobody is about to clear. `DeferredWake`,
`DeferredOutput`: a timer or work item that is queued or running belongs to exactly one
read, and the number of lines in the buffer follows from where both are (`ReadFits`). The
names of threads are assumed different from those of the files (`DeferNames`).

**30_netdev** (`NetdevBase`, `NetdevCounts`, `NetdevProofs`): `NothingLost`, `FramesInOrder`,
`FramesTaken`, `QueuesWoken`, with and without NAPI, for any pool, budget and
number of frames. `Base` has the types, what each thread holds at each place, which
device runs, and whose interrupt is raised. On it rest the counts `Buffers` and `Skbs`
(every buffer and skb is in exactly one place), `PlainTaken` and `NapiTaken`
(somebody comes for every frame), and `Order` (frames that left the queue are older than
those in it). `FreedUnused` assumes `1 \notin RegisterFails`, that the second
registration does not fail: the run `NetdevRegister` shows that the assumption is needed.

**21_usb_skel, 31_tty** (`OpenProofs`): `FreedLast`, `PolledForFiles`, `ReadsCurrent`.
`kref` and `open_count` equal the numbers of holders (`References`), `UrbInUse` says for whom the URB may be running
at each stage of the disconnect, and `Stamped` relates the count of ticks to the times
at which they happened. `TimerStops` rests on the port's count being the number of open files.

**15 to 19 on ldd-io** (`ShortProofs`): `BytesComeThrough`, `NoByteStuck`, `LineOwned`,
`PicturesWhole`, `PanelCurrent`, for any threads and any sequence of modules loaded,
failing or not. `ShortStages` gives what a module holds at each step of `m_init` and
`m_exit` and when the device may interrupt; `ShortCalls` ties a call to the driver, its node and
the lock; `ShortReady` says that nobody acknowledges a byte before the one who is
reading it, and `ShortRows` that the rows read so far are still those of the matrix. `Follows`
strengthens `PanelFollows`: a frame being sent has its watch set, so that its end is noticed.

**25_async_io, 10_poll** (`BufferProofs`): `RingIsQueue`, for any ring size, from
the writer's place being the reader's plus the length, modulo the size; and
`SleepersServed`.

Only model-checked:

- All liveness (`CallServed`, `CallReturns`, `RemoveEnds`, `EventCounted`, `ReaderWoken`,
  `DisconnectEnds`): it needs fairness, which TLAPS does not handle.
- `LinesAsWritten` (31): `ldd_tty_printk` is a recursion over the characters of a write,
  and that it computes what `LinesOf` reads off the text needs an induction over the text.
  The library's induction theorems take an operator as a parameter, which the
  provers used here cannot instantiate.
- `ScatterExact` and `PagesHeld` (28): both depend on where the segments of a descriptor table of
  any length lie, which is a sort of their ends and a sum of their lengths; the same
  induction is needed. The protocol of 28 (time-out, reset, late interrupt)
  is that of 27, for which it is proved.

## 6. Findings

`DmaLeft`: `dma_probe` registers its handler before it clears `INT_STATUS`
(`examples/27_dma/main.c:333-338`). If the line is a shared INTx line and an
earlier driver left `DMA_DONE` set, a call of the handler on behalf of another
device reads that stale bit. If it is delayed past the first transfer's
`reinit_completion`, its `complete()` ends the wait while the device is still
BUSY, and the buffer is unmapped under it, which the comments at
`main.c:36` and `main.c:87` rule out. It needs a very late handler, and MSI is
not affected (`Dma` passes over MSI with the same stale bits). 26_msi_interrupt clears
the status first (`examples/26_msi_interrupt/main.c:245-247`).

`NetdevRegister`: `ldd_create` puts the second device in `net_devs` (441) before it
registers it. When `register_netdev()` fails, the error path (`examples/30_netdev/main.c:447-451`)
takes the device out again and frees it at once, while the first device is registered and may be up: a
transmit that had already taken its twin from `net_devs` then takes the lock of the
freed device and reads its `running`. `ldd_destroy` is written to avoid this ("Unregister
both before freeing either", 456). It needs a registration that fails while the first
device sends; the run `Netdev` lets only the first registration fail.

## 7. Abstractions

- Bytes are members of a small set. The exclusive-or of the transfer is a
  parameter, `XorByte`.
- A file's position is an argument of the call.
- `raised` and `calls` in `MsiInterrupt` are not in the code: a history
  variable and the bound on raises.
- Memory is sequentially consistent. The code's `READ_ONCE` tests are single
  reads, and the locks and completions order everything else.
- Log lines, `last_status` and the other sysfs files that only print are left
  out, as are IDs, capabilities and scratch registers.
- A frame of `Netdev` is a number; its contents, header and length and the statistics
  are left out. A frame of the panel is the registers it was drawn from. The panel's
  chardev can be watched; when it cannot, the code drops the rest of the frame.
- `ProbeOff` (19): `probe_irq_off` reports the device's line, none, or several. That
  another unused line fires alone while the device's own pulse is late is assumed not
  to happen: the driver would register its handler on that line, as its probing
  cannot tell the two apart.
- The interval of ldd-usb is left out, as its timer may fire at any moment, and so are
  the modem control bits of 31 and `ldd_tty_write_room`: a write brings a text that there
  is room for.
- `stamps`, `passed`, `sent`, `freed`, `entered`, `taken`, `before`, `aio_log`, `tty_text`, `pl_sets` and
  `pl_takes` are history variables.
- `skel_probe`, and the load of 10, 25 and 30 up to the point where others see the
  device, are one step, with their failures.

## 8. Not modelled

| Part | Why |
|---|---|
| 03, 07, 12 | sequential: each call works on its data under one lock, and what is left is position arithmetic or the replacement of a small structure |
| 06, 11 | the mechanism is the kernel's (`complete`, `fasync_helper`); the driver adds one call of it |
| 24 | pins and unpins pages under one mutex per file; 28 pins and unpins them with a device using them |
| 29 | copies between a request and memory; its concurrency is the block layer's |
| 20 | enables a device, shows it, and tries its registers once |
| 22 | a bus of the driver core: registration calls whose state is the core's |
| 23 | `mmap` of kernel memory: page tables and faults are the kernel's |
| 01, 02, 04, 05 | no state that several steps could bring into disorder |
| `ds/`, scripts | demonstrations of kernel data structures, and tooling |

Of the modelled parts, `PROJECT.json` says what is left out of each: mostly the load and
unload of modules that only register with the kernel, `llseek`, and files that only
print.
