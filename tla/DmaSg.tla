-------------------------------- MODULE DmaSg ---------------------------------
(***************************************************************************)
(* examples/28_dma_sg/main.c driving the ldd-pcie device of module         *)
(* LddPcie: transfers straight to and from the pages of a process, whose   *)
(* threads read and write /dev/dma_sg, while the device is bound and       *)
(* unbound.  The pages of the process's buffer are contiguous for it and   *)
(* scattered on the bus.  As in module Dma a position is an argument of    *)
(* the call.  What sysfs shows of the last transfer is left out.           *)
(***************************************************************************)
EXTENDS LddPcie, SequencesExt

CONSTANTS
  SgThreads,
  PAGE,      \* PAGE_SIZE
  PageTable, \* the bus page of each page of the buffer, a sequence
  Xors,      \* bound: values of the module parameter xor
  SgCalls,   \* bound: the calls, [toRam, pos, start, count]
  MaxSgCalls \* bound: how many are made

ASSUME DmaSgAssumption ==
  /\ PAGE \in Nat \ {0} /\ MAX_SEG >= PAGE \* or dma_sg_probe fails
  /\ PageTable \in Seq(Nat) /\ IsInjective(PageTable)
  /\ Xors \subseteq Byte /\ MaxSgCalls \in Nat

VARIABLES
  sg_lock,   \* dsg->lock: "free" or the thread that holds it
  sg,        \* dsg->removed, dma_done and int_status
  sg_ref,    \* references to dsg->dev and to the cdev
  sg_thr,    \* per thread: pc, its call and what it is about to return
  sg_irq,    \* dma_sg_handler: pc and its local variable status
  sg_probe,  \* probe and remove: phase and step
  held,      \* what the driver has taken and not given back
  pinned,    \* the bus pages pinned
  before,    \* history: ram when the lock was last taken
  sg_calls

sgVars == <<pcieVars, sg_lock, sg, sg_ref, sg_thr, sg_irq, sg_probe, held, pinned,
            before, sg_calls>>

ENODEV == -19
EFAULT == -14
ENOMEM == -12
EIO == -5
ETIMEDOUT == -110

SG_BITS == {"DONE", "ERROR"}
NoSgCall == [toRam |-> FALSE, pos |-> 0, start |-> 0, count |-> 0]
SgIdle(pc) == [pc |-> pc, call |-> NoSgCall, ret |-> 0]
Addresses == {p * PAGE + i : p \in ToSet(PageTable), i \in 0..(PAGE - 1)}

\* Every byte of the buffer has a value of its own, while there are enough.
SgInit ==
  /\ PcieInit({})
  /\ table = <<>> /\ window = {} /\ ram = [a \in Addresses |-> a % Cardinality(Byte)]
  /\ sg_lock = "free" /\ sg = [removed |-> FALSE, done |-> 0, stat |-> {}]
  /\ sg_ref = [dev |-> 1, cdev |-> 0]
  /\ sg_thr = [t \in SgThreads |-> SgIdle("closed")]
  /\ sg_irq = [pc |-> "idle", stat |-> {}]
  /\ sg_probe = [phase |-> "probe", step |-> 1]
  /\ held = {"dsg"} /\ pinned = {} /\ before = ram /\ sg_calls = 0

SgAt(t, pc) == sg_thr[t].pc = pc
SgGoto(t, pc) == sg_thr' = [sg_thr EXCEPT ![t].pc = pc]
SgEnd(t, pc, ret) == sg_thr' = [sg_thr EXCEPT ![t].pc = pc, ![t].ret = ret]
SgReturn(t) == sg_thr' = [sg_thr EXCEPT ![t] = SgIdle("open")]
Bound == sg_probe.phase = "bound"
Master == "master" \in held

fileVars == <<sg_ref, held, sg_probe>>

-------------------------------------------------------------------------------
(* Files.                                                                  *)

\* cdev_get by chrdev_open, and dma_sg_open, which cannot fail.
dma_sg_open(t) ==
  /\ SgAt(t, "closed") /\ Bound
  /\ sg_ref' = [dev |-> sg_ref.dev + 1, cdev |-> sg_ref.cdev + 1]
  /\ sg_thr' = [sg_thr EXCEPT ![t] = SgIdle("open")]
  /\ UNCHANGED <<pcieVars, sg_lock, sg, sg_irq, sg_probe, held, pinned, before, sg_calls>>

\* The cdev's last reference takes the one it has to the device with it.
SgCdevPut(ref) == [dev |-> IF ref.cdev = 1 THEN ref.dev - 1 ELSE ref.dev,
                   cdev |-> ref.cdev - 1]

\* The last reference to the device frees it, and the array of pages.
dma_sg_dev_release(ref) == IF ref.dev = 0 THEN held \ {"dsg", "pages"} ELSE held

dma_sg_release(t) ==
  /\ SgAt(t, "open")
  /\ sg_ref' = SgCdevPut([sg_ref EXCEPT !.dev = @ - 1])
  /\ held' = dma_sg_dev_release(sg_ref')
  /\ sg_thr' = [sg_thr EXCEPT ![t] = SgIdle("closed")]
  /\ UNCHANGED <<pcieVars, sg_lock, sg, sg_irq, sg_probe, pinned, before, sg_calls>>

-------------------------------------------------------------------------------
(* A call.                                                                 *)

Least(a, b) == IF a < b THEN a ELSE b
Offset(start) == start % PAGE
Pages(start, count) == (Offset(start) + count + PAGE - 1) \div PAGE

\* The count of a call: what is left of the memory, and no more pages than
\* descriptors.
Count(c) == Least(c.count, Least(MEM_SIZE - c.pos, MAX_DESC * PAGE - Offset(c.start)))

\* Past the end of the memory, or with nothing to move, a call ends here.
dma_sg_rw(t) ==
  /\ SgAt(t, "open") /\ sg_calls < MaxSgCalls
  /\ sg_calls' = sg_calls + 1
  /\ \E c \in SgCalls :
       sg_thr' = [sg_thr EXCEPT ![t] =
         IF c.pos >= MEM_SIZE \/ Count(c) = 0 THEN SgIdle("open")
         ELSE [pc |-> "lock", call |-> [c EXCEPT !.count = Count(c)], ret |-> 0]]
  /\ UNCHANGED <<pcieVars, sg_lock, sg, fileVars, sg_irq, pinned, before>>

\* mutex_lock_interruptible, which a signal may end, and the test of removed.
SgLock(t) ==
  /\ SgAt(t, "lock")
  /\ \/ /\ sg_lock = "free" /\ sg_lock' = t /\ before' = ram
        /\ IF sg.removed THEN SgEnd(t, "unlock", ENODEV) ELSE SgGoto(t, "map")
     \/ sg_lock # "free" /\ SgReturn(t) /\ UNCHANGED <<sg_lock, before>>
  /\ UNCHANGED <<pcieVars, sg, fileVars, sg_irq, pinned, sg_calls>>

\* The bus address of byte i of a buffer that starts at start.
Bus(start, i) == PageTable[(start + i) \div PAGE + 1] * PAGE + Offset(start + i)

\* External, sg_alloc_table_from_pages_segment and dma_map_sgtable: the buffer in
\* segments that end where the next page is not its neighbour, or would make the
\* segment too long, or anywhere else between pages; only the pages given to it.
SgTables(start, count, npages) ==
  LET n == Least(count, npages * PAGE - Offset(start))
      PageEnds == {i \in 0..(n - 1) : Offset(start + i + 1) = 0 \/ i = n - 1}
      First(ends, e) == 1 + Max({j \in ends : j < e} \cup {-1})
      Allowed(ends) ==
        /\ n - 1 \in ends
        /\ \A i \in PageEnds \ ends : Bus(start, i + 1) = Bus(start, i) + 1
        /\ \A e \in ends : e - First(ends, e) < MAX_SEG
      Segment(ends, e) == [addr |-> Bus(start, First(ends, e)),
                           len |-> e - First(ends, e) + 1, flags |-> 0]
  IN  {[k \in 1..Cardinality(ends) |->
          Segment(ends, SetToSortSeq(ends, <)[k])] :
       ends \in {s \in SUBSET PageEnds : Allowed(s)}}

\* What n pinned pages hold of the buffer.
PinnedBytes(n, c) == n * PAGE - Offset(c.start)

\* pin_user_pages_fast, which may pin some of the pages or none, the scatterlist,
\* its mapping and the descriptors.  Every failure unpins.
SgMap(t) ==
  LET c == sg_thr[t].call  n == Pages(c.start, c.count) IN
  /\ SgAt(t, "map")
  /\ \/ \E k \in 1..n :
          LET count == IF k < n THEN PinnedBytes(k, c) ELSE c.count IN
            /\ pinned' = {PageTable[c.start \div PAGE + i] : i \in 1..k}
            /\ table' \in SgTables(c.start, count, k)
            /\ window' = {Bus(c.start, i) : i \in 0..(Least(count, PinnedBytes(k, c)) - 1)}
            /\ sg_thr' = [sg_thr EXCEPT ![t].pc = "program", ![t].call.count = count]
     \/ \E err \in {EFAULT, ENOMEM} :
          SgEnd(t, "unlock", err) /\ UNCHANGED <<pinned, table, window>>
  /\ UNCHANGED <<intRegs, dmaRegs, xferRegs, mem, ram>>
  /\ UNCHANGED <<sg_lock, sg, fileVars, sg_irq, before, sg_calls>>

\* The registers: the descriptors, the position and, for a read, xor.
SgProgram(t) ==
  /\ SgAt(t, "program")
  /\ \E x \in IF sg_thr[t].call.toRam THEN Xors ELSE {xor} :
       WriteDesc(Len(table), sg_thr[t].call.pos, x)
  /\ SgGoto(t, "reinit")
  /\ UNCHANGED <<sg_lock, sg, fileVars, sg_irq, pinned, before, sg_calls>>

SgReinit(t) ==
  /\ SgAt(t, "reinit")
  /\ sg' = [sg EXCEPT !.done = 0]
  /\ SgGoto(t, "start")
  /\ UNCHANGED <<pcieVars, sg_lock, fileVars, sg_irq, pinned, before, sg_calls>>

SgStart(t) ==
  /\ SgAt(t, "start")
  /\ ldd_pcie_start(sg_thr[t].call.toRam, Master)
  /\ SgGoto(t, "wait")
  /\ UNCHANGED <<sg_lock, sg, fileVars, sg_irq, pinned, before, sg_calls>>

\* Mutant: nobody looks whether the wait timed out.
SgWaitIgnored(t) ==
  /\ SgAt(t, "wait")
  /\ sg' = [sg EXCEPT !.done = IF @ > 0 THEN @ - 1 ELSE 0]
  /\ SgGoto(t, "result")
  /\ UNCHANGED <<pcieVars, sg_lock, fileVars, sg_irq, pinned, before, sg_calls>>

\* wait_for_completion_timeout.
SgWait(t) ==
  /\ SgAt(t, "wait")
  /\ \/ sg.done > 0 /\ sg' = [sg EXCEPT !.done = @ - 1] /\ SgGoto(t, "result")
     \/ sg.done = 0 /\ SgGoto(t, "reset") /\ UNCHANGED sg
  /\ UNCHANGED <<pcieVars, sg_lock, fileVars, sg_irq, pinned, before, sg_calls>>

\* Mutant: after the timeout the device is left as it is.
SgResetNone(t) ==
  /\ SgAt(t, "reset")
  /\ SgGoto(t, "sync")
  /\ UNCHANGED <<pcieVars, sg_lock, sg, fileVars, sg_irq, pinned, before, sg_calls>>

SgReset(t) ==
  /\ SgAt(t, "reset")
  /\ ldd_pcie_reset
  /\ SgGoto(t, "sync")
  /\ UNCHANGED <<sg_lock, sg, fileVars, sg_irq, pinned, before, sg_calls>>

SgSync(t) ==
  /\ SgAt(t, "sync") /\ sg_irq.pc = "idle"
  /\ SgGoto(t, "unmask")
  /\ UNCHANGED <<pcieVars, sg_lock, sg, fileVars, sg_irq, pinned, before, sg_calls>>

SgUnmask(t) ==
  /\ SgAt(t, "unmask")
  /\ WriteIntMask(SG_BITS)
  /\ SgEnd(t, "unmap", ETIMEDOUT)
  /\ UNCHANGED <<dmaRegs, xferRegs, mem, guest, sg_lock, sg, fileVars, sg_irq, pinned,
                 before, sg_calls>>

SgResult(t) ==
  /\ SgAt(t, "result")
  /\ SgEnd(t, "unmap", IF "ERROR" \in sg.stat THEN EIO ELSE sg_thr[t].call.count)
  /\ UNCHANGED <<pcieVars, sg_lock, sg, fileVars, sg_irq, pinned, before, sg_calls>>

\* dma_unmap_sgtable, sg_free_table and unpin_user_pages.
SgUnmap(t) ==
  /\ SgAt(t, "unmap")
  /\ window' = {} /\ pinned' = {}
  /\ SgGoto(t, "unlock")
  /\ UNCHANGED <<intRegs, dmaRegs, xferRegs, mem, table, ram>>
  /\ UNCHANGED <<sg_lock, sg, fileVars, sg_irq, before, sg_calls>>

SgUnlock(t) ==
  /\ SgAt(t, "unlock")
  /\ sg_lock' = "free"
  /\ SgReturn(t)
  /\ UNCHANGED <<pcieVars, sg, fileVars, sg_irq, pinned, before, sg_calls>>

dma_sg_run(t) ==
  \/ SgProgram(t) \/ SgReinit(t) \/ SgStart(t) \/ SgWait(t)
  \/ SgReset(t) \/ SgSync(t) \/ SgUnmask(t) \/ SgResult(t)

dma_sg_xfer(t) == SgMap(t) \/ dma_sg_run(t) \/ SgUnmap(t)

-------------------------------------------------------------------------------
(* dma_sg_handler, one instance of which runs at a time.                   *)

\* A message, or the line asserted by this device or by another on it.
SgInterrupt ==
  /\ sg_irq.pc = "idle" /\ "irq" \in held
  /\ \/ TakeInterrupt(0) /\ UNCHANGED <<dmaRegs, xferRegs, mem, guest>>
     \/ mode = "INTX" /\ UNCHANGED pcieVars
  /\ sg_irq' = [sg_irq EXCEPT !.pc = "read"]
  /\ UNCHANGED <<sg_lock, sg, fileVars, sg_thr, pinned, before, sg_calls>>

dma_sg_handler ==
  /\ \/ /\ sg_irq.pc = "read"
        /\ LET stat == int_status \cap SG_BITS IN
             sg_irq' = [pc |-> IF stat = {} THEN "idle" ELSE "ack", stat |-> stat]
        /\ UNCHANGED <<pcieVars, sg>>
     \/ /\ sg_irq.pc = "ack"
        /\ WriteIntStatus(sg_irq.stat)
        /\ sg_irq' = [sg_irq EXCEPT !.pc = "store"]
        /\ UNCHANGED <<dmaRegs, xferRegs, mem, guest, sg>>
     \/ /\ sg_irq.pc = "store"
        /\ sg' = [sg EXCEPT !.stat = sg_irq.stat]
        /\ sg_irq' = [sg_irq EXCEPT !.pc = "complete"]
        /\ UNCHANGED pcieVars
     \/ /\ sg_irq.pc = "complete"
        /\ sg' = [sg EXCEPT !.done = @ + 1]
        /\ sg_irq' = [pc |-> "idle", stat |-> {}]
        /\ UNCHANGED pcieVars
  /\ UNCHANGED <<sg_lock, fileVars, sg_thr, pinned, before, sg_calls>>

-------------------------------------------------------------------------------
(* Probe and remove: what is taken in this order, and given back in that.  *)

\* Nobody else uses the device before the handler is there, so that what comes
\* before it is one step.
SgTakes == <<"enable", "regions", "iomap", "master", "coherent", "pages", "vectors">>
SgSteps == <<"take", "irq", "ack", "unmask", "cdev">>
SgUndoSteps == <<"vectors", "coherent", "master", "iomap", "regions", "enable">>

SgPhase(p) == sg_probe' = [sg_probe EXCEPT !.phase = p]

\* A failure undoes what has been done so far.
dma_sg_probe ==
  LET s == SgSteps[sg_probe.step] IN
  /\ sg_probe.phase = "probe"
  /\ \/ /\ s \notin {"ack", "unmask"}
        /\ \E n \in 0..(IF s = "take" THEN Len(SgTakes) - 1 ELSE 0) :
             held' = held \cup ToSet(SubSeq(SgTakes, 1, n))
        /\ SgPhase("undo")
        /\ UNCHANGED <<pcieVars, sg_ref>>
     \/ /\ sg_probe' = IF s = "cdev" THEN [phase |-> "bound", step |-> 0]
                                     ELSE [sg_probe EXCEPT !.step = @ + 1]
        /\ held' = held \cup IF s = "take" THEN ToSet(SgTakes) ELSE {s} \cap {"irq", "cdev"}
        /\ sg_ref' = IF s = "cdev" THEN [dev |-> sg_ref.dev + 1, cdev |-> 1] ELSE sg_ref
        /\ CASE s = "ack" -> WriteIntStatus(SG_BITS)
             [] s = "unmask" -> WriteIntMask(SG_BITS)
             [] OTHER -> UNCHANGED intRegs
        /\ UNCHANGED <<dmaRegs, xferRegs, mem, guest>>
  /\ UNCHANGED <<sg_lock, sg, sg_thr, sg_irq, pinned, before, sg_calls>>

\* cdev_device_del, and removed set once a transfer in progress has ended.
dma_sg_remove ==
  /\ \/ /\ Bound
        /\ sg_ref' = SgCdevPut(sg_ref) /\ held' = held \ {"cdev"}
        /\ SgPhase("removing")
        /\ UNCHANGED sg
     \/ /\ sg_probe.phase = "removing" /\ sg_lock = "free"
        /\ sg' = [sg EXCEPT !.removed = TRUE]
        /\ SgPhase("undo")
        /\ UNCHANGED <<sg_ref, held>>
  /\ UNCHANGED <<pcieVars, sg_lock, sg_thr, sg_irq, pinned, before, sg_calls>>

\* The rest of dma_sg_remove, and the error path of dma_sg_probe.  free_irq waits
\* for a handler that is running.
SgUndo ==
  /\ \/ /\ sg_probe.phase = "undo" /\ "irq" \in held
        /\ WriteIntMask({})
        /\ SgPhase("masked")
        /\ UNCHANGED <<dmaRegs, xferRegs, mem, guest, sg_ref, held>>
     \/ /\ sg_probe.phase = "masked" /\ sg_irq.pc = "idle"
        /\ held' = held \ {"irq"}
        /\ SgPhase("undo")
        /\ UNCHANGED <<pcieVars, sg_ref>>
     \/ /\ sg_probe.phase = "undo" /\ "irq" \notin held
        /\ \E i \in DOMAIN SgUndoSteps :
             /\ SgUndoSteps[i] \in held
             /\ \A j \in 1..(i - 1) : SgUndoSteps[j] \notin held
             /\ held' = held \ {SgUndoSteps[i]}
             /\ table' = IF SgUndoSteps[i] = "coherent" THEN <<>> ELSE table
        /\ UNCHANGED <<intRegs, dmaRegs, xferRegs, mem, ram, window, sg_ref, sg_probe>>
     \/ /\ sg_probe.phase = "undo" /\ held \cap ({"irq"} \cup ToSet(SgUndoSteps)) = {}
        /\ sg_ref' = [sg_ref EXCEPT !.dev = @ - 1]
        /\ held' = dma_sg_dev_release(sg_ref')
        /\ SgPhase("gone")
        /\ UNCHANGED pcieVars
  /\ UNCHANGED <<sg_lock, sg, sg_thr, sg_irq, pinned, before, sg_calls>>

SgComplete ==
  /\ ldd_pcie_complete
  /\ UNCHANGED <<sg_lock, sg, sg_ref, sg_thr, sg_irq, sg_probe, held, pinned, before, sg_calls>>

\* The driver is gone and every file closed.
SgFinished ==
  /\ sg_probe.phase = "gone" /\ \A t \in SgThreads : SgAt(t, "closed")
  /\ UNCHANGED sgVars

SgNext ==
  \/ \E t \in SgThreads : \/ dma_sg_open(t) \/ dma_sg_release(t) \/ dma_sg_rw(t)
                          \/ SgLock(t) \/ dma_sg_xfer(t) \/ SgUnlock(t)
  \/ SgInterrupt \/ dma_sg_handler \/ SgComplete
  \/ dma_sg_probe \/ dma_sg_remove \/ SgUndo \/ SgFinished

-------------------------------------------------------------------------------
\* While the device is BUSY the pages it moves data to or from are mapped for it
\* and pinned, whatever became of the call that started it, and its descriptors
\* and its bus mastering are there; registers are accessed only while they are
\* mapped; and the structure goes with the last of the driver and its files, when
\* all else has been given back.
PagesHeld ==
  /\ status = "BUSY" =>
       /\ {"coherent", "master", "irq"} \subseteq held
       /\ window # {}
       /\ \A a \in window : a \div PAGE \in pinned
       /\ \A i \in DOMAIN table : table[i].addr..(table[i].addr + table[i].len - 1) \subseteq window
  /\ sg_irq.pc # "idle" \/ (\E t \in SgThreads : sg_thr[t].pc \notin
                              {"closed", "open", "lock", "unlock"}) => "iomap" \in held
  /\ "dsg" \notin held <=> /\ sg_probe.phase = "gone"
                           /\ \A t \in SgThreads : SgAt(t, "closed")
  /\ sg_probe.phase = "gone" => held \subseteq {"dsg", "pages"}

\* A call that is about to return a count has moved that many bytes, each between
\* its place in the buffer, wherever its page is, and its place in the on-board
\* memory; no call, not even one that fails, touches a byte outside its buffer.
ScatterExact ==
  \A t \in SgThreads : SgAt(t, "unlock") =>
    LET c == sg_thr[t].call IN
    /\ \A i \in 0..(sg_thr[t].ret - 1) :
         ram[Bus(c.start, i)] = IF c.toRam THEN XorByte(mem[c.pos + i], xor)
                                           ELSE mem[c.pos + i]
    /\ \A a \in DOMAIN ram :
         ram[a] # before[a] => c.toRam /\ \E i \in 0..(c.count - 1) : a = Bus(c.start, i)
===============================================================================
