----------------------------- MODULE DmaProofs -----------------------------
(***************************************************************************)
(* The inductive invariant of module Dma, the proof that every step of the *)
(* threads, the handler and the device preserves it, and what follows from *)
(* it, for any number of threads and any memory.                           *)
(***************************************************************************)
EXTENDS Dma, FiniteSetTheorems, TLAPS

\* The variables that control the driver and the device's side of the
\* protocol; XFER_BYTES, ERR_DESC and the memories have no part in it.
ControlTypeOK ==
    /\ status \in {"NONE", "BUSY", "DONE", "ERROR"}
    /\ int_status \subseteq INT_ALL
    /\ int_mask \subseteq INT_ALL
    /\ timer \in BOOLEAN
    /\ result \in Result
    /\ line \in BOOLEAN
    /\ lock \in Threads \cup {None}
    /\ removed \in BOOLEAN
    /\ dma_done \in 0..1
    /\ pc \in [Threads -> PC]
    /\ call \in [Threads -> [toRam : BOOLEAN, pos : 0..MEM_SIZE, count : 0..CHUNK]]
    /\ ret \in [Threads -> Ret]
    /\ hpc \in {"idle", "read", "ack", "store", "complete"}
    /\ rpc \in RPC

\* The mutex is held exactly by the thread between taking and giving it back.
Holder == \A t \in Threads : pc[t] \in Locked <=> lock = t

\* A file is open only from the time the driver is bound, and a call that
\* got past its early returns has something to move.
Users ==
    \A t \in Threads :
        /\ pc[t] # "closed" => rpc \in {"bound", "removed"} \/ removed
        /\ pc[t] \in Locked \cup {"lock"} => call[t].count > 0

\* Where the holder of the mutex is.  What follows relates the device and
\* the handler to it.
Where == IF lock = None THEN "none" ELSE pc[lock]

\* The hardware is used only while the driver is bound, or dma_remove waits.
HardwareBound ==
    /\ Where \notin {"none", "unlock"} => ~removed /\ rpc \in {"bound", "removed"}
    /\ removed => rpc \in {"mask", "free_irq", "free", "put", "gone"}

\* The timer runs while the device is BUSY, and what the device has
\* signalled is what is pending.
Signalled ==
    /\ timer <=> status = "BUSY"
    /\ status = "DONE" => result = "OK"
    /\ irq_sent = int_status \cap int_mask
    /\ mode = "INTX" => (line <=> irq_sent # {})

\* The buffer is mapped exactly during dma_xfer.
Mapped == window # {} <=> Where \in Transferring

\* Interrupts are unmasked from probe on, but for the moment after a reset.
Unmasked ==
    /\ rpc \in {"request_irq", "ack", "unmask"} => int_mask = {}
    /\ Where \in {"sync", "unmask"} => int_mask = {} /\ int_status \cap DMA_BITS = {}
    /\ rpc \in {"add", "bound", "removed"} /\ Where \notin {"sync", "unmask"} =>
            int_mask = DMA_BITS

\* No interrupt of a transfer is pending or being handled.
Quiet == int_status \cap DMA_BITS = {} /\ hpc \in {"idle", "read"}

\* The stages from the end of a transfer to the completion: the interrupt
\* pending, acknowledged, recorded, and the completion done.
Pending ==
    /\ int_status \cap DMA_BITS = {status}
    /\ dma_done = 0
    /\ \/ hpc = "idle" /\ (msgs # {} \/ line)
       \/ hpc = "read"
       \/ hpc = "ack" /\ hstat = {status}

Handled ==
    /\ int_status \cap DMA_BITS = {}
    /\ dma_done = 0
    /\ hpc \in {"store", "complete"}
    /\ hstat = {status}
    /\ hpc = "complete" => dstat = {status}

Completed == Quiet /\ dma_done = 1 /\ dstat = {status}

\* A transfer that is waited for, or about to be given up, is under way or
\* at one of these stages; no other transfer is under way.
Progress ==
    /\ Where \in {"wait", "reset"} =>
        \/ status = "BUSY" /\ Quiet /\ dma_done = 0
        \/ status \in DMA_BITS /\ (Pending \/ Handled \/ Completed)
    /\ status = "BUSY" => Where \in {"wait", "reset"}
    /\ Where = "start" => dma_done = 0
    /\ hpc \in {"ack", "store", "complete"} => dma_done = 0
    /\ Where = "result" => status \in DMA_BITS /\ dstat = {status}

\* The handler when no transfer is in flight.
IrqIdle ==
    /\ rpc \in {"request_irq", "free", "put", "gone"} => hpc = "idle"
    /\ rpc \in {"request_irq", "ack"} =>
        /\ msgs = {}
        /\ hpc \in {"idle", "read"}
        /\ int_status \cap DMA_BITS # {} => mode # "INTX" /\ hpc = "idle"
    /\ rpc \in {"unmask", "add", "bound", "removed", "mask", "free_irq"} =>
        Quiet \/ Where \in {"wait", "reset", "sync"}

Protocol ==
    HardwareBound /\ Signalled /\ Mapped /\ Unmasked /\ Progress /\ IrqIdle

IInv == ControlTypeOK /\ Holder /\ Users /\ Protocol

-----------------------------------------------------------------------------
\* What an update of the two interrupt registers does to the rest.
LEMMA UpdateIrq ==
    ASSUME NEW ns, NEW nm, ldd_pcie_update_irq(ns, nm)
    PROVE  /\ int_status' = ns /\ int_mask' = nm /\ irq_sent' = ns \cap nm
           /\ mode' = mode
           /\ line' \in BOOLEAN
           /\ mode = "INTX" => (line' <=> irq_sent' # {}) /\ msgs' = msgs
           /\ mode # "INTX" => /\ msgs \subseteq msgs'
                               /\ (ns \cap nm) \ irq_sent # {} => msgs' # {}
                               /\ (ns \cap nm) \ irq_sent = {} => msgs' = msgs
<1> DEFINE pending == ns \cap nm
           new == pending \ irq_sent
<1>1. int_status' = ns /\ int_mask' = nm /\ irq_sent' = ns \cap nm /\ mode' = mode
      BY Zenon DEF ldd_pcie_update_irq
<1>2. CASE mode = "INTX"
      BY <1>1, <1>2, ZenonT(30) DEF ldd_pcie_update_irq
<1>3. CASE mode # "INTX"
  <2>1. line' = FALSE /\ msgs' = msgs \cup {Vector(b) : b \in new}
        BY <1>3, Zenon DEF ldd_pcie_update_irq
  <2>2. new # {} => msgs' # {}
        BY <2>1, Zenon
  <2>3. new = {} => msgs' = msgs
        BY <2>1, Zenon
  <2> QED BY <1>1, <1>3, <2>1, <2>2, <2>3, ZenonT(30)
<1> QED BY <1>2, <1>3, Zenon

\* How a step of thread t moves the holder of the mutex.
LEMMA WhereMoves ==
    ASSUME ControlTypeOK, Holder, NEW t \in Threads, NEW l \in PC,
           pc' = [pc EXCEPT ![t] = l]
    PROVE  /\ pc[t] \in Locked /\ l \in Locked /\ lock' = lock =>
                Where = pc[t] /\ Where' = l /\ Holder'
           /\ pc[t] \notin Locked /\ l \notin Locked /\ lock' = lock =>
                Where' = Where /\ Holder'
           /\ pc[t] \notin Locked /\ l \in Locked /\ lock = None /\ lock' = t =>
                Where = "none" /\ Where' = l /\ Holder'
           /\ pc[t] \in Locked /\ l \notin Locked /\ lock' = None =>
                Where = pc[t] /\ Where' = "none" /\ Holder'
BY DmaAssumption DEF ControlTypeOK, Holder, Where

\* A step that leaves the device, the handler and the holder where they are.
LEMMA Frame ==
    ASSUME Protocol, Where' = Where,
           UNCHANGED <<intRegs, status, result, timer, window>>,
           UNCHANGED <<removed, dma_done, dstat, hpc, hstat, rpc>>
    PROVE  Protocol'
BY DEF Protocol, HardwareBound, Signalled, Mapped, Unmasked, Quiet, Pending,
       Handled, Completed, Progress, IrqIdle, intRegs

\* A step of a thread that neither holds nor takes the mutex.
LEMMA OutsideStep ==
    ASSUME IInv, NEW t \in Threads, NEW l \in PC \ Locked,
           pc[t] \notin Locked,
           pc' = [pc EXCEPT ![t] = l],
           pc[t] = "closed" => rpc = "bound",
           call' \in [Threads -> [toRam : BOOLEAN, pos : 0..MEM_SIZE, count : 0..CHUNK]],
           ret' \in [Threads -> Ret],
           l = "lock" => call'[t].count > 0,
           \A u \in Threads \ {t} : call'[u] = call[u],
           UNCHANGED <<pcieVars, lock, devVars, irqVars, rpc>>
    PROVE  IInv'
<1> USE DEF IInv, pcieVars, xferRegs, devVars, irqVars, guest
<1>1. Where' = Where /\ Holder'
      BY WhereMoves, ZenonT(30)
<1>2. ControlTypeOK'
      BY ZenonT(30) DEF ControlTypeOK, intRegs
<1>3. Users'
      BY Zenon DEF Users, ControlTypeOK
<1>4. Protocol'
      BY <1>1, Frame, Zenon
<1> QED BY <1>1, <1>2, <1>3, <1>4, Zenon

\* Opening and closing files, and entering and leaving the driver.
LEMMA FileSteps ==
    ASSUME IInv, NEW t \in Threads, File(t) \/ Call(t) \/ Interrupted(t)
    PROVE  IInv'
<1> USE DEF Goto, Locked, Transferring, PC
<1>1. /\ call \in [Threads -> [toRam : BOOLEAN, pos : 0..MEM_SIZE, count : 0..CHUNK]]
      /\ ret \in [Threads -> Ret]
      BY Zenon DEF IInv, ControlTypeOK
<1>2. CASE Lookup(t)
      BY <1>1, <1>2, OutsideStep, ZenonT(30) DEF Lookup
<1>3. CASE dma_open(t)
      BY <1>1, <1>3, OutsideStep, ZenonT(30) DEF dma_open
<1>4. CASE Close(t)
      BY <1>1, <1>4, OutsideStep, ZenonT(30) DEF Close
<1>5. CASE dma_release(t)
      BY <1>1, <1>5, OutsideStep, ZenonT(30) DEF dma_release
<1>6. CASE Closed(t)
      BY <1>1, <1>6, OutsideStep, ZenonT(30) DEF Closed
<1>7. CASE Call(t)
  <2>1. PICK toRam \in BOOLEAN, pos \in 0..MEM_SIZE, count \in 0..CHUNK + 1 :
            /\ Count(pos, count) > 0
            /\ call' = [call EXCEPT ![t] = [toRam |-> toRam, pos |-> pos,
                                            count |-> Count(pos, count)]]
        BY <1>7, ZenonT(30) DEF Call
  <2>2. Count(pos, count) \in 0..CHUNK
        BY DmaAssumption, PcieAssumption, IrqAssumption DEF Count
  <2> HIDE DEF Count
  <2>3. /\ call' \in [Threads -> [toRam : BOOLEAN, pos : 0..MEM_SIZE, count : 0..CHUNK]]
        /\ call'[t].count > 0
        /\ \A u \in Threads \ {t} : call'[u] = call[u]
        BY <1>1, <2>1, <2>2, Zenon
  <2> QED BY <1>1, <1>7, <2>3, OutsideStep, ZenonT(30) DEF Call
<1>8. CASE Interrupted(t)
  <2>1. /\ call' \in [Threads -> [toRam : BOOLEAN, pos : 0..MEM_SIZE, count : 0..CHUNK]]
        /\ ret' \in [Threads -> Ret]
        /\ \A u \in Threads \ {t} : call'[u] = call[u]
        BY <1>1, <1>8, DmaAssumption, PcieAssumption, IrqAssumption
        DEF Interrupted, Return, NoCall, Ret
  <2> QED BY <1>8, <2>1, OutsideStep, ZenonT(30) DEF Interrupted, Return
<1> QED BY <1>2, <1>3, <1>4, <1>5, <1>6, <1>7, <1>8, Zenon DEF File

\* The types and the mutex in a step taken while holding it.
LEMMA HolderStep ==
    ASSUME IInv, NEW t \in Threads, NEW l \in Locked,
           pc[t] \in Locked,
           pc' = [pc EXCEPT ![t] = l],
           UNCHANGED <<lock, call, rpc, removed, hpc>>,
           ret' \in [Threads -> Ret],
           (/\ status \in {"NONE", "BUSY", "DONE", "ERROR"}
            /\ int_status \subseteq INT_ALL
            /\ int_mask \subseteq INT_ALL
            /\ timer \in BOOLEAN
            /\ result \in Result
            /\ line \in BOOLEAN
            /\ dma_done \in 0..1)'
    PROVE  Where = pc[t] /\ Where' = l /\ ControlTypeOK' /\ Holder' /\ Users'
<1> USE DEF IInv
<1>1. l \in PC
      BY Zenon DEF PC
<1>2. Where = pc[t] /\ Where' = l /\ Holder'
      BY <1>1, WhereMoves, ZenonT(30)
<1>3. ControlTypeOK'
      BY <1>1, ZenonT(30) DEF ControlTypeOK
<1>4. Users'
      BY Zenon DEF Users, ControlTypeOK, Locked, Transferring
<1> QED BY <1>2, <1>3, <1>4, Zenon

\* A transfer ends with one of the error codes, or OK.
LEMMA TransferResult ==
    ASSUME NEW toRam, NEW master, ldd_pcie_transfer(toRam, master)
    PROVE  result' \in Result
BY Zenon DEF ldd_pcie_transfer, Report, Result

\* The steps of dma_read, dma_write and dma_xfer under the mutex.
LEMMA MutexSteps ==
    ASSUME IInv, NEW t \in Threads,
           Fill(t) \/ dma_xfer(t) \/ Copy(t)
    PROVE  IInv'
<1> USE DEF Goto, pcieVars, intRegs, dmaRegs, xferRegs, guest, devVars, refVars, irqVars
<1>0. /\ ControlTypeOK /\ Holder /\ Users /\ Protocol
      /\ ret \in [Threads -> Ret] /\ lock \in Threads \cup {None}
      /\ dma_done \in 0..1
      BY Zenon DEF IInv, ControlTypeOK
<1>1. CASE Fill(t)
  <2>1. PICK l \in {"map", "unlock"} :
            /\ pc[t] = "fill" /\ pc' = [pc EXCEPT ![t] = l]
            /\ ret' \in [Threads -> Ret]
            /\ UNCHANGED <<intRegs, status, timer, result, window, dma_done>>
            /\ UNCHANGED <<lock, call, rpc, removed, hpc, hstat, dstat>>
        BY <1>0, <1>1, Zenon DEF Fill, Ret
  <2>l. l \in Locked /\ pc[t] \in Locked
        BY <2>1, Zenon DEF Locked, Transferring
  <2>2. Where = "fill" /\ Where' = l /\ ControlTypeOK' /\ Holder' /\ Users'
        BY <1>0, <2>1, <2>l, HolderStep, ZenonT(40) DEF ControlTypeOK
  <2>3. Protocol'
    <3>1. (HardwareBound /\ Signalled /\ Mapped /\ Unmasked)'
          BY <1>0, <2>1, <2>2, ZenonT(40)
          DEF Protocol, HardwareBound, Signalled, Mapped, Unmasked, Transferring
    <3>2. (Progress /\ IrqIdle)'
          BY <1>0, <2>1, <2>2
          DEF Protocol, Progress, IrqIdle, Quiet, Pending, Handled, Completed
    <3> QED BY <3>1, <3>2, Zenon DEF Protocol
  <2> QED BY <2>2, <2>3, Zenon DEF IInv
<1>2. CASE Map(t)
  <2>0. 0 \in 0..call[t].count - 1
        BY <1>0, <1>2, SMTT(30) DEF Map, Users, Locked, ControlTypeOK
  <2>1. PICK l \in {"program", "unlock"} :
            /\ pc[t] = "map" /\ pc' = [pc EXCEPT ![t] = l]
            /\ ret' \in [Threads -> Ret]
            /\ window' = IF l = "program" THEN 0..call[t].count - 1 ELSE window
            /\ UNCHANGED <<intRegs, status, timer, result, dma_done>>
            /\ UNCHANGED <<lock, call, rpc, removed, hpc, hstat, dstat>>
        BY <1>0, <1>2, Zenon DEF Map, Ret
  <2>l. l \in Locked /\ pc[t] \in Locked
        BY <2>1, Zenon DEF Locked, Transferring
  <2>2. Where = "map" /\ Where' = l /\ ControlTypeOK' /\ Holder' /\ Users'
        BY <1>0, <2>1, <2>l, HolderStep, ZenonT(40) DEF ControlTypeOK
  <2>3. Protocol'
        BY <1>0, <2>1, <2>2, <2>0
        DEF Protocol, HardwareBound, Signalled, Mapped, Unmasked, Progress, IrqIdle,
             Quiet, Pending, Handled, Completed, Transferring
  <2> QED BY <2>2, <2>3, Zenon DEF IInv
<1>3. CASE Program(t)
  <2>1. /\ pc[t] = "program" /\ pc' = [pc EXCEPT ![t] = "reinit"]
        /\ ret' \in [Threads -> Ret]
        /\ UNCHANGED <<intRegs, status, timer, result, window, dma_done>>
        /\ UNCHANGED <<lock, call, rpc, removed, hpc, hstat, dstat>>
        BY <1>0, <1>3, Zenon DEF Program, WriteDesc
  <2>2. Where = "program" /\ Where' = "reinit" /\ ControlTypeOK' /\ Holder' /\ Users'
        BY <1>0, <2>1, HolderStep, ZenonT(40) DEF ControlTypeOK, Locked, Transferring
  <2>3. Protocol'
        BY <1>0, <2>1, <2>2, Zenon
        DEF Protocol, HardwareBound, Signalled, Mapped, Unmasked, Progress, IrqIdle,
             Quiet, Pending, Handled, Completed, Transferring
  <2> QED BY <2>2, <2>3, Zenon DEF IInv
<1>4. CASE reinit_completion(t)
  <2>1. /\ pc[t] = "reinit" /\ pc' = [pc EXCEPT ![t] = "start"]
        /\ dma_done' = 0 /\ dma_done' \in 0..1
        /\ UNCHANGED <<intRegs, status, timer, result, window, ret>>
        /\ UNCHANGED <<lock, call, rpc, removed, hpc, hstat, dstat>>
        BY <1>0, <1>4 DEF reinit_completion
  <2>2. Where = "reinit" /\ Where' = "start" /\ ControlTypeOK' /\ Holder' /\ Users'
        BY <1>0, <2>1, HolderStep, ZenonT(40) DEF ControlTypeOK, Locked, Transferring
  <2>3. Protocol'
        BY <1>0, <2>1, <2>2, Zenon
        DEF Protocol, HardwareBound, Signalled, Mapped, Unmasked, Progress, IrqIdle,
             Quiet, Pending, Handled, Completed, Transferring
  <2> QED BY <2>2, <2>3, Zenon DEF IInv
<1>5. CASE Start(t)
  <2>0. Where = "start" /\ status # "BUSY"
        BY <1>0, <1>5, DmaAssumption, Zenon
        DEF Start, Holder, Where, Locked, Transferring, Protocol, Progress
  <2>1. /\ pc[t] = "start" /\ pc' = [pc EXCEPT ![t] = "wait"]
        /\ status' = "BUSY" /\ timer' = TRUE /\ result' \in Result
        /\ UNCHANGED <<intRegs, window, ret, dma_done>>
        /\ UNCHANGED <<lock, call, rpc, removed, hpc, hstat, dstat>>
        BY <1>0, <1>5, <2>0, TransferResult, Zenon DEF Start, ldd_pcie_start
  <2>2. Where = "start" /\ Where' = "wait" /\ ControlTypeOK' /\ Holder' /\ Users'
        BY <1>0, <2>1, HolderStep, ZenonT(30) DEF ControlTypeOK, Locked, Transferring
  <2>3. Protocol'
    <3>1. (HardwareBound /\ Signalled /\ Mapped /\ Unmasked)'
          BY <1>0, <2>1, <2>2, ZenonT(40)
          DEF Protocol, HardwareBound, Signalled, Mapped, Unmasked, Transferring
    <3>2. (Progress /\ IrqIdle)'
          BY <1>0, <2>1, <2>2
          DEF Protocol, HardwareBound, Progress, IrqIdle, Quiet, Pending, Handled, Completed
    <3> QED BY <3>1, <3>2, Zenon DEF Protocol
  <2> QED BY <2>2, <2>3, Zenon DEF IInv
<1>6. CASE WaitDone(t)
  <2>1. /\ pc[t] = "wait" /\ pc' = [pc EXCEPT ![t] = "result"]
        /\ dma_done = 1 /\ dma_done' = 0 /\ dma_done' \in 0..1
        /\ UNCHANGED <<intRegs, status, timer, result, window, ret>>
        /\ UNCHANGED <<lock, call, rpc, removed, hpc, hstat, dstat>>
        BY <1>0, <1>6 DEF WaitDone
  <2>2. Where = "wait" /\ Where' = "result" /\ ControlTypeOK' /\ Holder' /\ Users'
        BY <1>0, <2>1, HolderStep, ZenonT(40) DEF ControlTypeOK, Locked, Transferring
  <2>3. status \in DMA_BITS /\ Completed
        BY <1>0, <2>1, <2>2 DEF Protocol, Progress, Pending, Handled
  <2>4. (HardwareBound /\ Signalled /\ Mapped /\ Unmasked)'
        BY <1>0, <2>1, <2>2, Zenon
        DEF Protocol, HardwareBound, Signalled, Mapped, Unmasked, Transferring
  <2>5. (Progress /\ IrqIdle)'
        BY <1>0, <2>1, <2>2, <2>3, Zenon
        DEF Protocol, Completed, Quiet, Progress, IrqIdle, DMA_BITS
  <2> QED BY <2>2, <2>4, <2>5, Zenon DEF IInv, Protocol
<1>7. CASE WaitTimeout(t)
  <2>1. Where = "wait" /\ Where' = "reset" /\ ControlTypeOK' /\ Holder' /\ Users'
        BY <1>0, <1>7, HolderStep, ZenonT(40)
        DEF WaitTimeout, ControlTypeOK, Locked, Transferring, Ret
  <2>2. Protocol'
    <3>1. (HardwareBound /\ Signalled /\ Mapped /\ Unmasked)'
          BY <1>0, <1>7, <2>1, ZenonT(40)
          DEF WaitTimeout, Protocol, HardwareBound, Signalled, Mapped, Unmasked, Transferring
    <3>2. (Progress /\ IrqIdle)'
          BY <1>0, <1>7, <2>1
          DEF WaitTimeout, Protocol, Progress, IrqIdle, Quiet, Pending, Handled, Completed
    <3> QED BY <3>1, <3>2, Zenon DEF Protocol
  <2> QED BY <2>1, <2>2, Zenon DEF IInv
<1>8. CASE Reset(t)
  <2>1. /\ pc[t] = "reset" /\ pc' = [pc EXCEPT ![t] = "sync"]
        /\ status' = "NONE" /\ timer' = FALSE /\ result' = "OK" /\ result' \in Result
        /\ int_status' = {} /\ int_mask' = {} /\ irq_sent' = {} /\ line' = FALSE
        /\ UNCHANGED <<msgs, window, ret, dma_done>>
        /\ UNCHANGED <<lock, call, rpc, removed, hpc, hstat, dstat>>
        BY <1>0, <1>8, Zenon DEF Reset, ldd_pcie_reset, Result
  <2>2. Where = "reset" /\ Where' = "sync" /\ ControlTypeOK' /\ Holder' /\ Users'
        BY <1>0, <2>1, HolderStep, ZenonT(30) DEF ControlTypeOK, Locked, Transferring
  <2>3. Protocol'
        BY <1>0, <2>1, <2>2, Zenon
        DEF Protocol, HardwareBound, Signalled, Mapped, Unmasked, Progress, IrqIdle,
             Quiet, Pending, Handled, Completed, Transferring
  <2> QED BY <2>2, <2>3, Zenon DEF IInv
<1>9. CASE synchronize_irq(t)
  <2>1. Where = "sync" /\ Where' = "unmask" /\ ControlTypeOK' /\ Holder' /\ Users'
        BY <1>0, <1>9, HolderStep, ZenonT(30)
        DEF synchronize_irq, ControlTypeOK, Locked, Transferring, Ret
  <2>2. Protocol'
        BY <1>0, <1>9, <2>1, Zenon
        DEF synchronize_irq, Protocol, HardwareBound, Signalled, Mapped, Unmasked, Progress,
            IrqIdle,
             Quiet, Pending, Handled, Completed, Transferring
  <2> QED BY <2>1, <2>2, Zenon DEF IInv
<1>10. CASE Unmask(t)
  <2>1. /\ pc[t] = "unmask" /\ pc' = [pc EXCEPT ![t] = "unmap"]
        /\ ret' \in [Threads -> Ret]
        /\ ldd_pcie_update_irq(int_status, DMA_BITS)
        /\ UNCHANGED <<status, timer, result, window, dma_done>>
        /\ UNCHANGED <<lock, call, rpc, removed, hpc, hstat, dstat>>
        BY <1>0, <1>10, Zenon DEF Unmask, WriteIntMask, Ret, DMA_BITS, INT_ALL
  <2>a. /\ int_status' = int_status /\ int_mask' = DMA_BITS
        /\ irq_sent' = int_status \cap DMA_BITS /\ line' \in BOOLEAN
        /\ int_mask' \subseteq INT_ALL
        /\ mode' = mode
        /\ mode = "INTX" => (line' <=> irq_sent' # {})
        BY <2>1, UpdateIrq DEF DMA_BITS, INT_ALL
  <2>2. Where = "unmask" /\ Where' = "unmap" /\ ControlTypeOK' /\ Holder' /\ Users'
        BY <1>0, <2>1, <2>a, HolderStep, ZenonT(30) DEF ControlTypeOK, Locked, Transferring
  <2>3. Protocol'
        BY <1>0, <2>1, <2>a, <2>2, Zenon
        DEF Protocol, HardwareBound, Signalled, Mapped, Unmasked, Progress, IrqIdle,
             Quiet, Pending, Handled, Completed, Transferring
  <2> QED BY <2>2, <2>3, Zenon DEF IInv
<1>11. CASE CheckResult(t)
  <2>1. Where = "result" /\ Where' = "unmap" /\ ControlTypeOK' /\ Holder' /\ Users'
        BY <1>0, <1>11, HolderStep, ZenonT(40)
        DEF CheckResult, ControlTypeOK, Locked, Transferring, Ret
  <2>2. Protocol'
    <3>1. (HardwareBound /\ Signalled /\ Mapped /\ Unmasked)'
          BY <1>0, <1>11, <2>1, ZenonT(40)
          DEF CheckResult, Protocol, HardwareBound, Signalled, Mapped, Unmasked, Transferring
    <3>2. (Progress /\ IrqIdle)'
          BY <1>0, <1>11, <2>1
          DEF CheckResult, Protocol, Progress, IrqIdle, Quiet, Pending, Handled, Completed
    <3> QED BY <3>1, <3>2, Zenon DEF Protocol
  <2> QED BY <2>1, <2>2, Zenon DEF IInv
<1>12. CASE Unmap(t)
  <2>1. PICK l \in {"copy", "unlock"} :
            /\ pc[t] = "unmap" /\ pc' = [pc EXCEPT ![t] = l]
            /\ window' = {}
            /\ UNCHANGED <<intRegs, status, timer, result, ret, dma_done>>
            /\ UNCHANGED <<lock, call, rpc, removed, hpc, hstat, dstat>>
        BY <1>0, <1>12, ZenonT(30) DEF Unmap
  <2>2. Where = "unmap" /\ Where' = l /\ ControlTypeOK' /\ Holder' /\ Users'
        BY <1>0, <2>1, HolderStep, ZenonT(40) DEF ControlTypeOK, Locked, Transferring
  <2>3. Protocol'
    <3>1. (HardwareBound /\ Signalled /\ Mapped /\ Unmasked)'
          BY <1>0, <2>1, <2>2, ZenonT(40)
          DEF Protocol, HardwareBound, Signalled, Mapped, Unmasked, Transferring
    <3>2. (Progress /\ IrqIdle)'
          BY <1>0, <2>1, <2>2
          DEF Protocol, Progress, IrqIdle, Quiet, Pending, Handled, Completed
    <3> QED BY <3>1, <3>2, Zenon DEF Protocol
  <2> QED BY <2>2, <2>3, Zenon DEF IInv
<1>13. CASE Copy(t)
  <2>1. /\ pc[t] = "copy" /\ pc' = [pc EXCEPT ![t] = "unlock"]
        /\ ret' \in [Threads -> Ret]
        /\ UNCHANGED <<intRegs, status, timer, result, window, dma_done>>
        /\ UNCHANGED <<lock, call, rpc, removed, hpc, hstat, dstat>>
        BY <1>0, <1>13, ZenonT(30) DEF Copy, Ret
  <2>2. Where = "copy" /\ Where' = "unlock" /\ ControlTypeOK' /\ Holder' /\ Users'
        BY <1>0, <2>1, HolderStep, ZenonT(40) DEF ControlTypeOK, Locked, Transferring
  <2>3. Protocol'
    <3>1. (HardwareBound /\ Signalled /\ Mapped /\ Unmasked)'
          BY <1>0, <2>1, <2>2, ZenonT(40)
          DEF Protocol, HardwareBound, Signalled, Mapped, Unmasked, Transferring
    <3>2. (Progress /\ IrqIdle)'
          BY <1>0, <2>1, <2>2
          DEF Protocol, Progress, IrqIdle, Quiet, Pending, Handled, Completed
    <3> QED BY <3>1, <3>2, Zenon DEF Protocol
  <2> QED BY <2>2, <2>3, Zenon DEF IInv
<1> QED BY <1>1, <1>2, <1>3, <1>4, <1>5, <1>6, <1>7, <1>8, <1>9, <1>10, <1>11, <1>12, <1>13,
           Zenon DEF dma_xfer

\* Taking and giving back the mutex.
LEMMA LockSteps ==
    ASSUME IInv, NEW t \in Threads, Lock(t) \/ Unlock(t)
    PROVE  IInv'
<1> USE DEF Goto, pcieVars, intRegs, dmaRegs, xferRegs, guest, devVars, refVars, irqVars
<1>0. ControlTypeOK /\ Holder /\ Users /\ Protocol
      BY Zenon DEF IInv
<1>1. CASE Lock(t)
  <2>1. PICK l \in {"unlock", "map", "fill"} :
            /\ pc[t] = "lock" /\ pc' = [pc EXCEPT ![t] = l]
            /\ lock = None /\ lock' = t
            /\ l # "unlock" => ~removed
            /\ ret' \in [Threads -> Ret]
            /\ UNCHANGED <<pcieVars, devVars, irqVars, call, rpc>>
        BY <1>0, <1>1, Zenon DEF Lock, Ret, ControlTypeOK
  <2>2. l \in PC /\ l \in Locked /\ pc[t] \notin Locked
        BY <2>1, Zenon DEF PC, Locked, Transferring
  <2>3. Where = "none" /\ Where' = l /\ Holder'
        BY <1>0, <2>1, <2>2, WhereMoves, ZenonT(30)
  <2>4. ControlTypeOK' /\ Users'
        BY <1>0, <2>1, <2>2 DEF ControlTypeOK, Users
  <2>a. pc[t] # "closed"
        BY <2>1, Zenon
  <2>5. l # "unlock" => rpc \in {"bound", "removed"}
        BY <1>0, <2>1, <2>a, ZenonT(30) DEF Users
  <2>6. Protocol'
        BY <1>0, <2>1, <2>3, <2>5, ZenonT(40)
        DEF Protocol, HardwareBound, Signalled, Mapped, Unmasked, Progress, IrqIdle,
            Quiet, Pending, Handled, Completed, Transferring
  <2> QED BY <2>3, <2>4, <2>6, Zenon DEF IInv
<1>2. CASE Unlock(t)
  <2>1. /\ pc[t] = "unlock" /\ pc' = [pc EXCEPT ![t] = "open"]
        /\ lock' = None
        /\ call' = [call EXCEPT ![t] = NoCall]
        /\ ret' = [ret EXCEPT ![t] = "OK"]
        /\ UNCHANGED <<pcieVars, devVars, irqVars, rpc>>
        BY <1>2, Zenon DEF Unlock, Return
  <2>2. "open" \in PC /\ "open" \notin Locked /\ pc[t] \in Locked
        BY <2>1, Zenon DEF PC, Locked, Transferring
  <2>3. Where = "unlock" /\ Where' = "none" /\ Holder'
        BY <1>0, <2>1, <2>2, DmaAssumption DEF Where, Holder, ControlTypeOK
  <2>4. ControlTypeOK'
        BY <1>0, <2>1, <2>2, DmaAssumption, PcieAssumption, IrqAssumption, SMTT(30)
        DEF ControlTypeOK, NoCall, Ret
  <2>5. Users'
        BY <1>0, <2>1, <2>2, Zenon DEF ControlTypeOK, Users, Locked, Transferring
  <2>6. Protocol'
        BY <1>0, <2>1, <2>3, ZenonT(40)
        DEF Protocol, HardwareBound, Signalled, Mapped, Unmasked, Progress, IrqIdle,
            Quiet, Pending, Handled, Completed, Transferring
  <2> QED BY <2>3, <2>4, <2>5, <2>6, Zenon DEF IInv
<1> QED BY <1>1, <1>2, Zenon

-----------------------------------------------------------------------------
(* The handler, the device and the remove path; the theorems. *)

\* A handler that has seen a bit belongs to a transfer that is waited for, or
\* that has just been given up.
LEMMA HandlerActive ==
    ASSUME IInv
    PROVE  /\ hpc \in {"ack", "store", "complete"} =>
                Where \in {"wait", "reset", "sync"} /\ dma_done = 0
           /\ hpc = "read" /\ int_status \cap DMA_BITS # {} =>
                /\ Where \in {"wait", "reset"}
                /\ status \in DMA_BITS /\ int_status \cap DMA_BITS = {status}
                /\ dma_done = 0
           /\ hpc # "idle" => rpc \notin {"request_irq", "free", "put", "gone"}
<1> USE DEF IInv, Protocol, IrqIdle
<1>1. rpc \in RPC
      BY Zenon DEF ControlTypeOK
<1>2. hpc \in {"ack", "store", "complete"} =>
            Where \in {"wait", "reset", "sync"} /\ dma_done = 0
      BY <1>1, Zenon DEF RPC, Quiet, Progress
<1>3. hpc = "read" /\ int_status \cap DMA_BITS # {} => Where \in {"wait", "reset"}
      BY <1>1, Zenon DEF RPC, Quiet, Unmasked
<1>4. hpc = "read" /\ int_status \cap DMA_BITS # {} =>
            /\ status \in DMA_BITS /\ int_status \cap DMA_BITS = {status}
            /\ dma_done = 0
      BY <1>3 DEF Progress, Pending, Handled, Completed, Quiet
<1> QED BY <1>2, <1>3, <1>4, Zenon

\* The handler, and the device's timer.
LEMMA InterruptSteps ==
    ASSUME IInv, Interrupt \/ SharedInterrupt \/ dma_handler \/ Complete
    PROVE  IInv'
<1> USE DEF pcieVars, intRegs, dmaRegs, xferRegs, guest, devVars, refVars, irqVars, callVars
<1>0. ControlTypeOK /\ Holder /\ Users /\ Protocol
      BY Zenon DEF IInv
<1>1. UNCHANGED <<lock, pc, call, ret, rpc, removed, window>>
      BY ZenonT(40) DEF Interrupt, SharedInterrupt, dma_handler, HandlerRead, HandlerAck,
         HandlerStore,
             HandlerComplete, Complete, TakeInterrupt, WriteIntStatus, ldd_pcie_complete
<1>2. Where' = Where /\ Holder' /\ Users' /\ (HardwareBound /\ Mapped)'
      BY <1>0, <1>1 DEF Where, Holder, Users, Protocol, HardwareBound, Mapped
<1>3. CASE Interrupt
  <2>1. ControlTypeOK'
        BY <1>0, <1>1, <1>3 DEF ControlTypeOK, Interrupt, TakeInterrupt, HasIrq
  <2>2. Signalled'
        BY <1>0, <1>3, Zenon DEF Protocol, Signalled, Interrupt, TakeInterrupt, HasIrq
  <2>3. Unmasked'
        BY <1>0, <1>1, <1>2, <1>3, Zenon
        DEF Protocol, Unmasked, Interrupt, TakeInterrupt, HasIrq
  <2>4. Progress'
        BY <1>0, <1>2, <1>3, Zenon
        DEF Protocol, Progress, Quiet, Pending, Handled, Completed, Interrupt, TakeInterrupt,
            HasIrq
  <2>5. IrqIdle'
        BY <1>0, <1>1, <1>2, <1>3, ZenonT(40)
        DEF Protocol, Progress, IrqIdle, Quiet, Pending, Handled, Completed, Interrupt,
            TakeInterrupt, HasIrq
  <2> QED BY <1>2, <2>1, <2>2, <2>3, <2>4, <2>5, ZenonT(40) DEF IInv, Protocol
<1>4. CASE SharedInterrupt
  <2>1. ControlTypeOK'
        BY <1>0, <1>1, <1>4, Zenon DEF ControlTypeOK, SharedInterrupt, HasIrq
  <2>2. Signalled'
        BY <1>0, <1>4, Zenon DEF Protocol, Signalled, SharedInterrupt, HasIrq
  <2>3. Unmasked'
        BY <1>0, <1>1, <1>2, <1>4, ZenonT(40) DEF Protocol, Unmasked, SharedInterrupt, HasIrq
  <2>4. Progress'
        BY <1>0, <1>2, <1>4 DEF Protocol, Progress, Quiet, Pending, Handled, Completed,
           SharedInterrupt, HasIrq
  <2>5. IrqIdle'
        BY <1>0, <1>1, <1>2, <1>4, Zenon
        DEF Protocol, Progress, IrqIdle, Quiet, Pending, Handled, Completed, SharedInterrupt,
            HasIrq
  <2> QED BY <1>2, <2>1, <2>2, <2>3, <2>4, <2>5, Zenon DEF IInv, Protocol
<1>5. CASE HandlerRead
  <2>1. /\ hpc = "read" /\ hstat' = int_status \cap DMA_BITS
        /\ hpc' = IF hstat' = {} THEN "idle" ELSE "ack"
        /\ UNCHANGED <<intRegs, xferRegs, dma_done, dstat>>
        BY <1>5, Zenon DEF HandlerRead
  <2>2. ControlTypeOK'
        BY <1>0, <1>1, <2>1, Zenon DEF ControlTypeOK
  <2>3. (Signalled /\ Unmasked)'
        BY <1>0, <1>1, <1>2, <2>1, Zenon DEF Protocol, Signalled, Unmasked
  <2>4. CASE hstat' = {}
    <3>1. Progress'
          BY <1>0, <1>2, <2>1, <2>4, Zenon
          DEF Protocol, Progress, Quiet, Pending, Handled, Completed
    <3>2. IrqIdle'
          BY <1>0, <1>1, <1>2, <2>1, <2>4, ZenonT(40) DEF Protocol, IrqIdle, Quiet
    <3> QED BY <1>2, <2>2, <2>3, <3>1, <3>2, Zenon DEF IInv, Protocol
  <2>5. CASE hstat' # {}
    <3>1. /\ Where \in {"wait", "reset"}
          /\ status \in DMA_BITS /\ int_status \cap DMA_BITS = {status}
          /\ dma_done = 0
          /\ rpc \notin {"request_irq", "ack", "free", "put", "gone"}
          BY <1>0, <2>1, <2>5, HandlerActive, ZenonT(40) DEF Protocol, IrqIdle
    <3>2. Progress'
          BY <1>0, <1>2, <2>1, <2>5, <3>1 DEF Protocol, Progress, Pending
    <3>3. IrqIdle'
          BY <1>0, <1>1, <1>2, <2>1, <3>1, ZenonT(40) DEF IrqIdle
    <3> QED BY <1>2, <2>2, <2>3, <3>2, <3>3, Zenon DEF IInv, Protocol
  <2> QED BY <2>4, <2>5, Zenon
<1>6. CASE HandlerAck
  <2>1. ControlTypeOK'
        BY <1>0, <1>1, <1>6, UpdateIrq DEF ControlTypeOK, HandlerAck, WriteIntStatus
  <2>2. Signalled'
        BY <1>0, <1>6, UpdateIrq, Zenon DEF Protocol, Signalled, HandlerAck, WriteIntStatus
  <2>3. Unmasked'
        BY <1>0, <1>1, <1>2, <1>6, UpdateIrq DEF Protocol, Unmasked, HandlerAck, WriteIntStatus
  <2>4. Progress'
        BY <1>0, <1>2, <1>6, UpdateIrq, SMTT(30)
        DEF Protocol, Progress, Quiet, Pending, Handled, Completed, HandlerAck, WriteIntStatus
  <2>5. IrqIdle'
        BY <1>0, <1>1, <1>2, <1>6, UpdateIrq, ZenonT(40)
        DEF Protocol, Progress, IrqIdle, Quiet, Pending, Handled, Completed, HandlerAck,
            WriteIntStatus
  <2> QED BY <1>2, <2>1, <2>2, <2>3, <2>4, <2>5, Zenon DEF IInv, Protocol
<1>7. CASE HandlerStore
  <2>1. ControlTypeOK'
        BY <1>0, <1>1, <1>7, Zenon DEF ControlTypeOK, HandlerStore
  <2>2. Signalled'
        BY <1>0, <1>7, Zenon DEF Protocol, Signalled, HandlerStore
  <2>3. Unmasked'
        BY <1>0, <1>1, <1>2, <1>7, Zenon DEF Protocol, Unmasked, HandlerStore
  <2>4. Progress'
        BY <1>0, <1>2, <1>7, HandlerActive, Zenon
        DEF Protocol, Progress, Quiet, Pending, Handled, Completed, HandlerStore
  <2>5. IrqIdle'
        BY <1>0, <1>1, <1>2, <1>7, ZenonT(40)
        DEF Protocol, Progress, IrqIdle, Quiet, Pending, Handled, Completed, HandlerStore
  <2> QED BY <1>2, <2>1, <2>2, <2>3, <2>4, <2>5, Zenon DEF IInv, Protocol
<1>8. CASE HandlerComplete
  <2>1. /\ hpc = "complete" /\ hpc' = "idle" /\ dma_done' = dma_done + 1
        /\ UNCHANGED <<intRegs, xferRegs, dstat>>
        BY <1>8, Zenon DEF HandlerComplete
  <2>2. dma_done = 0 /\ Where \in {"wait", "reset", "sync"}
        BY <2>1, HandlerActive, Zenon
  <2>3. Where \in {"wait", "reset"} => status \in DMA_BITS /\ Handled
        BY <1>0, <2>1, <2>2, Zenon DEF Protocol, Progress, Quiet, Pending, Completed
  <2>4. ControlTypeOK'
        BY <1>0, <1>1, <2>1, <2>2 DEF ControlTypeOK
  <2>5. (Signalled /\ Unmasked)'
        BY <1>0, <1>1, <1>2, <2>1, Zenon DEF Protocol, Signalled, Unmasked
  <2>6. Progress'
        BY <1>0, <1>2, <2>1, <2>2, <2>3 DEF Protocol, Progress, Quiet, Handled, Completed
  <2>7. IrqIdle'
        BY <1>0, <1>1, <1>2, <2>1, <2>2, Zenon DEF Protocol, IrqIdle, Quiet
  <2> QED BY <1>2, <2>4, <2>5, <2>6, <2>7, Zenon DEF IInv, Protocol
<1>9. CASE Complete
  <2> DEFINE b == IF result = "OK" THEN "DONE" ELSE "ERROR"
  <2>1. /\ timer /\ timer' = FALSE /\ status' = b
        /\ ldd_pcie_update_irq(int_status \cup {b}, int_mask)
        /\ UNCHANGED <<result, hpc, hstat, dma_done, dstat>>
        BY <1>9, Zenon DEF Complete, ldd_pcie_complete
  <2>2. b \in DMA_BITS /\ b \in INT_ALL
        BY Zenon DEF DMA_BITS, INT_ALL
  <2>3. /\ Where \in {"wait", "reset"} /\ Quiet /\ dma_done = 0
        /\ rpc \in {"bound", "removed"} /\ int_mask = DMA_BITS
        BY <1>0, <2>1, Zenon DEF Protocol, Signalled, Progress, HardwareBound, Unmasked,
           DMA_BITS
  <2>4. /\ int_status' = int_status \cup {b} /\ int_mask' = int_mask
        /\ irq_sent' = int_status' \cap int_mask
        /\ int_status' \cap DMA_BITS = {b}
        /\ line' \in BOOLEAN
        BY <2>1, <2>2, <2>3, UpdateIrq DEF Quiet
  <2>5. /\ mode' = mode
        /\ mode = "INTX" => (line' <=> irq_sent' # {})
        /\ msgs' # {} \/ line'
    <3>1. b \in ((int_status \cup {b}) \cap int_mask) \ irq_sent
          BY <1>0, <2>2, <2>3, Zenon DEF Protocol, Signalled, Quiet
    <3>2. irq_sent' # {}
          BY <2>2, <2>3, <2>4, Zenon
    <3> HIDE DEF b
    <3> QED BY <2>1, <3>1, <3>2, UpdateIrq, Zenon
  <2>6. status' = "DONE" => result' = "OK"
        BY <2>1, Zenon
  <2> HIDE DEF b
  <2>7. ControlTypeOK'
        BY <1>0, <1>1, <2>1, <2>2, <2>4, ZenonT(30) DEF ControlTypeOK, DMA_BITS
  <2>8. (Signalled /\ Unmasked)'
        BY <1>1, <1>2, <2>1, <2>2, <2>3, <2>4, <2>5, <2>6 DEF Signalled, Unmasked, DMA_BITS
  <2>9. Progress'
    <3>1. (status \in DMA_BITS /\ Pending)'
          BY <2>1, <2>2, <2>3, <2>4, <2>5, Zenon DEF Pending, Quiet
    <3> QED BY <1>2, <2>1, <2>2, <2>3, <3>1, Zenon DEF Progress, DMA_BITS, Quiet
  <2>10. IrqIdle'
        BY <1>1, <1>2, <2>3, Zenon DEF IrqIdle
  <2> QED BY <1>2, <2>7, <2>8, <2>9, <2>10, Zenon DEF IInv, Protocol
<1> QED BY <1>3, <1>4, <1>5, <1>6, <1>7, <1>8, <1>9, Zenon DEF dma_handler

\* dma_probe and dma_remove.
LEMMA BindSteps ==
    ASSUME IInv, dma_probe \/ dma_remove
    PROVE  IInv'
<1> USE DEF pcieVars, intRegs, dmaRegs, xferRegs, guest, devVars, refVars, irqVars, callVars
<1>0. ControlTypeOK /\ Holder /\ Users /\ Protocol
      BY Zenon DEF IInv
<1>1. UNCHANGED <<lock, pc, call, ret, hpc, hstat, dma_done, dstat, status, timer, result, window>>
      BY ZenonT(30) DEF dma_probe, dma_remove, RequestIrq, ProbeAck, ProbeUnmask,
         cdev_device_add,
             cdev_device_del, SetRemoved, Mask, free_irq, FreeBuffers, put_device,
             WriteIntStatus, WriteIntMask
<1>2. Where' = Where /\ Holder' /\ Mapped'
      BY <1>0, <1>1, Zenon DEF Where, Holder, Protocol, Mapped
<1>3. rpc \notin {"bound", "removed"} => Where \in {"none", "unlock"} /\ status # "BUSY"
      BY <1>0 DEF Protocol, HardwareBound, Progress
\* no transfer is under way but between cdev_device_add and SetRemoved, which leave
\* the device alone
<1>a. rpc \notin {"bound", "removed"} => Progress'
      BY <1>0, <1>1, <1>2, <1>3, Zenon DEF Protocol, Progress
<1>b. ASSUME UNCHANGED <<int_status, msgs, line>> PROVE Progress'
  <2>1. Quiet' = Quiet /\ Pending' = Pending /\ Handled' = Handled
        BY <1>1, <1>b, Zenon DEF Quiet, Pending, Handled
  <2>2. Completed' = Completed
        BY <1>1, <2>1, Zenon DEF Completed
  <2> QED BY <1>0, <1>1, <1>2, <2>1, <2>2, Zenon DEF Protocol, Progress
<1>4. CASE RequestIrq
  <2>1. ControlTypeOK' /\ Users'
        BY <1>0, <1>1, <1>4 DEF ControlTypeOK, Users, RPC, RequestIrq
  <2>2. (HardwareBound /\ Signalled /\ Unmasked)'
        BY <1>0, <1>1, <1>2, <1>3, <1>4, SMTT(30)
        DEF Protocol, HardwareBound, Signalled, Unmasked, RequestIrq
  <2>3. Progress'
        BY <1>a, <1>4, Zenon DEF RequestIrq
  <2>4. IrqIdle'
        BY <1>0, <1>1, <1>2, <1>3, <1>4, ZenonT(40) DEF Protocol, IrqIdle, Quiet, RequestIrq
  <2> QED BY <1>2, <2>1, <2>2, <2>3, <2>4, ZenonT(40) DEF IInv, Protocol
<1>5. CASE ProbeAck
  <2>1. /\ rpc = "ack" /\ rpc' = "unmask" /\ removed' = removed
        /\ int_status' = int_status \ DMA_BITS /\ int_mask' = int_mask
        /\ irq_sent' = int_status' \cap int_mask' /\ line' \in BOOLEAN
        /\ mode' = mode
        /\ mode = "INTX" => (line' <=> irq_sent' # {})
        BY <1>5, UpdateIrq, Zenon DEF ProbeAck, WriteIntStatus, DMA_BITS, INT_ALL
  <2>2. ControlTypeOK' /\ Users'
        BY <1>0, <1>1, <2>1 DEF ControlTypeOK, Users, RPC, DMA_BITS, INT_ALL
  <2>3. (HardwareBound /\ Signalled /\ Unmasked)'
        BY <1>0, <1>1, <1>2, <1>3, <2>1, Zenon DEF Protocol, HardwareBound, Signalled, Unmasked
  <2>4. Progress'
        BY <1>a, <2>1
  <2>5. IrqIdle'
        BY <1>0, <1>1, <1>2, <1>3, <2>1, ZenonT(40) DEF Protocol, IrqIdle, Quiet
  <2> QED BY <1>2, <2>2, <2>3, <2>4, <2>5, Zenon DEF IInv, Protocol
<1>6. CASE ProbeUnmask
  <2>1. /\ rpc = "unmask" /\ rpc' = "add" /\ removed' = removed
        /\ int_status' = int_status /\ int_mask' = DMA_BITS
        /\ irq_sent' = int_status' \cap int_mask' /\ line' \in BOOLEAN
        /\ mode' = mode
        /\ mode = "INTX" => (line' <=> irq_sent' # {})
        BY <1>6, UpdateIrq, ZenonT(40) DEF ProbeUnmask, WriteIntMask, DMA_BITS, INT_ALL
  <2>2. ControlTypeOK' /\ Users'
        BY <1>0, <1>1, <2>1 DEF ControlTypeOK, Users, RPC, DMA_BITS, INT_ALL
  <2>3. (HardwareBound /\ Signalled /\ Unmasked)'
        BY <1>0, <1>1, <1>2, <1>3, <2>1, Zenon DEF Protocol, HardwareBound, Signalled, Unmasked
  <2>4. Progress'
        BY <1>a, <2>1, Zenon
  <2>5. IrqIdle'
        BY <1>0, <1>1, <1>2, <1>3, <2>1, Zenon DEF Protocol, IrqIdle, Quiet
  <2> QED BY <1>2, <2>2, <2>3, <2>4, <2>5, Zenon DEF IInv, Protocol
<1>7. CASE cdev_device_add
  <2>1. ControlTypeOK' /\ Users'
        BY <1>0, <1>1, <1>7 DEF ControlTypeOK, Users, RPC, cdev_device_add
  <2>2. (HardwareBound /\ Signalled /\ Unmasked)'
        BY <1>0, <1>1, <1>2, <1>3, <1>7, SMTT(30)
        DEF Protocol, HardwareBound, Signalled, Unmasked, cdev_device_add
  <2>3. Progress'
        BY <1>a, <1>7, Zenon DEF cdev_device_add
  <2>4. IrqIdle'
        BY <1>0, <1>1, <1>2, <1>3, <1>7, ZenonT(40) DEF Protocol, IrqIdle, Quiet, cdev_device_add
  <2> QED BY <1>2, <2>1, <2>2, <2>3, <2>4, Zenon DEF IInv, Protocol
<1>8. CASE cdev_device_del
  <2>1. ControlTypeOK' /\ Users'
        BY <1>0, <1>1, <1>8, ZenonT(40) DEF ControlTypeOK, Users, RPC, cdev_device_del
  <2>2. (HardwareBound /\ Signalled /\ Unmasked)'
        BY <1>0, <1>1, <1>2, <1>3, <1>8, SMTT(30)
        DEF Protocol, HardwareBound, Signalled, Unmasked, cdev_device_del
  <2>3. Progress'
        BY <1>b, <1>8 DEF cdev_device_del
  <2>4. IrqIdle'
        BY <1>0, <1>1, <1>2, <1>3, <1>8, ZenonT(40) DEF Protocol, IrqIdle, Quiet, cdev_device_del
  <2> QED BY <1>2, <2>1, <2>2, <2>3, <2>4, Zenon DEF IInv, Protocol
<1>9. CASE SetRemoved
  <2>1. ControlTypeOK' /\ Users'
        BY <1>0, <1>1, <1>9, ZenonT(40) DEF ControlTypeOK, Users, RPC, SetRemoved
  <2>2. (HardwareBound /\ Signalled /\ Unmasked)'
        BY <1>0, <1>1, <1>2, <1>3, <1>9, SMTT(30)
        DEF Protocol, HardwareBound, Signalled, Unmasked, SetRemoved, Where
  <2>3. Progress'
        BY <1>b, <1>9, Zenon DEF SetRemoved
  <2>4. IrqIdle'
        BY <1>0, <1>1, <1>2, <1>3, <1>9, ZenonT(40) DEF Protocol, IrqIdle, Quiet, SetRemoved
  <2> QED BY <1>2, <2>1, <2>2, <2>3, <2>4, Zenon DEF IInv, Protocol
<1>10. CASE Mask
  <2>1. /\ rpc = "mask" /\ rpc' = "free_irq" /\ removed' = removed
        /\ int_status' = int_status /\ int_mask' = {}
        /\ irq_sent' = int_status' \cap int_mask' /\ line' \in BOOLEAN
        /\ mode' = mode
        /\ mode = "INTX" => (line' <=> irq_sent' # {})
        BY <1>10, UpdateIrq, ZenonT(30) DEF Mask, WriteIntMask, DMA_BITS, INT_ALL
  <2>2. ControlTypeOK' /\ Users'
        BY <1>0, <1>1, <2>1 DEF ControlTypeOK, Users, RPC, DMA_BITS, INT_ALL
  <2>3. (HardwareBound /\ Signalled /\ Unmasked)'
        BY <1>0, <1>1, <1>2, <1>3, <2>1, ZenonT(40) DEF Protocol, HardwareBound, Signalled, Unmasked
  <2>4. Progress'
        BY <1>a, <2>1
  <2>5. IrqIdle'
        BY <1>0, <1>1, <1>2, <1>3, <2>1, ZenonT(40) DEF Protocol, IrqIdle, Quiet
  <2> QED BY <1>2, <2>2, <2>3, <2>4, <2>5, Zenon DEF IInv, Protocol
<1>11. CASE free_irq
  <2>1. ControlTypeOK' /\ Users'
        BY <1>0, <1>1, <1>11, ZenonT(40) DEF ControlTypeOK, Users, RPC, free_irq
  <2>2. (HardwareBound /\ Signalled /\ Unmasked)'
        BY <1>0, <1>1, <1>2, <1>3, <1>11, SMTT(30)
        DEF Protocol, HardwareBound, Signalled, Unmasked, free_irq
  <2>3. Progress'
        BY <1>a, <1>11 DEF free_irq
  <2>4. IrqIdle'
        BY <1>0, <1>1, <1>2, <1>3, <1>11, ZenonT(40) DEF Protocol, IrqIdle, Quiet, free_irq
  <2> QED BY <1>2, <2>1, <2>2, <2>3, <2>4, Zenon DEF IInv, Protocol
<1>12. CASE FreeBuffers
  <2>1. ControlTypeOK' /\ Users'
        BY <1>0, <1>1, <1>12 DEF ControlTypeOK, Users, RPC, FreeBuffers
  <2>2. (HardwareBound /\ Signalled /\ Unmasked)'
        BY <1>0, <1>1, <1>2, <1>3, <1>12, SMTT(30)
        DEF Protocol, HardwareBound, Signalled, Unmasked, FreeBuffers
  <2>3. Progress'
        BY <1>a, <1>12 DEF FreeBuffers
  <2>4. IrqIdle'
        BY <1>0, <1>1, <1>2, <1>3, <1>12, ZenonT(40) DEF Protocol, IrqIdle, Quiet, FreeBuffers
  <2> QED BY <1>2, <2>1, <2>2, <2>3, <2>4, Zenon DEF IInv, Protocol
<1>13. CASE put_device
  <2>1. ControlTypeOK' /\ Users'
        BY <1>0, <1>1, <1>13, ZenonT(40) DEF ControlTypeOK, Users, RPC, put_device
  <2>2. (HardwareBound /\ Signalled /\ Unmasked)'
        BY <1>0, <1>1, <1>2, <1>3, <1>13
        DEF Protocol, HardwareBound, Signalled, Unmasked, put_device
  <2>3. Progress'
        BY <1>a, <1>13, Zenon DEF put_device
  <2>4. IrqIdle'
        BY <1>0, <1>1, <1>2, <1>3, <1>13, Zenon DEF Protocol, IrqIdle, Quiet, put_device
  <2> QED BY <1>2, <2>1, <2>2, <2>3, <2>4, Zenon DEF IInv, Protocol
<1> QED BY <1>4, <1>5, <1>6, <1>7, <1>8, <1>9, <1>10, <1>11, <1>12, <1>13, ZenonT(40)
        DEF dma_probe, dma_remove

\* The invariant is kept by every step.
LEMMA StepInductive == IInv /\ [Next]_vars => IInv'
<1> SUFFICES ASSUME IInv, [Next]_vars PROVE IInv'
    BY Zenon
<1>1. ASSUME UNCHANGED vars PROVE IInv'
  <2> USE <1>1 DEF vars, pcieVars, intRegs, dmaRegs, xferRegs, guest, devVars, refVars,
                   irqVars, callVars
  <2>1. Where' = Where
        BY Zenon DEF Where
  <2>2. (ControlTypeOK /\ Holder /\ Users)'
        BY ZenonT(40) DEF IInv, ControlTypeOK, Holder, Users
  <2>3. Protocol'
        BY <2>1, Frame, Zenon DEF IInv
  <2> QED BY <2>2, <2>3, Zenon DEF IInv
<1>2. ASSUME NEW t \in Threads, File(t) \/ Call(t) \/ ReadWrite(t) PROVE IInv'
      BY <1>2, FileSteps, MutexSteps, LockSteps, Zenon DEF ReadWrite
<1> QED BY <1>1, <1>2, InterruptSteps, BindSteps, Zenon DEF Next, Finished

\* It holds initially when a shared line finds no bit of a transfer set.
LEMMA InitInductive ==
    ASSUME "INTX" \in Modes => Leftover["INTX"] \cap DMA_BITS = {}
    PROVE  Init => IInv
<1> SUFFICES ASSUME Init PROVE IInv
    BY Zenon
<1> USE DmaAssumption, PcieAssumption, IrqAssumption DEF Init, PcieInit, IrqInit
<1>1. Where = "none"
      BY Zenon DEF Where
<1>2. ControlTypeOK
  <2>1. NoCall \in [toRam : BOOLEAN, pos : 0..MEM_SIZE, count : 0..CHUNK]
        BY SMTT(30) DEF NoCall
  <2>2. call \in [Threads -> [toRam : BOOLEAN, pos : 0..MEM_SIZE, count : 0..CHUNK]]
        BY <2>1, Zenon
  <2>3. pc \in [Threads -> PC] /\ ret \in [Threads -> Ret] /\ rpc \in RPC
        BY Zenon DEF PC, Ret, RPC
  <2>a. mode \in Modes /\ Leftover[mode] \subseteq INT_ALL
        BY Zenon
  <2>b. int_status \subseteq Leftover[mode]
        BY Zenon
  <2>4. int_status \subseteq INT_ALL /\ int_mask \subseteq INT_ALL /\ result \in Result
        BY <2>a, <2>b DEF Result
  <2>5. status = "NONE" /\ timer = FALSE /\ line = FALSE
        BY Zenon
  <2>6. removed = FALSE /\ lock = None /\ dma_done = 0 /\ hpc = "idle"
        BY Zenon
  <2> HIDE DmaAssumption, PcieAssumption, IrqAssumption DEF Init, PcieInit, IrqInit
  <2>7. timer \in BOOLEAN /\ line \in BOOLEAN /\ removed \in BOOLEAN
        BY <2>5, <2>6, Zenon
  <2>8. /\ status \in {"NONE", "BUSY", "DONE", "ERROR"}
        /\ hpc \in {"idle", "read", "ack", "store", "complete"}
        /\ lock \in Threads \cup {None}
        BY <2>5, <2>6, Zenon
  <2>9. dma_done \in 0..1
        BY <2>6
  <2> QED BY <2>2, <2>3, <2>4, <2>7, <2>8, <2>9, ZenonT(40) DEF ControlTypeOK
<1>3. Holder /\ Users
      BY Zenon DEF Holder, Users, Locked, Transferring
<1>4. HardwareBound /\ Signalled /\ Mapped /\ Unmasked
      BY <1>1, Zenon DEF HardwareBound, Signalled, Mapped, Unmasked, Transferring
<1>5. Progress /\ IrqIdle
      BY <1>1, Zenon DEF Progress, IrqIdle
<1> QED BY <1>2, <1>3, <1>4, <1>5, Zenon DEF IInv, Protocol

\* The invariant of the DMA protocol of 27_dma, for any number of threads.
THEOREM ProtocolInvariant ==
    ASSUME "INTX" \in Modes => Leftover["INTX"] \cap DMA_BITS = {}
    PROVE  Spec => []IInv
BY InitInductive, StepInductive, PTL DEF Spec

\* A thread between taking dma->lock and giving it back is the one Where is
\* about.
LEMMA HolderIsWhere == IInv => \A t \in Threads : pc[t] \in Locked => Where = pc[t]
BY DmaAssumption, Zenon DEF IInv, Holder, Where

\* The buffer is never unmapped or touched by the CPU while the device may
\* use it, the time-out path of dma_xfer included.
THEOREM BufferSafe ==
    ASSUME "INTX" \in Modes => Leftover["INTX"] \cap DMA_BITS = {}
    PROVE  Spec => []BufferOwnership
<1>1. IInv => BufferOwnership
      BY HolderIsWhere
      DEF BufferOwnership, IInv, Protocol, Progress, Mapped, Locked, Transferring
<1> QED BY <1>1, ProtocolInvariant, PTL

\* dma_xfer never programs or starts a transfer on a device still BUSY.
THEOREM StartsAccepted ==
    ASSUME "INTX" \in Modes => Leftover["INTX"] \cap DMA_BITS = {}
    PROVE  Spec => []StartAccepted
<1>1. IInv => StartAccepted
      BY HolderIsWhere, Zenon DEF StartAccepted, IInv, Protocol, Progress, Locked, Transferring
<1> QED BY <1>1, ProtocolInvariant, PTL

\* A call that wait_for_completion_timeout has let through looks at the
\* status of its own transfer, also after the time-out of an earlier one.
THEOREM CompletionsOwn ==
    ASSUME "INTX" \in Modes => Leftover["INTX"] \cap DMA_BITS = {}
    PROVE  Spec => []OwnCompletion
<1>1. IInv => OwnCompletion
      BY HolderIsWhere, ZenonT(40) DEF OwnCompletion, IInv, Protocol, Progress, Locked, Transferring
<1> QED BY <1>1, ProtocolInvariant, PTL

\* The interrupt of a finished transfer reaches the call that waits for it.
THEOREM InterruptsKept ==
    ASSUME "INTX" \in Modes => Leftover["INTX"] \cap DMA_BITS = {}
    PROVE  Spec => []InterruptNotLost
<1>1. IInv => InterruptNotLost
      BY HolderIsWhere
      DEF InterruptNotLost, IInv, Protocol, Progress, Pending, Handled, Completed,
          Locked, Transferring, DMA_BITS
<1> QED BY <1>1, ProtocolInvariant, PTL

-----------------------------------------------------------------------------
(* The data. *)

\* The place of each byte of a call's buffer in the on-board memory.
InPlace(c, buf) ==
    \A i \in 0..c.count - 1 :
        buf[i] = IF c.toRam THEN XorByte(mem[c.pos + i], xor) ELSE mem[c.pos + i]

\* What a transfer of call c leaves when it succeeds: for a read the bounce buffer,
\* for a write the user's, is what the on-board memory is.
Transferred(t) == InPlace(call[t], IF call[t].toRam THEN ram ELSE ubuf[t])

\* The stages of the data of a call under the mutex.
DataAt(t) ==
    /\ pc[t] \in {"map", "program", "reinit", "start"} /\ ~call[t].toRam =>
            \A i \in 0..call[t].count - 1 : ram[i] = ubuf[t][i]
    /\ pc[t] \in {"program", "reinit", "start"} =>
            table = <<[addr |-> 0, len |-> call[t].count, flags |-> 0]>>
    /\ pc[t] \in {"reinit", "start"} => desc_count = 1 /\ dev_offset = call[t].pos
    /\ pc[t] \in {"wait", "result"} /\ result = "OK" => Transferred(t)
    /\ pc[t] \in {"unmap", "copy"} /\ ret[t] = "OK" => Transferred(t)
    /\ pc[t] = "copy" => call[t].toRam /\ ret[t] = "OK"
    /\ pc[t] = "unlock" /\ ret[t] = "OK" => InPlace(call[t], ubuf[t])

Data ==
    /\ DOMAIN ram = 0..CHUNK - 1 /\ DOMAIN mem = 0..MEM_SIZE - 1
    /\ ubuf = [u \in Threads |-> ubuf[u]]
    /\ \A t \in Threads : DataAt(t)

\* A sequence of one element is all there is of it.
LEMMA SubSeqOne == \A x : SubSeq(<<x>>, 1, 1) = <<x>>
<1> TAKE x
<1> DEFINE s == <<x>>
<1>1. s \in Seq({x}) /\ Len(s) = 1 /\ s[1] = x
      OBVIOUS
<1>2. SubSeq(s, 1, 1) \in Seq({x}) /\ Len(SubSeq(s, 1, 1)) = 1 /\ SubSeq(s, 1, 1)[1] = x
      BY <1>1
<1>3. \A a, b \in Seq({x}) : Len(a) = 1 /\ Len(b) = 1 /\ a[1] = b[1] => a = b
      OBVIOUS
<1> QED BY <1>1, <1>2, <1>3, Zenon

\* The offsets of a table of one segment, n bytes long.
LEMMA OneSegment ==
    ASSUME NEW n \in Nat, dev_offset \in Nat
    PROVE  LET t == <<[addr |-> 0, len |-> n, flags |-> 0]>>
           IN  SegOffset(t) = [i \in 1..2 |-> IF i = 1 THEN dev_offset ELSE dev_offset + n]
<1> DEFINE t == <<[addr |-> 0, len |-> n, flags |-> 0]>>
           Is(o) == o = [i \in 1..Len(t) + 1 |->
                            IF i = 1 THEN dev_offset ELSE o[i - 1] + t[i - 1].len]
           f == [i \in 1..2 |-> IF i = 1 THEN dev_offset ELSE dev_offset + n]
<1>1. Len(t) = 1 /\ t[1].len = n
      BY Zenon
<1> HIDE DEF t
<1>2. Is(f)
      BY <1>1
<1>3. SegOffset(t) = CHOOSE o : Is(o)
      BY Zenon DEF SegOffset
<1>4. Is(SegOffset(t))
      BY <1>2, <1>3, Zenon
<1>5. SegOffset(t) = f
      BY <1>1, <1>4
<1> QED BY <1>5, Zenon DEF t

\* A transfer that succeeds has copied every byte of its one segment; it leaves
\* what it copied from, and whatever its outcome the extent of both memories.
LEMMA TransferMoves ==
    ASSUME NEW n \in 1..CHUNK, NEW toRam \in BOOLEAN, NEW master,
           dev_offset \in Nat, desc_count = 1,
           table = <<[addr |-> 0, len |-> n, flags |-> 0]>>,
           DOMAIN ram = 0..CHUNK - 1, DOMAIN mem = 0..MEM_SIZE - 1,
           ldd_pcie_transfer(toRam, master)
    PROVE  /\ DOMAIN ram' = DOMAIN ram /\ DOMAIN mem' = DOMAIN mem
           /\ result' = "OK" /\ toRam => /\ mem' = mem
                                         /\ \A i \in 0..n - 1 :
                                              ram'[i] = XorByte(mem[dev_offset + i], xor)
           /\ result' = "OK" /\ ~toRam => \A i \in 0..n - 1 : mem'[dev_offset + i] = ram[i]
<1> USE DmaAssumption, PcieAssumption, IrqAssumption
<1> DEFINE t == <<[addr |-> 0, len |-> n, flags |-> 0]>>
<1>1. SubSeq(table, 1, desc_count) = t
      BY SubSeqOne, Zenon
<1>2. SegOffset(t) = [i \in 1..2 |-> IF i = 1 THEN dev_offset ELSE dev_offset + n]
      BY OneSegment
<1>3. Len(t) = 1 /\ DOMAIN t = {1} /\ t[1] = [addr |-> 0, len |-> n, flags |-> 0]
      OBVIOUS
<1>4. /\ \A s : DOMAIN CopyOut(s) = DOMAIN ram
      /\ \A s : DOMAIN CopyIn(s) = DOMAIN mem
      BY Zenon DEF CopyOut, CopyIn
<1>5. /\ ram' = ram \/ \E s : ram' = CopyOut(s)
      /\ mem' = mem \/ \E s : mem' = CopyIn(s)
      BY ZenonT(40) DEF ldd_pcie_transfer
<1>6. ASSUME result' = "OK"
      PROVE  /\ dev_offset + n <= MEM_SIZE
             /\ toRam => ram' = CopyOut(t) /\ mem' = mem
             /\ ~toRam => mem' = CopyIn(t)
  <2> HIDE DEF t
  <2> DEFINE end == SegOffset(t)[desc_count + 1]
  <2>0. end = dev_offset + n
        BY <1>2
  <2> HIDE DEF end
  <2> DEFINE d == desc_count
  <2>a. /\ end <= MEM_SIZE
        /\ \E f \in 1..d + 1 :
            /\ f > d \/ result' = "DMA_FAULT"
            /\ \E k \in IF f > d THEN {0} ELSE 0..t[f].len - 1 :
                 IF toRam THEN ram' = CopyOut(Moved(t, f, k)) /\ mem' = mem
                          ELSE mem' = CopyIn(Moved(t, f, k))
        BY <1>1, <1>6, ZenonT(40) DEF ldd_pcie_transfer, Report, end
  <2>1. PICK f \in 1..2 :
            /\ f > 1 \/ result' = "DMA_FAULT"
            /\ \E k \in IF f > 1 THEN {0} ELSE 0..t[f].len - 1 :
                 IF toRam THEN ram' = CopyOut(Moved(t, f, k)) /\ mem' = mem
                          ELSE mem' = CopyIn(Moved(t, f, k))
        BY <2>a
  <2>2. Moved(t, 2, 0) = t
        BY <1>3 DEF Moved
  <2> QED BY <1>6, <2>0, <2>a, <2>1, <2>2
<1>7. \A i \in 0..n - 1 : CopyOut(t)[i] = XorByte(mem[dev_offset + i], xor)
  <2> HIDE DEF t
  <2> TAKE i \in 0..n - 1
  <2> DEFINE o == SegOffset(t)
             At(j, a) == t[j].addr <= a /\ a < t[j].addr + t[j].len
             J == CHOOSE j \in DOMAIN t : At(j, i) /\ \A k \in DOMAIN t : At(k, i) => k <= j
  <2>1. i \in DOMAIN ram /\ At(1, i)
        BY <1>3
  <2>2. J = 1
        BY <1>3, <2>1
  <2>3. CopyOut(t)[i] = XorByte(mem[o[J] + i - t[J].addr], xor)
        BY <1>3, <2>1, ZenonT(40) DEF CopyOut
  <2>4. o[1] + i - t[1].addr = dev_offset + i
        BY <1>2, <1>3
  <2> QED BY <2>2, <2>3, <2>4, Zenon
<1>8. ASSUME dev_offset + n <= MEM_SIZE
      PROVE  \A i \in 0..n - 1 : CopyIn(t)[dev_offset + i] = ram[i]
  <2> HIDE DEF t
  <2> TAKE i \in 0..n - 1
  <2> DEFINE o == SegOffset(t)
             m == dev_offset + i
             At(j) == o[j] <= m /\ m < o[j + 1]
             J == CHOOSE j \in DOMAIN t : At(j)
  <2>1. m \in DOMAIN mem /\ At(1)
        BY <1>2, <1>3, <1>8
  <2>2. J = 1
        BY <1>3, <2>1, Zenon
  <2>3. CopyIn(t)[m] = ram[t[J].addr + m - o[J]]
        BY <1>3, <2>1, ZenonT(40) DEF CopyIn
  <2>4. t[1].addr + m - o[1] = i
        BY <1>2, <1>3
  <2> QED BY <2>2, <2>3, <2>4, Zenon
<1> QED BY <1>4, <1>5, <1>6, <1>7, <1>8, ZenonT(40)

\* A call that does not hold the mutex has no data under way.
LEMMA DataIdle ==
    ASSUME NEW u, pc[u] \notin Locked
    PROVE  DataAt(u)
BY Zenon DEF DataAt, Locked, Transferring

\* A step that leaves the device and the buffers alone, and moves nobody in
\* or out of the places where data is.
LEMMA DataFrame ==
    ASSUME Data, UNCHANGED <<mem, ram, table, desc_count, dev_offset, xor, result>>,
           ubuf' = [u \in Threads |-> ubuf'[u]],
           \A u \in Threads : \/ pc'[u] \notin Locked
                              \/ /\ pc'[u] = pc[u] /\ call'[u] = call[u]
                                 /\ ubuf'[u] = ubuf[u] /\ ret'[u] = ret[u]
    PROVE  Data'
<1>1. ASSUME NEW u \in Threads PROVE DataAt(u)'
  <2>1. CASE pc'[u] \notin Locked
        BY <2>1, Zenon DEF DataAt, Locked, Transferring
  <2>2. CASE pc'[u] \in Locked
    <3>1. pc'[u] = pc[u] /\ call'[u] = call[u] /\ ubuf'[u] = ubuf[u] /\ ret'[u] = ret[u]
          BY <2>2, Zenon
    <3>2. DataAt(u)
          BY Zenon DEF Data
    <3>3. /\ Transferred(u)' <=> Transferred(u)
          /\ InPlace(call[u], ubuf[u])' <=> InPlace(call[u], ubuf[u])
          BY <3>1, ZenonT(40) DEF Transferred, InPlace
    <3> QED BY <3>1, <3>2, <3>3, ZenonT(40) DEF DataAt
  <2> QED BY <2>1, <2>2, Zenon
<1> QED BY <1>1, Zenon DEF Data

\* A step of the holder of the mutex, which nobody else is.
LEMMA DataStep ==
    ASSUME IInv, Data, NEW t \in Threads, pc[t] \in Locked, NEW l,
           pc' = [pc EXCEPT ![t] = l],
           DOMAIN ram' = DOMAIN ram, DOMAIN mem' = DOMAIN mem,
           ubuf' = [u \in Threads |-> ubuf'[u]], DataAt(t)'
    PROVE  Data'
<1>1. ASSUME NEW u \in Threads, u # t PROVE DataAt(u)'
  <2>1. pc[u] \notin Locked
        BY <1>1, Zenon DEF IInv, Holder
  <2>2. pc'[u] = pc[u]
        BY <1>1, Zenon DEF IInv, ControlTypeOK
  <2> QED BY <2>1, <2>2, Zenon DEF DataAt, Locked, Transferring
<1> QED BY <1>1, Zenon DEF Data

\* The steps of the holder of the mutex: what each does to its own data.
LEMMA DataMutex ==
    ASSUME IInv, Data, NEW t \in Threads, Fill(t) \/ dma_xfer(t) \/ Copy(t)
    PROVE  Data'
<1> DEFINE c == call[t]
<1> USE DEF Goto
<1>0. /\ pc \in [Threads -> PC] /\ ret \in [Threads -> Ret] /\ ubuf = [u \in Threads |-> ubuf[u]]
      /\ c.toRam \in BOOLEAN /\ c.pos \in 0..MEM_SIZE /\ c.count \in 0..CHUNK
      /\ DataAt(t) /\ DOMAIN ram = 0..CHUNK - 1 /\ DOMAIN mem = 0..MEM_SIZE - 1
      /\ CHUNK \in Nat /\ MEM_SIZE \in Nat
      BY DmaAssumption, PcieAssumption, IrqAssumption, SMTT(30) DEF IInv, ControlTypeOK, Data
<1>k. pc[t] \in Locked /\ call' = call
      BY Zenon DEF Fill, Copy, dma_xfer, Map, Program, reinit_completion, Start, WaitDone,
         WaitTimeout,
         Reset, synchronize_irq, Unmask, CheckResult, Unmap, Locked, Transferring
<1>w. pc[t] \in Locked => Where = pc[t]
      BY HolderIsWhere, Zenon
<1>s. ASSUME NEW l, pc' = [pc EXCEPT ![t] = l], DOMAIN ram' = DOMAIN ram, DOMAIN mem' = DOMAIN mem,
             UNCHANGED ubuf, DataAt(t)'
      PROVE  Data'
      BY <1>0, <1>k, <1>s, DataStep, Zenon
<1>1. CASE Fill(t)
  <2>1. PICK n \in 0..c.count :
          /\ ram' = [i \in DOMAIN ram |-> IF i < n THEN ubuf[t][i] ELSE ram[i]]
          /\ IF n = c.count
             THEN pc' = [pc EXCEPT ![t] = "map"]
             ELSE pc' = [pc EXCEPT ![t] = "unlock"] /\ ret' = [ret EXCEPT ![t] = "EFAULT"]
        BY <1>1, Zenon DEF Fill
  <2>2. UNCHANGED <<ubuf, mem>>
        BY <1>1, Zenon DEF Fill
  <2>3. DOMAIN ram' = DOMAIN ram
        BY <2>1, Zenon
  <2>4. CASE n = c.count
    <3>1. \A i \in 0..c.count - 1 : ram'[i] = ubuf'[t][i]
          BY <1>0, <2>1, <2>2, <2>4
    <3>2. pc'[t] = "map"
          BY <1>0, <2>1, <2>4, Zenon
    <3>3. DataAt(t)'
          BY <1>k, <3>1, <3>2, Zenon DEF DataAt
    <3> QED BY <1>s, <2>1, <2>2, <2>3, <2>4, <3>3, ZenonT(40)
  <2>5. CASE n # c.count
    <3>1. pc'[t] = "unlock" /\ ret'[t] # "OK"
          BY <1>0, <2>1, <2>5, Zenon
    <3>2. DataAt(t)'
          BY <3>1, Zenon DEF DataAt
    <3> QED BY <1>s, <2>1, <2>2, <2>3, <2>5, <3>2, ZenonT(40)
  <2> QED BY <2>4, <2>5, Zenon
<1>2. CASE Map(t)
  <2>1. /\ pc[t] = "map" /\ UNCHANGED <<ubuf, ram, mem, desc_count, dev_offset>>
        /\ \/ /\ table' = <<[addr |-> 0, len |-> c.count, flags |-> 0]>>
              /\ pc' = [pc EXCEPT ![t] = "program"]
           \/ pc' = [pc EXCEPT ![t] = "unlock"] /\ ret' = [ret EXCEPT ![t] = "ENOMEM"]
        BY <1>2, Zenon DEF Map, dmaRegs
  <2>2. CASE pc' = [pc EXCEPT ![t] = "program"]
    <3>1. pc'[t] = "program"
          BY <1>0, <2>2, Zenon
    <3>a. pc'[t] # "unlock"
          BY <3>1, Zenon
    <3>2. table' = <<[addr |-> 0, len |-> call'[t].count, flags |-> 0]>>
          BY <1>0, <1>k, <2>1, <3>a, Zenon
    <3>3. ~c.toRam => \A i \in 0..c.count - 1 : ram[i] = ubuf[t][i]
          BY <1>0, <2>1, Zenon DEF DataAt
    <3>4. DataAt(t)'
          BY <1>k, <2>1, <3>1, <3>2, <3>3, ZenonT(40) DEF DataAt
    <3> QED BY <1>s, <2>1, <2>2, <3>4, Zenon
  <2>3. CASE pc' = [pc EXCEPT ![t] = "unlock"] /\ ret' = [ret EXCEPT ![t] = "ENOMEM"]
    <3>1. pc'[t] = "unlock" /\ ret'[t] # "OK"
          BY <1>0, <2>3, Zenon
    <3>2. DataAt(t)'
          BY <3>1, Zenon DEF DataAt
    <3> QED BY <1>s, <2>1, <2>3, <3>2, Zenon
  <2> QED BY <2>1, <2>2, <2>3, Zenon
<1>3. CASE Program(t)
  <2>0. status # "BUSY" /\ pc[t] = "program"
        BY <1>3, <1>k, <1>w, Zenon DEF Program, IInv, Protocol, Progress
  <2>1. /\ pc' = [pc EXCEPT ![t] = "reinit"] /\ UNCHANGED <<ubuf, ram, mem, table>>
        /\ desc_count' = 1 /\ dev_offset' = c.pos
        BY <1>3, <2>0, Zenon DEF Program, WriteDesc, guest
  <2>2. pc'[t] = "reinit"
        BY <1>0, <2>1, Zenon
  <2>3. DataAt(t)'
        BY <1>0, <1>k, <2>0, <2>1, <2>2, Zenon DEF DataAt
  <2> QED BY <1>s, <2>1, <2>3, Zenon
<1>4. CASE reinit_completion(t)
  <2>1. /\ pc[t] = "reinit" /\ pc' = [pc EXCEPT ![t] = "start"]
        /\ UNCHANGED <<ubuf, ram, mem, table, desc_count, dev_offset>>
        BY <1>4, Zenon DEF reinit_completion, pcieVars, guest, dmaRegs
  <2>2. pc'[t] = "start"
        BY <1>0, <2>1, ZenonT(40)
  <2>3. DataAt(t)'
        BY <1>0, <1>k, <2>1, <2>2, ZenonT(40) DEF DataAt
  <2> QED BY <1>s, <2>1, <2>3, Zenon
<1>5. CASE Start(t)
  <2>0. pc[t] = "start" /\ status # "BUSY"
        BY <1>5, <1>k, <1>w, Zenon DEF Start, IInv, Protocol, Progress
  <2>1. /\ pc' = [pc EXCEPT ![t] = "wait"] /\ UNCHANGED <<ubuf, xor>>
        /\ ldd_pcie_transfer(c.toRam, Master)
        BY <1>5, <2>0, ZenonT(40) DEF Start, ldd_pcie_start
  <2>2. c.count \in 1..CHUNK
        BY <1>0, <1>k DEF IInv, Users
  <2>3. /\ desc_count = 1 /\ dev_offset = c.pos /\ dev_offset \in Nat
        /\ table = <<[addr |-> 0, len |-> c.count, flags |-> 0]>>
        /\ ~c.toRam => \A i \in 0..c.count - 1 : ram[i] = ubuf[t][i]
    <3>1. c.pos \in Nat
          BY <1>0
    <3> QED BY <1>0, <2>0, <3>1, ZenonT(40) DEF DataAt
  <2>4. /\ DOMAIN ram' = DOMAIN ram /\ DOMAIN mem' = DOMAIN mem
        /\ result' = "OK" /\ c.toRam => /\ mem' = mem
                                        /\ \A i \in 0..c.count - 1 :
                                             ram'[i] = XorByte(mem[c.pos + i], xor)
        /\ result' = "OK" /\ ~c.toRam => \A i \in 0..c.count - 1 : mem'[c.pos + i] = ram[i]
        BY <1>0, <2>1, <2>2, <2>3, TransferMoves, ZenonT(40)
  <2>5. pc'[t] = "wait"
        BY <1>0, <2>1, Zenon
  <2>6. ASSUME result' = "OK" PROVE Transferred(t)'
    <3>1. CASE c.toRam
          BY <1>k, <2>1, <2>4, <2>6, <3>1, ZenonT(40) DEF Transferred, InPlace
    <3>2. CASE ~c.toRam
          BY <1>k, <2>1, <2>3, <2>4, <2>6, <3>2, ZenonT(40) DEF Transferred, InPlace
    <3> QED BY <3>1, <3>2, Zenon
  <2>7. DataAt(t)'
        BY <2>5, <2>6, Zenon DEF DataAt
  <2> QED BY <1>s, <2>1, <2>4, <2>7, ZenonT(40)
<1>6. CASE WaitDone(t)
  <2>1. /\ pc[t] = "wait" /\ pc' = [pc EXCEPT ![t] = "result"]
        /\ UNCHANGED <<ubuf, ram, mem, xor, result>>
        BY <1>6, Zenon DEF WaitDone, pcieVars, guest, dmaRegs, xferRegs
  <2>2. pc'[t] = "result"
        BY <1>0, <2>1, Zenon
  <2>3. DataAt(t)'
        BY <1>0, <1>k, <2>1, <2>2, Zenon DEF DataAt, Transferred, InPlace
  <2> QED BY <1>s, <2>1, <2>3, Zenon
<1>7. CASE WaitTimeout(t) \/ Reset(t) \/ synchronize_irq(t)
  <2>1. PICK l \in {"reset", "sync", "unmask"} : pc' = [pc EXCEPT ![t] = l]
        BY <1>7, Zenon DEF WaitTimeout, Reset, synchronize_irq
  <2>2. UNCHANGED <<ubuf, ram, mem>>
        BY <1>7, Zenon DEF WaitTimeout, Reset, synchronize_irq, ldd_pcie_reset, pcieVars, guest
  <2>3. pc'[t] \in {"reset", "sync", "unmask"}
        BY <1>0, <2>1, Zenon
  <2>4. DataAt(t)'
        BY <2>3, Zenon DEF DataAt
  <2> QED BY <1>s, <2>1, <2>2, <2>4, Zenon
<1>8. CASE Unmask(t)
  <2>1. /\ pc' = [pc EXCEPT ![t] = "unmap"] /\ ret' = [ret EXCEPT ![t] = "ETIMEDOUT"]
        /\ UNCHANGED <<ubuf, ram, mem>>
        BY <1>8, Zenon DEF Unmask, WriteIntMask, guest
  <2>2. pc'[t] = "unmap" /\ ret'[t] # "OK"
        BY <1>0, <2>1, Zenon
  <2>3. DataAt(t)'
        BY <2>2, Zenon DEF DataAt
  <2> QED BY <1>s, <2>1, <2>3, Zenon
<1>9. CASE CheckResult(t)
  <2>1. /\ pc[t] = "result" /\ pc' = [pc EXCEPT ![t] = "unmap"]
        /\ ret' = [ret EXCEPT ![t] = IF "ERROR" \in dstat THEN "EIO" ELSE "OK"]
        /\ UNCHANGED <<ubuf, ram, mem, xor, result>>
        BY <1>9, Zenon DEF CheckResult, pcieVars, guest, dmaRegs, xferRegs
  <2>2. pc'[t] = "unmap" /\ (ret'[t] = "OK" => "ERROR" \notin dstat)
        BY <1>0, <2>1, Zenon
  <2>3. "ERROR" \notin dstat => result = "OK"
        BY <1>k, <1>w, <2>1, Zenon DEF IInv, Protocol, Progress, Signalled, DMA_BITS
  <2>4. DataAt(t)'
        BY <1>0, <1>k, <2>1, <2>2, <2>3, ZenonT(40) DEF DataAt, Transferred, InPlace
  <2> QED BY <1>s, <2>1, <2>4, Zenon
<1>10. CASE Unmap(t)
  <2>1. /\ pc[t] = "unmap" /\ UNCHANGED <<ubuf, ram, mem, xor, ret>>
        /\ pc' = [pc EXCEPT ![t] = IF c.toRam /\ ret[t] = "OK" THEN "copy" ELSE "unlock"]
        BY <1>10, Zenon DEF Unmap, dmaRegs
  <2>2. /\ pc'[t] \in {"copy", "unlock"} /\ pc'[t] = "copy" => c.toRam /\ ret[t] = "OK"
        /\ pc'[t] = "unlock" /\ ret[t] = "OK" => ~c.toRam
        BY <1>0, <2>1, Zenon
  <2>3. DataAt(t)'
        BY <1>0, <1>k, <2>1, <2>2, Zenon DEF DataAt, Transferred, InPlace
  <2> QED BY <1>s, <2>1, <2>3, Zenon
<1>11. CASE Copy(t)
  <2>1. /\ pc[t] = "copy" /\ pc' = [pc EXCEPT ![t] = "unlock"] /\ UNCHANGED <<ram, mem, xor>>
        /\ \/ ubuf' = [ubuf EXCEPT ![t] = [i \in 0..CHUNK - 1 |-> IF i < c.count THEN ram[i] ELSE 0]]
           \/ ret' = [ret EXCEPT ![t] = "EFAULT"] /\ UNCHANGED ubuf
        BY <1>11, Zenon DEF Copy, pcieVars, guest, dmaRegs
  <2>2. pc'[t] = "unlock"
        BY <1>0, <2>1, Zenon
  <2>3. CASE ret' = [ret EXCEPT ![t] = "EFAULT"] /\ UNCHANGED ubuf
    <3>1. ret'[t] # "OK"
          BY <1>0, <2>3, Zenon
    <3>2. DataAt(t)'
          BY <2>2, <3>1, Zenon DEF DataAt
    <3> QED BY <1>s, <2>1, <2>3, <3>2, Zenon
  <2>4. CASE ubuf' = [ubuf EXCEPT ![t] = [i \in 0..CHUNK - 1 |-> IF i < c.count THEN ram[i] ELSE 0]]
    <3>1. \A i \in 0..c.count - 1 : ubuf'[t][i] = ram[i]
          BY <1>0, <2>4
    <3>2. c.toRam /\ Transferred(t)
          BY <1>0, <2>1, Zenon DEF DataAt
    <3>3. InPlace(call[t], ubuf[t])'
          BY <1>k, <2>1, <3>1, <3>2, Zenon DEF Transferred, InPlace
    <3>4. DataAt(t)'
          BY <2>2, <3>3, Zenon DEF DataAt
    <3>5. ubuf' = [u \in Threads |-> ubuf'[u]]
          BY <1>0, <2>4, Zenon
    <3> QED BY <1>k, <2>1, <3>4, <3>5, DataStep, ZenonT(40)
  <2> QED BY <2>1, <2>3, <2>4, Zenon
<1> QED BY <1>1, <1>2, <1>3, <1>4, <1>5, <1>6, <1>7, <1>8, <1>9, <1>10, <1>11, Zenon
        DEF dma_xfer

\* The steps that touch no data of a call under the mutex.
LEMMA DataOutside ==
    ASSUME IInv, Data, NEW t \in Threads,
           File(t) \/ Call(t) \/ Lock(t) \/ Interrupted(t) \/ Unlock(t)
    PROVE  Data'
<1> USE DEF Goto, Return
<1>0. /\ pc \in [Threads -> PC] /\ ret \in [Threads -> Ret]
      /\ call \in [Threads -> [toRam : BOOLEAN, pos : 0..MEM_SIZE, count : 0..CHUNK]]
      /\ ubuf = [u \in Threads |-> ubuf[u]]
      BY Zenon DEF IInv, ControlTypeOK, Data
<1>1. UNCHANGED <<mem, ram, table, desc_count, dev_offset, xor, result>>
      BY Zenon DEF File, Lookup, dma_open, Close, dma_release, Closed, Call, Lock, Interrupted,
         Unlock,
         pcieVars, guest, dmaRegs, xferRegs
<1>2. ASSUME NEW l, pc' = [pc EXCEPT ![t] = l], l \notin Locked,
             ubuf' = [u \in Threads |-> ubuf'[u]],
             \A u \in Threads \ {t} :
                call'[u] = call[u] /\ ret'[u] = ret[u] /\ ubuf'[u] = ubuf[u]
      PROVE  Data'
  <2>1. \A u \in Threads : \/ pc'[u] \notin Locked
                           \/ /\ pc'[u] = pc[u] /\ call'[u] = call[u]
                              /\ ubuf'[u] = ubuf[u] /\ ret'[u] = ret[u]
        BY <1>0, <1>2
  <2> QED BY <1>1, <1>2, <2>1, DataFrame, ZenonT(40)
<1>3. CASE File(t)
  <2>1. PICK l \in {"opening", "open", "closing", "put", "closed"} :
            pc' = [pc EXCEPT ![t] = l] /\ UNCHANGED <<call, ret, ubuf>>
        BY <1>3, Zenon DEF File, Lookup, dma_open, Close, dma_release, Closed
  <2>2. l \notin Locked
        BY Zenon DEF Locked, Transferring
  <2> QED BY <1>0, <1>2, <2>1, <2>2, Zenon
<1>4. CASE Call(t)
  <2>1. /\ pc' = [pc EXCEPT ![t] = "lock"] /\ UNCHANGED ret
        /\ \E a : call' = [call EXCEPT ![t] = a]
        /\ \E d : ubuf' = [ubuf EXCEPT ![t] = d]
        BY <1>4, Zenon DEF Call
  <2>2. /\ ubuf' = [u \in Threads |-> ubuf'[u]] /\ "lock" \notin Locked
        /\ \A u \in Threads \ {t} : call'[u] = call[u] /\ ret'[u] = ret[u] /\ ubuf'[u] = ubuf[u]
        BY <1>0, <2>1, Zenon DEF Locked, Transferring
  <2> QED BY <1>2, <2>1, <2>2, Zenon
<1>5. CASE Interrupted(t) \/ Unlock(t)
  <2>1. /\ pc' = [pc EXCEPT ![t] = "open"]
        /\ \E a : call' = [call EXCEPT ![t] = a]
        /\ \E b : ret' = [ret EXCEPT ![t] = b]
        /\ \E d : ubuf' = [ubuf EXCEPT ![t] = d]
        BY <1>5, Zenon DEF Interrupted, Unlock
  <2>2. /\ ubuf' = [u \in Threads |-> ubuf'[u]] /\ "open" \notin Locked
        /\ \A u \in Threads \ {t} : call'[u] = call[u] /\ ret'[u] = ret[u] /\ ubuf'[u] = ubuf[u]
        BY <1>0, <2>1, Zenon DEF Locked, Transferring
  <2> QED BY <1>2, <2>1, <2>2, Zenon
<1>6. CASE Lock(t)
  <2>1. /\ UNCHANGED <<call, ubuf>>
        /\ \/ pc' = [pc EXCEPT ![t] = "unlock"] /\ ret' = [ret EXCEPT ![t] = "ENODEV"]
           \/ pc' = [pc EXCEPT ![t] = IF call[t].toRam THEN "map" ELSE "fill"] /\ UNCHANGED ret
        BY <1>6, Zenon DEF Lock
  <2>2. /\ \A u \in Threads \ {t} : pc'[u] = pc[u] /\ ret'[u] = ret[u]
        /\ \/ pc'[t] = "unlock" /\ ret'[t] # "OK"
           \/ pc'[t] = "map" /\ call[t].toRam
           \/ pc'[t] = "fill"
        BY <1>0, <2>1, Zenon
  <2>3. DataAt(t)'
        BY <2>1, <2>2, Zenon DEF DataAt
  <2>4. ASSUME NEW u \in Threads, u # t PROVE DataAt(u)'
    <3>1. DataAt(u) /\ pc'[u] = pc[u] /\ ret'[u] = ret[u]
          BY <2>2, <2>4, Zenon DEF Data
    <3> QED BY <1>1, <2>1, <3>1, Zenon DEF DataAt, Transferred, InPlace
  <2> QED BY <1>1, <2>1, <2>3, <2>4, Zenon DEF Data
<1> QED BY <1>3, <1>4, <1>5, <1>6, Zenon

\* Every step keeps the data in place.
LEMMA DataInductive ==
    ASSUME IInv, Data, [Next]_vars
    PROVE  Data'
<1>0. ubuf = [u \in Threads |-> ubuf[u]]
      BY DEF Data
<1>1. ASSUME UNCHANGED callVars, UNCHANGED <<mem, ram, table, desc_count, dev_offset, xor, result>>
      PROVE  Data'
      BY <1>0, <1>1, DataFrame, Zenon DEF callVars
<1>2. CASE UNCHANGED vars
      BY <1>1, <1>2, Zenon DEF vars, pcieVars, guest, dmaRegs, xferRegs
<1>3. CASE \E t \in Threads : File(t) \/ Call(t) \/ ReadWrite(t)
      BY <1>3, DataMutex, DataOutside, Zenon DEF ReadWrite
<1>4. CASE Interrupt \/ SharedInterrupt \/ dma_handler \/ Complete \/ dma_probe
           \/ cdev_device_del \/ SetRemoved \/ Mask \/ free_irq \/ put_device
  <2>1. UNCHANGED callVars
        BY <1>4, Zenon DEF Interrupt, SharedInterrupt, dma_handler, HandlerRead, HandlerAck,
           HandlerStore, HandlerComplete, Complete, dma_probe, RequestIrq, ProbeAck,
           ProbeUnmask,
           cdev_device_add, cdev_device_del, SetRemoved, Mask, free_irq, put_device
  <2>2. UNCHANGED <<mem, ram, table, desc_count, dev_offset, xor, result>>
        BY <1>4, Zenon DEF Interrupt, SharedInterrupt, dma_handler, HandlerRead, HandlerAck,
           HandlerStore, HandlerComplete, Complete, dma_probe, RequestIrq, ProbeAck,
           ProbeUnmask,
           cdev_device_add, cdev_device_del, SetRemoved, Mask, free_irq, put_device,
           TakeInterrupt, WriteIntStatus, WriteIntMask, ldd_pcie_complete,
           pcieVars, guest, dmaRegs, xferRegs
  <2> QED BY <1>1, <2>1, <2>2
<1>5. CASE FreeBuffers
  <2>1. /\ UNCHANGED <<pc, call, ubuf, ret, mem, desc_count, dev_offset, xor, result>>
        /\ ram' = Zero /\ rpc = "free"
        BY <1>5, Zenon DEF FreeBuffers, callVars, dmaRegs, xferRegs
  <2>2. ASSUME NEW u \in Threads PROVE DataAt(u)'
    <3>1. pc[u] \in Locked => pc[u] = "unlock"
          BY <2>1, HolderIsWhere DEF IInv, Protocol, HardwareBound, Locked, Transferring
    <3>2. CASE pc[u] # "unlock"
      <4>1. pc'[u] \notin Locked
            BY <2>1, <3>1, <3>2
      <4> QED BY <4>1, Zenon DEF DataAt, Locked, Transferring
    <3>3. CASE pc[u] = "unlock"
      <4>1. ret[u] = "OK" => InPlace(call[u], ubuf[u])
            BY <3>3, Zenon DEF Data, DataAt
      <4>2. ret'[u] = "OK" => InPlace(call[u], ubuf[u])'
            BY <2>1, <4>1, Zenon DEF InPlace
      <4>3. pc'[u] = "unlock"
            BY <2>1, <3>3, Zenon
      <4> QED BY <4>2, <4>3, Zenon DEF DataAt
    <3> QED BY <3>2, <3>3, Zenon
  <2>3. DOMAIN ram' = 0..CHUNK - 1
        BY <2>1, Zenon DEF Zero
  <2> QED BY <2>1, <2>2, <2>3, Zenon DEF Data
<1> QED BY <1>2, <1>3, <1>4, <1>5, Zenon DEF Next, Finished, dma_remove

\* A read or write of 27_dma that is about to return success has moved every
\* byte of it: whatever other calls, time-outs, resets and late interrupts
\* came before, and whatever memory the buffers were left with.
THEOREM BytesMoved ==
    ASSUME "INTX" \in Modes => Leftover["INTX"] \cap DMA_BITS = {}
    PROVE  Spec => []DataMoved
<1>1. Init => Data
  <2> SUFFICES ASSUME Init PROVE Data
      BY Zenon
  <2>1. \A t \in Threads : pc[t] = "closed"
        BY Zenon DEF Init
  <2>2. \A t \in Threads : DataAt(t)
        BY <2>1, Zenon DEF DataAt
  <2> QED BY <2>2, Zenon DEF Data, Init, PcieInit, IrqInit, Zero
<1>2. Data => DataMoved
      BY Zenon DEF Data, DataAt, DataMoved, InPlace
<1> QED BY <1>1, <1>2, InitInductive, StepInductive, DataInductive, PTL DEF Spec

-----------------------------------------------------------------------------
(* References. *)

\* The threads with a reference to the cdev, and with one to the device.
Opened == {t \in Threads : pc[t] # "closed"}
Files == {t \in Threads : pc[t] \notin {"closed", "opening", "put"}}

One(b) == IF b THEN 1 ELSE 0

\* The node and each file hold a reference to the cdev; the driver, the cdev
\* and each file one to the device.
Refs ==
    /\ cdev_ref = One(rpc = "bound") + Cardinality(Opened)
    /\ dev_ref = One(rpc # "gone") + One(cdev_ref > 0) + Cardinality(Files)

\* What counting threads needs: sets of threads have a size, and gain or lose
\* one thread at a time.
Counting ==
    \A S \in SUBSET Threads :
      /\ Cardinality(S) \in Nat
      /\ Cardinality(S) = 0 <=> S = {}
      /\ \A t \in S : Cardinality(S \ {t}) = Cardinality(S) - 1
      /\ \A t \in Threads \ S : Cardinality(S \cup {t}) = Cardinality(S) + 1

\* The counts are kept by every step.
LEMMA RefsInductive == ASSUME Counting, IInv, Refs, [Next]_vars PROVE Refs'
<1>1. pc \in [Threads -> PC]
      BY Zenon DEF IInv, ControlTypeOK
<1>2. /\ Opened \in SUBSET Threads /\ Cardinality(Opened) \in Nat
      /\ Files \in SUBSET Threads /\ Cardinality(Files) \in Nat
      BY Zenon DEF Counting, Opened, Files
<1>3. ASSUME UNCHANGED <<pc, rpc, dev_ref, cdev_ref>> PROVE Refs'
      BY <1>3, Zenon DEF Refs, Opened, Files
<1>4. ASSUME NEW t \in Threads, File(t) \/ Call(t) \/ ReadWrite(t) PROVE Refs'
  <2> USE DEF Goto, refVars, callVars
  <2>1. CASE Lookup(t)
    <3>1. /\ t \notin Opened /\ Opened' = Opened \cup {t} /\ Files' = Files
          /\ rpc = "bound" /\ rpc' = rpc /\ cdev_ref' = cdev_ref + 1 /\ dev_ref' = dev_ref
          BY <1>1, <2>1 DEF Lookup, Opened, Files
    <3>2. Cardinality(Opened') = Cardinality(Opened) + 1 /\ Cardinality(Files') = Cardinality(Files)
          BY <1>2, <3>1, ZenonT(40) DEF Counting
    <3> QED BY <1>2, <3>1, <3>2 DEF Refs, One
  <2>2. CASE dma_open(t)
    <3>1. /\ t \notin Files /\ Opened' = Opened /\ Files' = Files \cup {t}
          /\ rpc' = rpc /\ cdev_ref' = cdev_ref /\ dev_ref' = dev_ref + 1
          BY <1>1, <2>2, Zenon DEF dma_open, Opened, Files
    <3>2. Cardinality(Files') = Cardinality(Files) + 1 /\ Cardinality(Opened') = Cardinality(Opened)
          BY <1>2, <3>1, ZenonT(40) DEF Counting
    <3> QED BY <1>2, <3>1, <3>2 DEF Refs, One
  <2>3. CASE dma_release(t)
    <3>1. /\ t \in Files /\ Opened' = Opened /\ Files' = Files \ {t}
          /\ rpc' = rpc /\ cdev_ref' = cdev_ref /\ dev_ref' = dev_ref - 1
          BY <1>1, <2>3 DEF dma_release, Opened, Files
    <3>2. Cardinality(Files') = Cardinality(Files) - 1 /\ Cardinality(Opened') = Cardinality(Opened)
          BY <1>2, <3>1, Zenon DEF Counting
    <3> QED BY <1>2, <3>1, <3>2 DEF Refs, One
  <2>4. CASE Closed(t)
    <3>1. /\ t \in Opened /\ Opened' = Opened \ {t} /\ Files' = Files
          /\ rpc' = rpc /\ cdev_ref' = cdev_ref - 1
          /\ dev_ref' = IF cdev_ref = 1 THEN dev_ref - 1 ELSE dev_ref
          BY <1>1, <2>4 DEF Closed, cdev_put, Opened, Files
    <3>2. Cardinality(Opened) # 0 /\ Cardinality(Opened') = Cardinality(Opened) - 1
          BY <1>2, <3>1, Zenon DEF Counting
    <3>3. Cardinality(Files') = Cardinality(Files)
          BY <3>1, Zenon
    <3>4. cdev_ref > 0 /\ (cdev_ref' > 0 <=> cdev_ref # 1)
          BY <1>2, <3>1, <3>2 DEF Refs, One
    <3>5. dev_ref' = One(rpc' # "gone") + One(cdev_ref' > 0) + Cardinality(Files')
      <4>1. CASE cdev_ref = 1
            BY <1>2, <3>1, <3>3, <3>4, <4>1 DEF Refs, One
      <4>2. CASE cdev_ref # 1
            BY <3>1, <3>3, <3>4, <4>2, ZenonT(40) DEF Refs, One
      <4> QED BY <4>1, <4>2, ZenonT(40)
    <3>6. cdev_ref' = One(rpc' = "bound") + Cardinality(Opened')
          BY <1>2, <3>1, <3>2 DEF Refs, One
    <3> QED BY <3>5, <3>6, Zenon DEF Refs
  <2>5. CASE Close(t) \/ Call(t) \/ ReadWrite(t)
    <3> DEFINE In == PC \ {"closed", "opening", "put"}
    <3>1. /\ pc[t] \in In
          /\ \E l \in In : pc' = [pc EXCEPT ![t] = l]
          /\ UNCHANGED <<rpc, dev_ref, cdev_ref>>
          BY <1>1, <2>5, ZenonT(30)
          DEF Close, Call, ReadWrite, Lock, Interrupted, Return, Fill, dma_xfer, Copy,
              Unlock, Map, Program, reinit_completion, Start, WaitDone, WaitTimeout, Reset,
              synchronize_irq, Unmask, CheckResult, Unmap, PC, Locked, Transferring
    <3>2. Opened' = Opened /\ Files' = Files
          BY <1>1, <3>1 DEF Opened, Files
    <3> QED BY <3>1, <3>2, ZenonT(40) DEF Refs
  <2> QED BY <1>4, <2>1, <2>2, <2>3, <2>4, <2>5, ZenonT(40) DEF File
<1>5. ASSUME Interrupt \/ SharedInterrupt \/ dma_handler \/ Complete PROVE Refs'
      BY <1>3, <1>5, Zenon
      DEF Interrupt, SharedInterrupt, dma_handler, HandlerRead, HandlerAck, HandlerStore,
          HandlerComplete, Complete, refVars, callVars
<1>6. ASSUME dma_probe \/ dma_remove PROVE Refs'
  <2> USE DEF refVars, callVars
  <2>0. pc' = pc
        BY <1>6, ZenonT(30) DEF dma_probe, dma_remove, RequestIrq, ProbeAck, ProbeUnmask,
                    cdev_device_add, cdev_device_del, SetRemoved, Mask, free_irq,
                    FreeBuffers, put_device
  <2>1. Opened' = Opened /\ Files' = Files
        BY <2>0 DEF Opened, Files
  <2>2. CASE cdev_device_add
    <3>1. Opened = {} /\ rpc = "add"
          BY <2>2, Zenon DEF cdev_device_add, IInv, Users, Protocol, HardwareBound, Opened
    <3>2. Cardinality(Opened) = 0
          BY <1>2, <3>1, Zenon DEF Counting
    <3> QED BY <1>2, <2>1, <2>2, <3>1, <3>2 DEF cdev_device_add, Refs, One
  <2>3. CASE cdev_device_del
    <3>1. /\ rpc = "bound" /\ rpc' = "removed" /\ cdev_ref' = cdev_ref - 1
          /\ dev_ref' = IF cdev_ref = 1 THEN dev_ref - 1 ELSE dev_ref
          BY <2>3, Zenon DEF cdev_device_del, cdev_put
    <3> QED BY <1>2, <2>1, <3>1 DEF Refs, One
  <2>4. CASE put_device
        BY <1>2, <2>1, <2>4 DEF put_device, Refs, One
  <2>5. CASE RequestIrq \/ ProbeAck \/ ProbeUnmask \/ SetRemoved \/ Mask \/ free_irq \/ FreeBuffers
        BY <2>1, <2>5, Zenon DEF RequestIrq, ProbeAck, ProbeUnmask, SetRemoved, Mask, free_irq,
                          FreeBuffers, Refs, One
  <2> QED BY <1>6, <2>2, <2>3, <2>4, <2>5, Zenon DEF dma_probe, dma_remove
<1> QED BY <1>3, <1>4, <1>5, <1>6, Zenon DEF Next, Finished, vars, refVars, callVars

\* Nothing is referred to at first.
LEMMA RefsInit == ASSUME Counting, Init PROVE Refs
<1>1. Opened = {} /\ Files = {}
      BY Zenon DEF Init, Opened, Files
<1>2. rpc = "request_irq" /\ dev_ref = 1 /\ cdev_ref = 0
      BY ZenonT(30) DEF Init, PcieInit, IrqInit
<1>3. Cardinality({}) = 0
      BY Zenon DEF Counting
<1> QED BY <1>1, <1>2, <1>3 DEF Refs, One

\* The counts keep the structure as long as it is used.
LEMMA RefsSafe == ASSUME Counting, IInv, Refs PROVE NoUseAfterFree
<1>1. \A t \in Threads : pc[t] \in Locked => Where = pc[t]
      BY HolderIsWhere, Zenon
<1>2. rpc \in {"put", "gone"} =>
          /\ hpc = "idle" /\ status # "BUSY"
          /\ \A t \in Threads : pc[t] \notin Locked \ {"unlock"}
      BY <1>1, ZenonT(40) DEF IInv, Protocol, HardwareBound, Progress, IrqIdle, Locked,
         Transferring
<1>3. /\ Opened \in SUBSET Threads /\ Files \in SUBSET Threads /\ Files \subseteq Opened
      BY Zenon DEF Opened, Files
<1>4. /\ Cardinality(Opened) \in Nat /\ Cardinality(Files) \in Nat
      /\ Cardinality(Opened) = 0 <=> Opened = {}
      /\ Opened = {} => Cardinality(Files) = 0
      BY <1>3, Zenon DEF Counting
<1>5. dev_ref = 0 <=> rpc = "gone" /\ Cardinality(Opened) = 0
      BY <1>4 DEF Refs, One
<1> QED BY <1>2, <1>4, <1>5, ZenonT(30) DEF NoUseAfterFree, Opened

\* There are finitely many threads.
LEMMA Counts == Counting
<1>0. IsFiniteSet(Threads)
      BY DmaAssumption, Zenon
<1>1. ASSUME NEW S \in SUBSET Threads PROVE IsFiniteSet(S)
      BY <1>0, FS_Subset, Zenon
<1>2. ASSUME NEW S \in SUBSET Threads
      PROVE  Cardinality(S) \in Nat /\ (Cardinality(S) = 0 <=> S = {})
      BY <1>1, FS_CardinalityType, FS_EmptySet, Zenon
<1>3. ASSUME NEW S \in SUBSET Threads, NEW t \in S
      PROVE  Cardinality(S \ {t}) = Cardinality(S) - 1
  <2>1. IsFiniteSet(S)
        BY <1>1, Zenon
  <2> QED BY <2>1, FS_RemoveElement, Zenon
<1>4. ASSUME NEW S \in SUBSET Threads, NEW t \in Threads \ S
      PROVE  Cardinality(S \cup {t}) = Cardinality(S) + 1
  <2>1. IsFiniteSet(S) /\ t \notin S
        BY <1>1, Zenon
  <2> QED BY <2>1, FS_AddElement, Zenon
<1> QED BY <1>2, <1>3, <1>4 DEF Counting

\* No thread, transfer or handler is left when dma_remove frees the buffers
\* and the registers, and the structure is freed exactly when the driver has
\* gone and the last file is closed.
THEOREM Lifetime ==
    ASSUME "INTX" \in Modes => Leftover["INTX"] \cap DMA_BITS = {}
    PROVE  Spec => []NoUseAfterFree
<1>1. Init => Refs
      BY Counts, RefsInit, Zenon
<1>2. IInv /\ Refs => NoUseAfterFree
      BY Counts, RefsSafe, Zenon
<1>3. IInv /\ Refs /\ [Next]_vars => Refs'
      BY Counts, RefsInductive, Zenon
<1> QED BY <1>1, <1>2, <1>3, InitInductive, StepInductive, PTL DEF Spec
=============================================================================
