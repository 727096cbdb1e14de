-------------------------------- MODULE Dma --------------------------------
(***************************************************************************)
(* examples/27_dma/main.c driving the ldd-pcie device of module LddPcie:   *)
(* probe and remove, the interrupt handler, and threads that open /dev/dma *)
(* and read and write the on-board memory through it, one transfer at a    *)
(* time.                                                                   *)
(*                                                                         *)
(* Each thread has a file of its own.  A position is an argument of the    *)
(* call: read(2) hands the driver a copy of the file's position, so what   *)
(* another thread does to the file does not change a call under way.       *)
(***************************************************************************)
EXTENDS LddPcie

CONSTANTS Threads,
          CHUNK,     \* dma->chunk, the size of dma->buf
          Leftover,  \* INT_STATUS bits an earlier driver may leave, by mode
          None       \* nobody holds the mutex

ASSUME DmaAssumption ==
    /\ Modes \subseteq {"MSI", "INTX"}  \* dma_probe asks for one vector
    /\ IsFiniteSet(Threads)
    /\ CHUNK \in 1..MAX_SEG
    /\ Leftover \in [Modes -> SUBSET INT_ALL]
    /\ None \notin Threads

DMA_BITS == {"DONE", "ERROR"}

VARIABLES lock,       \* the mutex: its holder
          removed,    \* dma->removed
          dma_done,   \* the completion's count
          dstat,      \* dma->int_status
          dev_ref,    \* references to dma->dev
          cdev_ref,   \* references to dma->cdev
          pc,         \* where each thread is
          call,       \* the arguments of its call
          ubuf,       \* its user buffer
          ret,        \* what its call is about to return
          hpc,        \* where dma_handler is
          hstat,      \* its local variable status
          rpc         \* where probe and remove are

devVars == <<removed, dma_done, dstat>>
refVars == <<dev_ref, cdev_ref>>
callVars == <<pc, call, ubuf, ret>>
irqVars == <<hpc, hstat>>
vars == <<pcieVars, lock, devVars, refVars, callVars, irqVars, rpc>>

\* dma->buf is at bus addresses 0 .. CHUNK - 1 while it is mapped.
Buf == [0..CHUNK - 1 -> Byte]
Zero == [i \in 0..CHUNK - 1 |-> 0]
NoCall == [toRam |-> FALSE, pos |-> 0, count |-> 0]

\* In dma_xfer, the buffer mapped.
Transferring == {"program", "reinit", "start", "wait", "reset", "sync",
                 "unmask", "result", "unmap"}
\* Holding dma->lock.
Locked == Transferring \cup {"fill", "map", "copy", "unlock"}
PC == Locked \cup {"closed", "opening", "open", "lock", "closing", "put"}

Ret == {"OK", "ENODEV", "EFAULT", "ENOMEM", "ETIMEDOUT", "EIO"}

\* dma_probe up to the node, bound, and dma_remove or the error path.
RPC == {"request_irq", "ack", "unmask", "add", "bound", "removed", "mask",
        "free_irq", "free", "put", "gone"}
HasIrq == rpc \in {"ack", "unmask", "add", "bound", "removed", "mask", "free_irq"}
Master == rpc \notin {"put", "gone"}

Init ==
    /\ PcieInit(Leftover[mode])
    /\ table = <<>>
    /\ ram = Zero
    /\ window = {}
    /\ lock = None
    /\ removed = FALSE
    /\ dma_done = 0
    /\ dstat = {}
    /\ dev_ref = 1
    /\ cdev_ref = 0
    /\ pc = [t \in Threads |-> "closed"]
    /\ call = [t \in Threads |-> NoCall]
    /\ ubuf = [t \in Threads |-> Zero]
    /\ ret = [t \in Threads |-> "OK"]
    /\ hpc = "idle"
    /\ hstat = {}
    /\ rpc = "request_irq"

Goto(t, l) == pc' = [pc EXCEPT ![t] = l]

-----------------------------------------------------------------------------
(* Files.  The node leads to the cdev, which holds a reference to dma->dev *)
(* until its own last reference goes.                                      *)

\* cdev_get by chrdev_open; fails once the node is gone.
Lookup(t) ==
    /\ pc[t] = "closed"
    /\ rpc = "bound"
    /\ cdev_ref' = cdev_ref + 1
    /\ Goto(t, "opening")
    /\ UNCHANGED <<pcieVars, lock, devVars, dev_ref, call, ubuf, ret, irqVars, rpc>>

dma_open(t) ==
    /\ pc[t] = "opening"
    /\ dev_ref' = dev_ref + 1
    /\ Goto(t, "open")
    /\ UNCHANGED <<pcieVars, lock, devVars, cdev_ref, call, ubuf, ret, irqVars, rpc>>

Close(t) ==
    /\ pc[t] = "open"
    /\ Goto(t, "closing")
    /\ UNCHANGED <<pcieVars, lock, devVars, refVars, call, ubuf, ret, irqVars, rpc>>

dma_release(t) ==
    /\ pc[t] = "closing"
    /\ dev_ref' = dev_ref - 1
    /\ Goto(t, "put")
    /\ UNCHANGED <<pcieVars, lock, devVars, cdev_ref, call, ubuf, ret, irqVars, rpc>>

\* A reference to the cdev goes; the last one takes its parent's with it.
cdev_put ==
    /\ cdev_ref' = cdev_ref - 1
    /\ dev_ref' = IF cdev_ref = 1 THEN dev_ref - 1 ELSE dev_ref

Closed(t) ==
    /\ pc[t] = "put"
    /\ cdev_put
    /\ Goto(t, "closed")
    /\ UNCHANGED <<pcieVars, lock, devVars, call, ubuf, ret, irqVars, rpc>>

-----------------------------------------------------------------------------
(* dma_read and dma_write. *)

\* The call enters the driver with the count it limits to what is left of
\* the memory and to one buffer; one with nothing to move returns at once.
Count(pos, count) ==
    LET left == IF pos >= MEM_SIZE THEN 0 ELSE MEM_SIZE - pos
        least == IF count < left THEN count ELSE left
    IN  IF least < CHUNK THEN least ELSE CHUNK

Call(t) ==
    /\ pc[t] = "open"
    /\ \E toRam \in BOOLEAN, pos \in 0..MEM_SIZE, count \in 0..CHUNK + 1, data \in Buf :
        LET n == Count(pos, count)
        IN  /\ n > 0
            /\ toRam => data = Zero
            /\ \A i \in n..CHUNK - 1 : data[i] = 0
            /\ call' = [call EXCEPT ![t] = [toRam |-> toRam, pos |-> pos, count |-> n]]
            /\ ubuf' = [ubuf EXCEPT ![t] = data]
    /\ Goto(t, "lock")
    /\ UNCHANGED <<pcieVars, lock, devVars, refVars, ret, irqVars, rpc>>

\* The end of a call: nothing of it is kept.
Return(t) ==
    /\ Goto(t, "open")
    /\ call' = [call EXCEPT ![t] = NoCall]
    /\ ubuf' = [ubuf EXCEPT ![t] = Zero]
    /\ ret' = [ret EXCEPT ![t] = "OK"]

\* A signal while another thread holds the mutex.
Interrupted(t) ==
    /\ pc[t] = "lock"
    /\ lock # None
    /\ Return(t)
    /\ UNCHANGED <<pcieVars, lock, devVars, refVars, irqVars, rpc>>

\* Mutant: -ENODEV is returned with the mutex held.
LockKept(t) ==
    /\ pc[t] = "lock"
    /\ lock = None
    /\ lock' = t
    /\ IF removed
       THEN Return(t)
       ELSE /\ Goto(t, IF call[t].toRam THEN "map" ELSE "fill")
            /\ UNCHANGED <<call, ubuf, ret>>
    /\ UNCHANGED <<pcieVars, devVars, refVars, irqVars, rpc>>

Lock(t) ==
    /\ pc[t] = "lock"
    /\ lock = None
    /\ lock' = t
    /\ IF removed
       THEN Goto(t, "unlock") /\ ret' = [ret EXCEPT ![t] = "ENODEV"]
       ELSE Goto(t, IF call[t].toRam THEN "map" ELSE "fill") /\ UNCHANGED ret
    /\ UNCHANGED <<pcieVars, devVars, refVars, call, ubuf, irqVars, rpc>>

\* copy_from_user, which may copy part of the data and fail.
Fill(t) ==
    /\ pc[t] = "fill"
    /\ \E n \in 0..call[t].count :
        /\ ram' = [i \in DOMAIN ram |-> IF i < n THEN ubuf[t][i] ELSE ram[i]]
        /\ IF n = call[t].count
           THEN Goto(t, "map") /\ UNCHANGED ret
           ELSE Goto(t, "unlock") /\ ret' = [ret EXCEPT ![t] = "EFAULT"]
    /\ UNCHANGED <<intRegs, dmaRegs, xferRegs, mem, table, window>>
    /\ UNCHANGED <<lock, devVars, refVars, call, ubuf, irqVars, rpc>>

\* dma_map_single, and the descriptor.
Map(t) ==
    /\ pc[t] = "map"
    /\ \/ /\ window' = 0..call[t].count - 1
          /\ table' = <<[addr |-> 0, len |-> call[t].count, flags |-> 0]>>
          /\ Goto(t, "program")
          /\ UNCHANGED ret
       \/ /\ Goto(t, "unlock")
          /\ ret' = [ret EXCEPT ![t] = "ENOMEM"]
          /\ UNCHANGED <<table, window>>
    /\ UNCHANGED <<intRegs, dmaRegs, xferRegs, mem, ram>>
    /\ UNCHANGED <<lock, devVars, refVars, call, ubuf, irqVars, rpc>>

\* The registers; a read also writes the module parameter xor.
Program(t) ==
    /\ pc[t] = "program"
    /\ \E x \in IF call[t].toRam THEN Byte ELSE {xor} :
        WriteDesc(1, call[t].pos, x)
    /\ Goto(t, "reinit")
    /\ UNCHANGED <<lock, devVars, refVars, call, ubuf, ret, irqVars, rpc>>

reinit_completion(t) ==
    /\ pc[t] = "reinit"
    /\ dma_done' = 0
    /\ Goto(t, "start")
    /\ UNCHANGED <<pcieVars, lock, removed, dstat, refVars, call, ubuf, ret, irqVars, rpc>>

Start(t) ==
    /\ pc[t] = "start"
    /\ ldd_pcie_start(call[t].toRam, Master)
    /\ Goto(t, "wait")
    /\ UNCHANGED <<lock, devVars, refVars, call, ubuf, ret, irqVars, rpc>>

\* wait_for_completion_timeout returns.
WaitDone(t) ==
    /\ pc[t] = "wait"
    /\ dma_done > 0
    /\ dma_done' = dma_done - 1
    /\ Goto(t, "result")
    /\ UNCHANGED <<pcieVars, lock, removed, dstat, refVars, call, ubuf, ret, irqVars, rpc>>

WaitTimeout(t) ==
    /\ pc[t] = "wait"
    /\ dma_done = 0
    /\ Goto(t, "reset")
    /\ UNCHANGED <<pcieVars, lock, devVars, refVars, call, ubuf, ret, irqVars, rpc>>

\* Mutant: the device is left running.
ResetNone(t) ==
    /\ pc[t] = "reset"
    /\ Goto(t, "sync")
    /\ UNCHANGED <<pcieVars, lock, devVars, refVars, call, ubuf, ret, irqVars, rpc>>

Reset(t) ==
    /\ pc[t] = "reset"
    /\ ldd_pcie_reset
    /\ Goto(t, "sync")
    /\ UNCHANGED <<lock, devVars, refVars, call, ubuf, ret, irqVars, rpc>>

\* Mutant: a handler running late is not waited for.
SyncNone(t) ==
    /\ pc[t] = "sync"
    /\ Goto(t, "unmask")
    /\ UNCHANGED <<pcieVars, lock, devVars, refVars, call, ubuf, ret, irqVars, rpc>>

\* Waits for a handler that is running, not for a message on its way.
synchronize_irq(t) ==
    /\ pc[t] = "sync"
    /\ hpc = "idle"
    /\ Goto(t, "unmask")
    /\ UNCHANGED <<pcieVars, lock, devVars, refVars, call, ubuf, ret, irqVars, rpc>>

\* Mutant: the interrupts stay masked after the reset.
UnmaskNone(t) ==
    /\ pc[t] = "unmask"
    /\ ret' = [ret EXCEPT ![t] = "ETIMEDOUT"]
    /\ Goto(t, "unmap")
    /\ UNCHANGED <<pcieVars, lock, devVars, refVars, call, ubuf, irqVars, rpc>>

\* Mutant: the transfer is tried again, without limit.
UnmaskRetry(t) ==
    /\ pc[t] = "unmask"
    /\ WriteIntMask(DMA_BITS)
    /\ Goto(t, "program")
    /\ UNCHANGED <<dmaRegs, xferRegs, mem, guest, lock, devVars, refVars, call, ubuf,
                   ret, irqVars, rpc>>

Unmask(t) ==
    /\ pc[t] = "unmask"
    /\ WriteIntMask(DMA_BITS)
    /\ ret' = [ret EXCEPT ![t] = "ETIMEDOUT"]
    /\ Goto(t, "unmap")
    /\ UNCHANGED <<dmaRegs, xferRegs, mem, guest, lock, devVars, refVars, call, ubuf,
                   irqVars, rpc>>

\* Mutant: the transfer's error is not looked at.
CheckResultIgnored(t) ==
    /\ pc[t] = "result"
    /\ Goto(t, "unmap")
    /\ UNCHANGED <<pcieVars, lock, devVars, refVars, call, ubuf, ret, irqVars, rpc>>

CheckResult(t) ==
    /\ pc[t] = "result"
    /\ ret' = [ret EXCEPT ![t] = IF "ERROR" \in dstat THEN "EIO" ELSE "OK"]
    /\ Goto(t, "unmap")
    /\ UNCHANGED <<pcieVars, lock, devVars, refVars, call, ubuf, irqVars, rpc>>

Unmap(t) ==
    /\ pc[t] = "unmap"
    /\ window' = {}
    /\ Goto(t, IF call[t].toRam /\ ret[t] = "OK" THEN "copy" ELSE "unlock")
    /\ UNCHANGED <<intRegs, dmaRegs, xferRegs, mem, table, ram>>
    /\ UNCHANGED <<lock, devVars, refVars, call, ubuf, ret, irqVars, rpc>>

\* copy_to_user.
Copy(t) ==
    /\ pc[t] = "copy"
    /\ \/ /\ ubuf' = [ubuf EXCEPT ![t] =
                        [i \in 0..CHUNK - 1 |-> IF i < call[t].count THEN ram[i] ELSE 0]]
          /\ UNCHANGED ret
       \/ /\ ret' = [ret EXCEPT ![t] = "EFAULT"]
          /\ UNCHANGED ubuf
    /\ Goto(t, "unlock")
    /\ UNCHANGED <<pcieVars, lock, devVars, refVars, call, irqVars, rpc>>

Unlock(t) ==
    /\ pc[t] = "unlock"
    /\ lock' = None
    /\ Return(t)
    /\ UNCHANGED <<pcieVars, devVars, refVars, irqVars, rpc>>

-----------------------------------------------------------------------------
(* dma_handler.  The kernel runs one instance of it at a time. *)

\* A message, or the line asserted by this device.
Interrupt ==
    /\ hpc = "idle"
    /\ HasIrq
    /\ TakeInterrupt(0)
    /\ hpc' = "read"
    /\ UNCHANGED <<dmaRegs, xferRegs, mem, guest, lock, devVars, refVars, callVars,
                   hstat, rpc>>

\* The line asserted by another device that shares it.
SharedInterrupt ==
    /\ mode = "INTX"
    /\ hpc = "idle"
    /\ HasIrq
    /\ hpc' = "read"
    /\ UNCHANGED <<pcieVars, lock, devVars, refVars, callVars, hstat, rpc>>

HandlerRead ==
    /\ hpc = "read"
    /\ hstat' = int_status \cap DMA_BITS
    /\ hpc' = IF hstat' = {} THEN "idle" ELSE "ack"
    /\ UNCHANGED <<pcieVars, lock, devVars, refVars, callVars, rpc>>

HandlerAck ==
    /\ hpc = "ack"
    /\ WriteIntStatus(hstat)
    /\ hpc' = "store"
    /\ UNCHANGED <<dmaRegs, xferRegs, mem, guest, lock, devVars, refVars, callVars,
                   hstat, rpc>>

HandlerStore ==
    /\ hpc = "store"
    /\ dstat' = hstat
    /\ hpc' = "complete"
    /\ UNCHANGED <<pcieVars, lock, removed, dma_done, refVars, callVars, hstat, rpc>>

HandlerComplete ==
    /\ hpc = "complete"
    /\ dma_done' = dma_done + 1
    /\ hpc' = "idle"
    /\ hstat' = {}
    /\ UNCHANGED <<pcieVars, lock, removed, dstat, refVars, callVars, rpc>>

dma_handler == HandlerRead \/ HandlerAck \/ HandlerStore \/ HandlerComplete

-----------------------------------------------------------------------------
(* dma_probe, from request_irq on, and dma_remove. *)

\* A failure undoes what probe had done so far, which is what remove does
\* last: free_irq and the rest.
RequestIrq ==
    /\ rpc = "request_irq"
    /\ rpc' \in {"ack", "free"}
    /\ UNCHANGED <<pcieVars, lock, devVars, refVars, callVars, irqVars>>

ProbeAck ==
    /\ rpc = "ack"
    /\ WriteIntStatus(DMA_BITS)
    /\ rpc' = "unmask"
    /\ UNCHANGED <<dmaRegs, xferRegs, mem, guest, lock, devVars, refVars, callVars, irqVars>>

ProbeUnmask ==
    /\ rpc = "unmask"
    /\ WriteIntMask(DMA_BITS)
    /\ rpc' = "add"
    /\ UNCHANGED <<dmaRegs, xferRegs, mem, guest, lock, devVars, refVars, callVars, irqVars>>

cdev_device_add ==
    /\ rpc = "add"
    /\ \/ /\ cdev_ref' = 1
          /\ dev_ref' = dev_ref + 1
          /\ rpc' = "bound"
       \/ /\ rpc' = "mask"
          /\ UNCHANGED refVars
    /\ UNCHANGED <<pcieVars, lock, devVars, callVars, irqVars>>

cdev_device_del ==
    /\ rpc = "bound"
    /\ cdev_put
    /\ rpc' = "removed"
    /\ UNCHANGED <<pcieVars, lock, devVars, callVars, irqVars>>

\* Mutant: a transfer in progress is not waited for.
SetRemovedUnlocked ==
    /\ rpc = "removed"
    /\ removed' = TRUE
    /\ rpc' = "mask"
    /\ UNCHANGED <<pcieVars, lock, dma_done, dstat, refVars, callVars, irqVars>>

\* The mutex is held for this assignment alone.
SetRemoved ==
    /\ rpc = "removed"
    /\ lock = None
    /\ removed' = TRUE
    /\ rpc' = "mask"
    /\ UNCHANGED <<pcieVars, lock, dma_done, dstat, refVars, callVars, irqVars>>

Mask ==
    /\ rpc = "mask"
    /\ WriteIntMask({})
    /\ rpc' = "free_irq"
    /\ UNCHANGED <<dmaRegs, xferRegs, mem, guest, lock, devVars, refVars, callVars, irqVars>>

\* Waits for a handler that is running; none is called afterwards.
free_irq ==
    /\ rpc = "free_irq"
    /\ hpc = "idle"
    /\ rpc' = "free"
    /\ UNCHANGED <<pcieVars, lock, devVars, refVars, callVars, irqVars>>

\* kfree(dma->buf), dma_free_coherent, pci_clear_master, pci_iounmap...
FreeBuffers ==
    /\ rpc = "free"
    /\ table' = <<>>
    /\ ram' = Zero
    /\ rpc' = "put"
    /\ UNCHANGED <<intRegs, dmaRegs, xferRegs, mem, window>>
    /\ UNCHANGED <<lock, devVars, refVars, callVars, irqVars>>

put_device ==
    /\ rpc = "put"
    /\ dev_ref' = dev_ref - 1
    /\ rpc' = "gone"
    /\ UNCHANGED <<pcieVars, lock, devVars, cdev_ref, callVars, irqVars>>

-----------------------------------------------------------------------------
Complete ==
    /\ ldd_pcie_complete
    /\ UNCHANGED <<lock, devVars, refVars, callVars, irqVars, rpc>>

\* The driver is gone and every file closed.
Finished ==
    /\ rpc = "gone"
    /\ \A t \in Threads : pc[t] = "closed"
    /\ UNCHANGED vars

File(t) == Lookup(t) \/ dma_open(t) \/ Close(t) \/ dma_release(t) \/ Closed(t)

dma_xfer(t) ==
    \/ Map(t) \/ Program(t) \/ reinit_completion(t) \/ Start(t)
    \/ WaitDone(t) \/ WaitTimeout(t)
    \/ Reset(t) \/ synchronize_irq(t) \/ Unmask(t)
    \/ CheckResult(t) \/ Unmap(t)

\* dma_read is Lock, dma_xfer and Copy; dma_write Lock, Fill and dma_xfer.
ReadWrite(t) ==
    Lock(t) \/ Interrupted(t) \/ Fill(t) \/ dma_xfer(t) \/ Copy(t) \/ Unlock(t)

dma_probe == RequestIrq \/ ProbeAck \/ ProbeUnmask \/ cdev_device_add

dma_remove ==
    cdev_device_del \/ SetRemoved \/ Mask \/ free_irq \/ FreeBuffers \/ put_device

Next ==
    \/ \E t \in Threads : File(t) \/ Call(t) \/ ReadWrite(t)
    \/ Interrupt \/ SharedInterrupt \/ dma_handler
    \/ Complete
    \/ dma_probe \/ dma_remove
    \/ Finished

Spec == Init /\ [][Next]_vars

\* The scheduler runs every thread, a handler that has been called and the
\* driver core; the device's timer fires; a mutex released over and over is
\* not kept from one of its waiters for ever.  free_irq unlinks the handler
\* before it waits for it, so calls for other devices on the line cannot hold
\* it up for ever; for synchronize_irq, which does not, it is assumed that
\* they leave gaps in which it finds the handler idle.  When files are
\* opened, calls made, files closed and the driver unbound is up to the user.
Fairness ==
    /\ \A t \in Threads :
        /\ WF_vars(dma_open(t) \/ dma_release(t) \/ Closed(t))
        /\ WF_vars(Fill(t) \/ dma_xfer(t) \/ Copy(t) \/ Unlock(t))
        /\ SF_vars(Lock(t) \/ synchronize_irq(t))
    /\ WF_vars(Interrupt \/ dma_handler)
    /\ WF_vars(Complete)
    /\ WF_vars(dma_probe \/ Mask \/ FreeBuffers \/ put_device)
    /\ SF_vars(SetRemoved \/ free_irq)

FairSpec == Spec /\ Fairness

-----------------------------------------------------------------------------
(* Properties *)

\* Every variable has a value of its kind.
TypeOK ==
    /\ PcieTypeOK
    /\ window \subseteq 0..CHUNK - 1
    /\ lock \in Threads \cup {None}
    /\ removed \in BOOLEAN
    /\ dma_done \in 0..1
    /\ dstat \subseteq DMA_BITS
    /\ dev_ref \in Nat
    /\ cdev_ref \in Nat
    /\ pc \in [Threads -> PC]
    /\ call \in [Threads -> [toRam : BOOLEAN, pos : 0..MEM_SIZE, count : 0..CHUNK]]
    /\ ret \in [Threads -> Ret]
    /\ hpc \in {"idle", "read", "ack", "store", "complete"}
    /\ hstat \subseteq DMA_BITS
    /\ rpc \in RPC
    /\ mem \in [0..MEM_SIZE - 1 -> Byte]
    /\ ram \in Buf
    /\ ubuf \in [Threads -> Buf]

\* The buffer belongs to one side at a time.  While the device is BUSY the
\* buffer is mapped, in particular dma_xfer does not unmap it, on any path
\* (main.c:86-92); and when the CPU copies to or from it, it is neither
\* mapped nor in use by the device.
BufferOwnership ==
    /\ status = "BUSY" => window # {}
    /\ \A t \in Threads : pc[t] \in {"fill", "copy"} => /\ window = {}
                                                       /\ status # "BUSY"

\* A transfer is never programmed or started on a device still BUSY, which
\* would ignore the writes and let the wait end with the other's completion.
StartAccepted ==
    \A t \in Threads : pc[t] \in {"program", "reinit", "start"} => status # "BUSY"

\* The completion a call has waited for is its own transfer's: the device
\* has finished, and dma->int_status is what it finished with.
OwnCompletion ==
    \A t \in Threads : pc[t] = "result" => /\ status \in DMA_BITS
                                           /\ dstat = {status}

\* When a call is about to return success, its bytes are in the on-board
\* memory (a write) or are those of the on-board memory, each XORed with the
\* register (a read).
DataMoved ==
    \A t \in Threads :
        pc[t] = "unlock" /\ ret[t] = "OK" =>
            \A i \in 0..call[t].count - 1 :
                ubuf[t][i] = IF call[t].toRam THEN XorByte(mem[call[t].pos + i], xor)
                                              ELSE mem[call[t].pos + i]

\* The interrupt of a finished transfer is not lost: as long as a call
\* waits for it, the completion is done, or a handler that has seen it is on
\* its way there, or it is still to be seen by one that runs or will run.
InterruptNotLost ==
    \A t \in Threads :
        pc[t] = "wait" /\ status \in DMA_BITS =>
            \/ dma_done > 0
            \/ hpc \in {"ack", "store", "complete"}
            \/ status \in int_status /\ (hpc = "read" \/ msgs # {} \/ line)

\* Nothing is used after dma_remove, or the last close, has freed it: no
\* transfer, thread or handler is left when the buffers and the registers
\* go, and the structure goes with the last of the driver and its files.
NoUseAfterFree ==
    /\ rpc \in {"put", "gone"} =>
        /\ hpc = "idle"
        /\ status # "BUSY"
        /\ \A t \in Threads : pc[t] \notin Locked \ {"unlock"}
    /\ dev_ref = 0 <=> rpc = "gone" /\ \A t \in Threads : pc[t] = "closed"

\* Every call returns, whatever the device and the other threads do.
CallReturns == \A t \in Threads : pc[t] = "lock" ~> pc[t] = "open"

\* dma_remove, once begun, ends, also while files are open and calls made.
RemoveEnds == rpc = "removed" ~> rpc = "gone"
=============================================================================
