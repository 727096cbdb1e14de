---------------------------- MODULE MsiInterrupt ----------------------------
(***************************************************************************)
(* examples/26_msi_interrupt/main.c on the interrupts of the ldd-pcie      *)
(* device (module LddPcieIrq): three events, raised through sysfs,         *)
(* delivered over three MSI-X vectors, one MSI vector or a shared INTx     *)
(* line, and counted by the handlers.  The DMA engine stays idle.          *)
(***************************************************************************)
EXTENDS LddPcieIrq

CONSTANTS MaxRaise,  \* bound: writes to the sysfs file raise
          Leftover   \* INT_STATUS bits a previous driver may have left set

ASSUME MsiAssumption ==
    /\ MaxRaise \in Nat
    /\ Leftover \subseteq INT_ALL

VARIABLES count,   \* msi->count, per event
          nirq,    \* vectors with a handler registered: 0 .. nirq - 1
          hpc,     \* where the handler of each vector is
          hstat,   \* the events it handles
          rpc,     \* where msi_probe and msi_remove are
          raised,  \* history: how often each bit went from 0 to 1
          calls    \* writes to raise so far

vars == <<intRegs, count, nirq, hpc, hstat, rpc, raised, calls>>

\* msi->nvec, what alloc_vectors got.
nvec == IF mode = "MSIX" THEN 3 ELSE 1

RPC == {"mask", "clear", "request", "unmask", "bound", "quiesce", "free", "gone"}

Init ==
    /\ IrqInit(Leftover)
    /\ count = [b \in INT_ALL |-> 0]
    /\ nirq = 0
    /\ hpc = [v \in Vectors |-> "idle"]
    /\ hstat = [v \in Vectors |-> {}]
    /\ rpc = "mask"
    /\ raised = [b \in INT_ALL |-> 0]
    /\ calls = 0

-----------------------------------------------------------------------------
(* sysfs.  The file exists between probe and remove. *)

raise_store(bits) ==
    /\ rpc = "bound"
    /\ calls < MaxRaise
    /\ WriteIntRaise(bits)
    /\ raised' = [b \in INT_ALL |-> raised[b] + IF b \in bits \ int_status THEN 1 ELSE 0]
    /\ calls' = calls + 1
    /\ UNCHANGED <<count, nirq, hpc, hstat, rpc>>

-----------------------------------------------------------------------------
(* The handlers.  One instance runs per vector, of different vectors at    *)
(* the same time.                                                          *)

\* msi_vec_handler knows its event; msi_handler has to read.
Interrupt(v) ==
    /\ v < nirq
    /\ hpc[v] = "idle"
    /\ TakeInterrupt(v)
    /\ hpc' = [hpc EXCEPT ![v] = IF mode = "MSIX" THEN "ack" ELSE "read"]
    /\ hstat' = [hstat EXCEPT ![v] =
                   IF mode = "MSIX" THEN {b \in INT_ALL : Vector(b) = v} ELSE {}]
    /\ UNCHANGED <<count, nirq, rpc, raised, calls>>

\* Another device on the line.
SharedInterrupt ==
    /\ mode = "INTX"
    /\ 0 < nirq
    /\ hpc[0] = "idle"
    /\ hpc' = [hpc EXCEPT ![0] = "read"]
    /\ UNCHANGED <<intRegs, count, nirq, hstat, rpc, raised, calls>>

HandlerRead(v) ==
    /\ hpc[v] = "read"
    /\ hstat' = [hstat EXCEPT ![v] = int_status]
    /\ hpc' = [hpc EXCEPT ![v] = IF int_status = {} THEN "idle" ELSE "ack"]
    /\ UNCHANGED <<intRegs, count, nirq, rpc, raised, calls>>

\* Mutant: everything is cleared, not what was read.
HandlerAckAll(v) ==
    /\ hpc[v] = "ack"
    /\ WriteIntStatus(INT_ALL)
    /\ hpc' = [hpc EXCEPT ![v] = "count"]
    /\ UNCHANGED <<count, nirq, hstat, rpc, raised, calls>>

HandlerAck(v) ==
    /\ hpc[v] = "ack"
    /\ WriteIntStatus(hstat[v])
    /\ hpc' = [hpc EXCEPT ![v] = "count"]
    /\ UNCHANGED <<count, nirq, hstat, rpc, raised, calls>>

count_events(v) ==
    /\ hpc[v] = "count"
    /\ count' = [b \in INT_ALL |-> count[b] + IF b \in hstat[v] THEN 1 ELSE 0]
    /\ hpc' = [hpc EXCEPT ![v] = "idle"]
    /\ hstat' = [hstat EXCEPT ![v] = {}]
    /\ UNCHANGED <<intRegs, nirq, rpc, raised, calls>>

Handler(v) == HandlerRead(v) \/ HandlerAck(v) \/ count_events(v)

-----------------------------------------------------------------------------
(* msi_probe, from the first register write on, and msi_remove. *)

ProbeMask ==
    /\ rpc = "mask"
    /\ WriteIntMask({})
    /\ rpc' = "clear"
    /\ UNCHANGED <<count, nirq, hpc, hstat, raised, calls>>

ProbeClear ==
    /\ rpc = "clear"
    /\ WriteIntStatus(INT_ALL)
    /\ rpc' = "request"
    /\ UNCHANGED <<count, nirq, hpc, hstat, raised, calls>>

\* The vectors one by one; a failure frees those requested so far.
request_irq ==
    /\ rpc = "request"
    /\ \/ /\ nirq' = nirq + 1
          /\ rpc' = IF nirq' = nvec THEN "unmask" ELSE "request"
       \/ /\ rpc' = "free"
          /\ UNCHANGED nirq
    /\ UNCHANGED <<intRegs, count, hpc, hstat, raised, calls>>

\* Mutant: one of the events stays masked.
ProbeUnmaskTwo ==
    /\ rpc = "unmask"
    /\ WriteIntMask({"DONE", "ERROR"})
    /\ rpc' = "bound"
    /\ UNCHANGED <<count, nirq, hpc, hstat, raised, calls>>

ProbeUnmask ==
    /\ rpc = "unmask"
    /\ WriteIntMask(INT_ALL)
    /\ rpc' = "bound"
    /\ UNCHANGED <<count, nirq, hpc, hstat, raised, calls>>

\* The sysfs files go first.
RemoveFiles ==
    /\ rpc = "bound"
    /\ rpc' = "quiesce"
    /\ UNCHANGED <<intRegs, count, nirq, hpc, hstat, raised, calls>>

\* Mutant: the device may still interrupt while its handlers go away.
RemoveNoMask ==
    /\ rpc = "quiesce"
    /\ rpc' = "free"
    /\ UNCHANGED <<intRegs, count, nirq, hpc, hstat, raised, calls>>

RemoveMask ==
    /\ rpc = "quiesce"
    /\ WriteIntMask({})
    /\ rpc' = "free"
    /\ UNCHANGED <<count, nirq, hpc, hstat, raised, calls>>

\* free_irqs, last vector first, each waiting for its handler; then the
\* structure is freed.
free_irqs ==
    /\ rpc = "free"
    /\ \/ /\ nirq > 0
          /\ hpc[nirq - 1] = "idle"
          /\ nirq' = nirq - 1
          /\ UNCHANGED rpc
       \/ /\ nirq = 0
          /\ rpc' = "gone"
          /\ UNCHANGED nirq
    /\ UNCHANGED <<intRegs, count, hpc, hstat, raised, calls>>

msi_probe == ProbeMask \/ ProbeClear \/ request_irq \/ ProbeUnmask
msi_remove == RemoveMask \/ free_irqs

Finished == rpc = "gone" /\ UNCHANGED vars

Next ==
    \/ \E bits \in SUBSET INT_ALL \ {{}} : raise_store(bits)
    \/ \E v \in Vectors : Interrupt(v) \/ Handler(v)
    \/ SharedInterrupt
    \/ msi_probe \/ RemoveFiles \/ msi_remove
    \/ Finished

Spec == Init /\ [][Next]_vars

\* Interrupts are delivered and handlers run to their end.
FairSpec ==
    /\ Spec
    /\ \A v \in Vectors : WF_vars(Interrupt(v)) /\ WF_vars(Handler(v))

-----------------------------------------------------------------------------
(* Properties *)

\* Every variable has a value of its kind.
TypeOK ==
    /\ IrqTypeOK
    /\ count \in [INT_ALL -> Nat]
    /\ nirq \in 0..nvec
    /\ hpc \in [Vectors -> {"idle", "read", "ack", "count"}]
    /\ hstat \in [Vectors -> SUBSET INT_ALL]
    /\ rpc \in RPC
    /\ raised \in [INT_ALL -> Nat]
    /\ calls \in 0..MaxRaise

\* Each time an event's bit goes from 0 to 1 it is counted once, by one
\* handler, however the raises, the handlers of the vectors and remove
\* interleave: what is not counted yet is still set, or in the hands of a
\* handler that has cleared it.
CountedOnce ==
    rpc \notin {"mask", "clear"} =>
        \A b \in INT_ALL :
            raised[b] = count[b] + (IF b \in int_status THEN 1 ELSE 0)
                        + (IF \E v \in Vectors : hpc[v] = "count" /\ b \in hstat[v]
                           THEN 1 ELSE 0)

\* No event is swallowed: while the driver is bound, a bit that is set has
\* an interrupt on its way or a handler that is going to clear it, so the
\* next event of its kind will interrupt too (comment at msi_vec_handler).
NotSwallowed ==
    rpc = "bound" =>
        \A b \in int_status :
            \/ Vector(b) \in msgs
            \/ line
            \/ hpc[Vector(b)] = "read"
            \/ hpc[Vector(b)] = "ack" /\ b \in hstat[Vector(b)]

\* The device has stopped interrupting before its handlers go away, and no
\* handler runs once the structure is freed.
QuietRemove ==
    /\ rpc \in {"free", "gone"} => int_mask = {} /\ ~line
    /\ \A v \in Vectors : v >= nirq => hpc[v] = "idle"

\* Every event is counted in the end, as long as the driver stays bound.
EventCounted ==
    \A b \in INT_ALL, n \in 1..MaxRaise :
        raised[b] >= n ~> count[b] >= n \/ rpc # "bound"
=============================================================================
