------------------------------ MODULE LddPcie ------------------------------
(***************************************************************************)
(* tools/qemu/hw/ldd/pcie.c: the whole ldd-pcie device, as the drivers of  *)
(* examples 27 and 28 see it: its interrupts (module LddPcieIrq) and its   *)
(* DMA engine.  The interrupt registers leave the engine alone: a step     *)
(* that writes one of them leaves <<dmaRegs, xferRegs, mem, guest>>        *)
(* unchanged.                                                              *)
(***************************************************************************)
EXTENDS LddPcieIrq, Sequences, FiniteSets

CONSTANTS Byte,      \* the values of a byte: 0 .. a power of two - 1
          XorByte(_, _), \* exclusive or of two bytes
          MEM_SIZE,  \* LDD_MEM_SIZE
          MAX_SEG,   \* max-seg property
          MAX_DESC   \* max-desc property

ASSUME PcieAssumption ==
    /\ 0 \in Byte
    /\ \A a, b \in Byte : XorByte(a, b) \in Byte
    /\ MEM_SIZE \in Nat \ {0}
    /\ MAX_SEG \in Nat \ {0}
    /\ MAX_DESC \in Nat \ {0}

\* ERR_CODE; "OK" stands for 0.
Result == {"OK", "NO_MASTER", "BAD_COUNT", "BAD_DESC", "OUT_OF_RANGE",
           "DMA_FAULT"}

VARIABLES status,      \* STATUS: "NONE", "BUSY", "DONE" or "ERROR"
          desc_count,  \* DESC_COUNT
          dev_offset,  \* DEV_OFFSET
          to_guest,    \* DMA_CTRL.DIR
          xor,         \* XOR
          xfer_bytes,  \* XFER_BYTES
          err_desc,    \* ERR_DESC
          result,      \* ERR_CODE to report when the timer fires
          timer,       \* TRUE: the completion timer is armed
          mem,         \* the on-board memory
          \* what a driver lends to the device:
          table,       \* the descriptors: a sequence of [addr, len, flags]
          ram,         \* the byte at each bus address
          window       \* the bus addresses mapped for the device

dmaRegs == <<desc_count, dev_offset, to_guest, xor>>
xferRegs == <<status, xfer_bytes, err_desc, result, timer>>
guest == <<table, ram, window>>
pcieVars == <<intRegs, dmaRegs, xferRegs, mem, guest>>

PcieTypeOK ==
    /\ IrqTypeOK
    /\ status \in {"NONE", "BUSY", "DONE", "ERROR"}
    /\ desc_count \in Nat
    /\ dev_offset \in Nat
    /\ to_guest \in BOOLEAN
    /\ xor \in Byte
    /\ xfer_bytes \in Nat
    /\ err_desc \in Nat
    /\ result \in Result
    /\ timer \in BOOLEAN

\* The device as it is after power-on.
PcieInit(leftover) ==
    /\ IrqInit(leftover)
    /\ status = "NONE"
    /\ desc_count = 0
    /\ dev_offset = 0
    /\ to_guest = FALSE
    /\ xor = 0
    /\ xfer_bytes = 0
    /\ err_desc = 0
    /\ result = "OK"
    /\ timer = FALSE
    /\ mem = [m \in 0..MEM_SIZE - 1 |-> 0]

\* Everything in regs is zeroed and the timer stopped: a transfer in
\* progress is abandoned, with no interrupt.  Messages already sent, and the
\* on-board memory, are out of its reach.
ldd_pcie_reset ==
    /\ status' = "NONE"
    /\ int_status' = {}
    /\ int_mask' = {}
    /\ irq_sent' = {}
    /\ desc_count' = 0
    /\ dev_offset' = 0
    /\ to_guest' = FALSE
    /\ xor' = 0
    /\ xfer_bytes' = 0
    /\ err_desc' = 0
    /\ result' = "OK"
    /\ timer' = FALSE
    /\ line' = FALSE
    /\ UNCHANGED <<mode, mem, msgs, guest>>

-----------------------------------------------------------------------------
(* The DMA engine. *)

\* Writes to DESC_ADDR, DESC_COUNT and DEV_OFFSET, ignored while BUSY, and
\* to XOR, which is not.
WriteDesc(n, off, x) ==
    /\ xor' = x
    /\ IF status = "BUSY" THEN UNCHANGED <<desc_count, dev_offset>>
                          ELSE desc_count' = n /\ dev_offset' = off
    /\ UNCHANGED <<intRegs, xferRegs, to_guest, mem, guest>>

\* Where in the on-board memory each segment of t starts; the last entry is
\* where they end.
SegOffset(t) ==
    LET o[i \in 1..Len(t) + 1] ==
            IF i = 1 THEN dev_offset ELSE o[i - 1] + t[i - 1].len
    IN  o

BadDesc(t) ==
    {i \in 1..Len(t) : \/ t[i].len = 0
                       \/ t[i].len > MAX_SEG
                       \/ t[i].flags # 0}

\* A DMA access fails when an address is not mapped for the device, or out
\* of its reach, and may fail for the platform's own reasons.  f is the
\* segment whose copy fails, the number of segments + 1 when none does, 0
\* when the table itself cannot be read.
FirstFault(t, f) ==
    \A i \in 1..Len(t) : t[i].addr..(t[i].addr + t[i].len - 1) \subseteq window
                         \/ f <= i

\* The segments copied when segment f fails after k of its bytes.
Moved(t, f, k) ==
    IF f > Len(t) THEN t ELSE Append(SubSeq(t, 1, f - 1), [t[f] EXCEPT !.len = k])

\* The on-board memory after the segments of t have been copied from ram.
CopyIn(t) ==
    LET o == SegOffset(t)
        At(i, m) == o[i] <= m /\ m < o[i + 1]
    IN  [m \in DOMAIN mem |->
            IF \E i \in DOMAIN t : At(i, m)
            THEN LET i == CHOOSE j \in DOMAIN t : At(j, m)
                 IN  ram[t[i].addr + m - o[i]]
            ELSE mem[m]]

\* ram after the segments of t have been copied to it, in order.
CopyOut(t) ==
    LET o == SegOffset(t)
        At(i, a) == t[i].addr <= a /\ a < t[i].addr + t[i].len
    IN  [a \in DOMAIN ram |->
            IF \E i \in DOMAIN t : At(i, a)
            THEN LET i == CHOOSE j \in DOMAIN t :
                            At(j, a) /\ \A k \in DOMAIN t : At(k, a) => k <= j
                 IN  XorByte(mem[o[i] + a - t[i].addr], xor)
            ELSE ram[a]]

\* The outcome of a transfer: its ERR_CODE, ERR_DESC and XFER_BYTES.  Every
\* check comes before any data is moved, except DMA faults.
Report(code, d, n) == result' = code /\ err_desc' = d /\ xfer_bytes' = n

ldd_pcie_transfer(toRam, master) ==
    LET n == desc_count
        t == SubSeq(table, 1, n)
        Fail(code, d) == Report(code, d, 0) /\ UNCHANGED <<mem, ram>>
    IN  IF ~master THEN Fail("NO_MASTER", 0)
        ELSE IF n = 0 \/ n > MAX_DESC THEN Fail("BAD_COUNT", 0)
        ELSE \/ Fail("DMA_FAULT", 0)
             \/ /\ BadDesc(t) # {}
                /\ \E i \in BadDesc(t) : /\ \A j \in BadDesc(t) : i <= j
                                         /\ Fail("BAD_DESC", i - 1)
             \/ /\ BadDesc(t) = {}
                /\ SegOffset(t)[n + 1] > MEM_SIZE
                /\ Fail("OUT_OF_RANGE", 0)
             \/ /\ BadDesc(t) = {}
                /\ SegOffset(t)[n + 1] <= MEM_SIZE
                /\ \E f \in 1..n + 1 :
                    /\ FirstFault(t, f)
                    /\ IF f > n THEN Report("OK", 0, SegOffset(t)[n + 1] - dev_offset)
                       ELSE Report("DMA_FAULT", f - 1, SegOffset(t)[f] - dev_offset)
                    /\ \E k \in IF f > n THEN {0} ELSE 0..t[f].len - 1 :
                         IF toRam
                         THEN ram' = CopyOut(Moved(t, f, k)) /\ UNCHANGED mem
                         ELSE mem' = CopyIn(Moved(t, f, k)) /\ UNCHANGED ram

\* A write of DMA_CTRL with START: the data is moved now, only the
\* completion is delayed.  Ignored while BUSY.
ldd_pcie_start(toRam, master) ==
    IF status = "BUSY" THEN UNCHANGED pcieVars
    ELSE /\ to_guest' = toRam
         /\ status' = "BUSY"
         /\ ldd_pcie_transfer(toRam, master)
         /\ timer' = TRUE
         /\ UNCHANGED <<intRegs, desc_count, dev_offset, xor, table, window>>

\* The timer fires.
ldd_pcie_complete ==
    /\ timer
    /\ timer' = FALSE
    /\ status' = IF result = "OK" THEN "DONE" ELSE "ERROR"
    /\ ldd_pcie_update_irq(int_status \cup {IF result = "OK" THEN "DONE" ELSE "ERROR"},
                           int_mask)
    /\ UNCHANGED <<dmaRegs, xfer_bytes, err_desc, result, mem, guest>>
=============================================================================
