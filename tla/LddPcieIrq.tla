----------------------------- MODULE LddPcieIrq -----------------------------
(***************************************************************************)
(* tools/qemu/hw/ldd/pcie.c: the interrupts of the ldd-pcie device, as the *)
(* drivers of examples 26, 27 and 28 see them.  Registers are variables    *)
(* named after regs.*; each register write a driver makes is an action of  *)
(* this module, to be conjoined with the step of the driver that makes it. *)
(*                                                                         *)
(* Interrupts reach the CPU in two ways: msgs holds the MSI or MSI-X       *)
(* vectors sent and not yet taken by the CPU (a second message for a       *)
(* vector already there merges with it, as in an interrupt controller's    *)
(* request register), line is the level of INTA#.                          *)
(***************************************************************************)
EXTENDS Integers

CONSTANT Modes  \* bound: what pci_alloc_irq_vectors may find

ASSUME IrqAssumption == Modes \subseteq {"MSIX", "MSI", "INTX"}

INT_ALL == {"DONE", "ERROR", "SOFT"}

VARIABLES mode,        \* the interrupts the driver enabled: MSIX, MSI or INTX
          int_status,  \* INT_STATUS, the set of its bits
          int_mask,    \* INT_MASK
          irq_sent,    \* pending bits already signalled
          msgs,        \* MSI or MSI-X vectors on their way to the CPU
          line         \* level of INTA#

intRegs == <<mode, int_status, int_mask, irq_sent, msgs, line>>

\* Bit n of INT_STATUS uses MSI-X vector n; with MSI all share vector 0.
Vector(bit) ==
    IF mode # "MSIX" \/ bit = "DONE" THEN 0
    ELSE IF bit = "ERROR" THEN 1 ELSE 2

Vectors == 0..2

IrqTypeOK ==
    /\ mode \in Modes
    /\ int_status \subseteq INT_ALL
    /\ int_mask \subseteq INT_ALL
    /\ irq_sent \subseteq INT_ALL
    /\ msgs \subseteq Vectors
    /\ line \in BOOLEAN

\* After power-on; leftover: the INT_STATUS bits that a driver bound earlier
\* may have left set, every interrupt being masked.
IrqInit(leftover) ==
    /\ mode \in Modes
    /\ int_status \in SUBSET leftover
    /\ int_mask = {}
    /\ irq_sent = {}
    /\ msgs = {}
    /\ line = FALSE

\* Signal what status & mask holds: a message for each newly pending bit, or
\* the level of the line.  Called with the new values of the two registers.
ldd_pcie_update_irq(newStatus, newMask) ==
    LET pending == newStatus \cap newMask
        new == pending \ irq_sent
    IN  /\ int_status' = newStatus
        /\ int_mask' = newMask
        /\ irq_sent' = pending
        /\ UNCHANGED mode
        /\ IF mode = "INTX"
           THEN /\ line' = (pending # {})
                /\ UNCHANGED msgs
           ELSE /\ line' = FALSE
                /\ msgs' = msgs \cup {Vector(b) : b \in new}

\* Writes to INT_STATUS (write 1 to clear), INT_MASK and INT_RAISE.
WriteIntStatus(bits) == ldd_pcie_update_irq(int_status \ bits, int_mask)

WriteIntMask(bits) == ldd_pcie_update_irq(int_status, bits \cap INT_ALL)

WriteIntRaise(bits) ==
    ldd_pcie_update_irq(int_status \cup (bits \cap INT_ALL), int_mask)

\* The CPU takes one of the messages, or sees the line asserted.
TakeInterrupt(v) ==
    /\ IF mode = "INTX" THEN line /\ v = 0 /\ UNCHANGED msgs
                        ELSE v \in msgs /\ msgs' = msgs \ {v}
    /\ UNCHANGED <<mode, int_status, int_mask, irq_sent, line>>
=============================================================================
