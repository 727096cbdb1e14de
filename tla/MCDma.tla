------------------------------- MODULE MCDma -------------------------------
(* Instances of Dma for TLC. *)
EXTENDS Dma

CONSTANTS t1, t2

\* Exclusive or of one-bit bytes.
XorBit(a, b) == (a + b) % 2

\* What an earlier driver leaves set: nothing; the end of a transfer under MSI
\* and, on a line, only a bit this driver does not use; the end of a transfer.
LeftByNone == [m \in Modes |-> {}]
LeftByMsi == [m \in Modes |-> IF m = "MSI" THEN {"DONE", "SOFT"} ELSE {"SOFT"}]
LeftByAny == [m \in Modes |-> {"DONE"}]
=============================================================================
