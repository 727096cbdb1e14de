------------------------------ MODULE MCUsbSkel -------------------------------
(* Instances of UsbSkel for TLC. *)
EXTENDS UsbSkel, TLC

\* Threads are interchangeable (safety run only).
Symmetry == Permutations(Files)
===============================================================================
