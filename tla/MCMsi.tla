------------------------------- MODULE MCMsi -------------------------------
(* Instances of MsiInterrupt for TLC. *)
EXTENDS MsiInterrupt
=============================================================================
