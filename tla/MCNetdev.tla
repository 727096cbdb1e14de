------------------------------- MODULE MCNetdev -------------------------------
(* Netdev on small pools and a few frames. *)
EXTENDS Netdev

TwoAndOne == [d \in Dev |-> 2 - d]
===============================================================================
