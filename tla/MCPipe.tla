------------------------------- MODULE MCPipe -------------------------------
(* Instances of Pipe for TLC. *)
EXTENDS Pipe, TLC

CONSTANTS r1, r2, w1, w2

\* Writes of no byte, of one and of three, told apart by their bytes.
UpToThree == {<<>>, <<1>>, <<0, 1, 0>>}

\* Threads of one side are interchangeable.
Symmetry == Permutations(Readers) \cup Permutations(Writers)
=============================================================================
