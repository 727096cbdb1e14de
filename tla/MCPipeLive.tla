----------------------------- MODULE MCPipeLive -----------------------------
(***************************************************************************)
(* Liveness of Pipe for TLC, with one driver or the other: 09 is called by *)
(* all readers and a writer, 08 by one reader and a writer.                *)
(***************************************************************************)
EXTENDS Pipe

CONSTANTS r1, r2, w1

VARIABLES driver, \* the driver that is loaded
          out     \* the readers that never call it

\* The bytes do not matter, only how many there are.
UpToOne == {<<>>, <<0>>}

mcvars == <<vars, driver, out>>

MCInit ==
    /\ Init
    /\ \/ driver = "09" /\ out = {}
       \/ driver = "08" /\ out = Readers \ {r1}

MCNext ==
    /\ \/ driver = "09" /\ NextAdvanced
       \/ driver = "08" /\ NextSimple
    /\ \A p \in out : pc'[p] = "idle"
    /\ UNCHANGED <<driver, out>>

MCSpec == MCInit /\ [][MCNext]_mcvars

\* The fairness of FairAdvanced or of FairSimple.
Runs(p) ==
    \/ driver = "09" /\ p \in Readers /\ pipe_read(p)
    \/ driver = "09" /\ p \in Writers /\ pipe_write(p)
    \/ driver = "08" /\ p \in Readers /\ pipe_read_simple(p)
    \/ driver = "08" /\ p \in Writers /\ pipe_write_simple(p)

MCFairSpec ==
    /\ MCSpec
    /\ \A p \in Threads : WF_vars(Runs(p)) /\ SF_vars(Lock(p))
=============================================================================
