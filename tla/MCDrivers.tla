------------------------------- MODULE MCDrivers ------------------------------
(* Instances of Short, DmaSg, Tty, Deferred, AsyncIo and Poll for TLC, one *)
(* at a time, so that their state spaces add up.  Of Short there are two,  *)
(* one without a viewer of the panel and one with a viewer and fewer calls.*)
EXTENDS Short, DmaSg, Tty, Deferred, AsyncIo, Poll

CONSTANTS t1, t2

VARIABLE driver

ShortSpans == {<<0, 8>>, <<6, 8>>}

\* Exclusive or of three-bit bytes.
XorThree(a, b) ==
  LET Bit(k) == (((a \div k) + (b \div k)) % 2) * k
  IN  Bit(1) + Bit(2) + Bit(4)

\* A buffer on three pages, the last two neighbours on the bus, and calls that begin in
\* the middle of a page, end in one, run out of descriptors and run out of memory.
ScatteredPages == <<2, 0, 1>>
SgCallSet ==
  {[toRam |-> FALSE, pos |-> 0, start |-> 1, count |-> 5],
   [toRam |-> TRUE, pos |-> 1, start |-> 0, count |-> 3],
   [toRam |-> TRUE, pos |-> 3, start |-> 2, count |-> 4],
   [toRam |-> FALSE, pos |-> 5, start |-> 2, count |-> 4]}

Texts == {<<"a">>, <<"\n">>, <<"\r">>, <<"a", "\n">>, <<"\r", "\n">>,
          <<"\r", "b">>, <<"a", "b", "a">>}

Init ==
  /\ driver \in {"short", "panel", "dma_sg", "tty", "deferred", "async_io", "poll"}
  /\ ShortInit /\ SgInit /\ TtyInit /\ DeferInit /\ AioInit /\ PollInit
  /\ panel.viewer = IF driver = "panel" THEN "closed" ELSE "none"
  /\ driver # "dma_sg" => mode = "MSI"

Next ==
  /\ UNCHANGED driver
  /\ \/ driver = "short" /\ ShortNext
     \/ driver = "panel" /\ ShortNext /\ loads' < 2 /\ bytes' < 2 /\ calls' < 2
     \/ driver = "dma_sg" /\ SgNext
     \/ driver = "tty" /\ TtyNext
     \/ driver = "deferred" /\ DeferNext
     \/ driver = "async_io" /\ AioNext
     \/ driver = "poll" /\ PollNext
  /\ driver \notin {"short", "panel"} => UNCHANGED shortVars
  /\ driver # "dma_sg" => UNCHANGED sgVars
  /\ driver # "tty" => UNCHANGED ttyVars
  /\ driver # "deferred" => UNCHANGED dqVars
  /\ driver # "async_io" => UNCHANGED aioVars
  /\ driver # "poll" => UNCHANGED pollVars

Spec == Init /\ [][Next]_<<driver, shortVars, sgVars, ttyVars, dqVars, aioVars, pollVars>>

\* The threads of every driver, and the files of the tty, are t1 and t2.
Symmetry == Permutations({t1, t2})
===============================================================================
