----------------------------- MODULE BufferProofs -----------------------------
(***************************************************************************)
(* Proofs about the drivers around a buffer: the pipes of                  *)
(* 08_pipe_simple_sleep and 09_pipe_advanced_sleep (module Pipe), for any  *)
(* threads, bytes and buffer size and for both ways of sleeping; the ring  *)
(* of 25_async_io (module AsyncIo); the flags of 10_poll (module Poll).    *)
(***************************************************************************)
EXTENDS Pipe, AsyncIo, Poll, TLAPS

-------------------------------------------------------------------------------
(* 08_pipe_simple_sleep and 09_pipe_advanced_sleep.                        *)

\* The mutex is held exactly by the thread that is between taking and giving
\* it back.
Holder == \A p \in Threads : pc[p] \in Locked <=> mutex = p

\* A thread about to wake the other side has just changed the buffer for it.
WakeHasCause ==
    /\ \A r \in Readers : pc[r] = "wake" => buff_len = 0
    /\ \A w \in Writers : pc[w] = "wake" => buff_len > 0

\* A thread about to copy found, under the mutex it still holds, that it may.
CopyAllowed == \A p \in Threads : pc[p] = "copy" => ~MustWait(p)

\* A thread is asleep only inside the wait, and then it is on its queue:
\* a wake-up can reach it.
AsleepIsQueued ==
    \A p \in Threads :
        state[p] = "INTERRUPTIBLE" =>
            /\ pc[p] \in {"test", "sched", "finish"}
            /\ pc[p] # "finish" => p \in queued

IInv ==
    /\ TypeOK
    /\ Holder
    /\ PositionsFit
    /\ WakeHasCause
    /\ CopyAllowed
    /\ AsleepIsQueued
    /\ NoLostWakeup

\* A thread is a reader or a writer, not both.
LEMMA Sides ==
    /\ Readers \subseteq Threads /\ Writers \subseteq Threads
    /\ \A p \in Threads : p \in Readers <=> p \notin Writers
    /\ None \notin Threads
BY PipeAssumption, Zenon DEF Threads

\* A function on 1..n is a sequence.
LEMMA FunIsSeq ==
    ASSUME NEW S, NEW n \in Nat, NEW f \in [1..n -> S]
    PROVE  f \in Seq(S)
OBVIOUS

\* A step in which the call goes on or returns keeps the types of the call.
LEMMA CallTypes ==
    ASSUME TypeOK, NEW p \in Threads, NEW to \in PC, Return(p) \/ Continue(p, to)
    PROVE  /\ (signal \in [Threads -> BOOLEAN])'
           /\ (pc \in [Threads -> PC])'
           /\ (count \in [Threads -> 0..MaxCount])'
           /\ (ubuf \in [Threads -> Seq(Byte)])'
           /\ (nonblock \in [Threads -> BOOLEAN])'
<1> USE PipeAssumption DEF TypeOK, Goto, call
<1>1. CASE Return(p)
  <2>1. "idle" \in PC /\ 0 \in 0..MaxCount /\ <<>> \in Seq(Byte)
        BY DEF PC
  <2> QED BY <1>1, <2>1, Zenon DEF Return
<1>2. CASE Continue(p, to)
      BY <1>2, Zenon DEF Continue
<1> QED BY <1>1, <1>2, Zenon

\* The three user actions keep the invariant.
LEMMA UserSteps == IInv /\ User => IInv'
<1> SUFFICES ASSUME IInv, User PROVE IInv'
    BY Zenon
<1> USE Sides, PipeAssumption DEF IInv, TypeOK, PC, dev, sched, call, Goto
<1>1. ASSUME NEW r \in Readers, NEW n \in 0..MaxCount, NEW nb \in Nonblock,
             CallRead(r, n, nb)
      PROVE  IInv'
  <2>1. TypeOK'
        BY <1>1 DEF CallRead
  <2>2. (Holder /\ PositionsFit /\ WakeHasCause /\ CopyAllowed)'
        BY <1>1 DEF CallRead, Holder, PositionsFit, WakeHasCause, CopyAllowed,
                    MustWait, Locked
  <2>3. (AsleepIsQueued /\ NoLostWakeup)'
        BY <1>1 DEF CallRead, AsleepIsQueued, NoLostWakeup, MustWait, Opposite
  <2> QED BY <2>1, <2>2, <2>3, ZenonT(30)
<1>2. ASSUME NEW w \in Writers, NEW d \in Message, NEW nb \in Nonblock,
             CallWrite(w, d, nb)
      PROVE  IInv'
  <2>1. d \in Seq(Byte)
        BY PipeAssumption, Zenon
  <2>2. TypeOK'
        BY <1>2, <2>1, Zenon DEF CallWrite
  <2>3. (Holder /\ PositionsFit /\ WakeHasCause /\ CopyAllowed)'
        BY <1>2 DEF CallWrite, Holder, PositionsFit, WakeHasCause, CopyAllowed,
                    MustWait, Locked
  <2>4. (AsleepIsQueued /\ NoLostWakeup)'
        BY <1>2 DEF CallWrite, AsleepIsQueued, NoLostWakeup, MustWait, Opposite
  <2> QED BY <2>2, <2>3, <2>4, ZenonT(30)
<1>3. ASSUME NEW p \in Threads, Signal(p)
      PROVE  IInv'
  <2>1. TypeOK'
        BY <1>3, Zenon DEF Signal
  <2>2. (Holder /\ PositionsFit /\ WakeHasCause /\ CopyAllowed)'
        BY <1>3, Zenon DEF Signal, Holder, PositionsFit, WakeHasCause, CopyAllowed,
                    MustWait
  <2>3. (AsleepIsQueued /\ NoLostWakeup)'
        BY <1>3 DEF Signal, AsleepIsQueued, NoLostWakeup, MustWait, Opposite
  <2> QED BY <2>1, <2>2, <2>3, ZenonT(30)
<1> QED BY <1>1, <1>2, <1>3, ZenonT(40) DEF User

\* The steps that take and give back the mutex, and the wake-up.
LEMMA SharedSteps ==
    ASSUME IInv, NEW p \in Threads, NEW sleep \in {"prepare", "fast"},
           Lock(p) \/ Check(p, sleep) \/ Wake(p) \/ Unlock(p)
    PROVE  IInv'
<1> USE Sides, PipeAssumption DEF IInv, TypeOK, PC, dev, sched, call, Goto
<1>1. CASE Lock(p)
  <2>1. PICK l \in {"check", "idle"} :
            /\ pc[p] = "lock"
            /\ pc' = [pc EXCEPT ![p] = l]
            /\ l = "check" => mutex = None
            /\ mutex' = IF l = "check" THEN p ELSE mutex
            /\ UNCHANGED <<buff, buff_len, rd_pos, queued, state>>
        BY <1>1 DEF Lock, Continue, Return
  <2>2. TypeOK'
        BY <1>1, CallTypes, Zenon DEF Lock
  <2>3. Holder'
        BY <2>1 DEF Holder, Locked
  <2>4. (PositionsFit /\ WakeHasCause /\ CopyAllowed)'
        BY <2>1, Zenon DEF Holder, Locked, PositionsFit, WakeHasCause, CopyAllowed, MustWait
  <2>5. AsleepIsQueued'
        BY <2>1 DEF AsleepIsQueued
  <2>6. NoLostWakeup'
        BY <2>1, Zenon DEF NoLostWakeup, MustWait, Opposite, WakeHasCause
  <2> QED BY <2>2, <2>3, <2>4, <2>5, <2>6, ZenonT(30)
<1>2. CASE Check(p, sleep)
  <2>1. PICK l \in {"copy", "idle", sleep} :
            /\ pc[p] = "check"
            /\ pc' = [pc EXCEPT ![p] = l]
            /\ l = "copy" => ~MustWait(p)
            /\ mutex' = IF l = "copy" THEN mutex ELSE None
            /\ UNCHANGED <<buff, buff_len, rd_pos, queued, state>>
        BY <1>2, Zenon DEF Check, Continue, Return
  <2>2. TypeOK'
    <3>1. Return(p) \/ \E to \in PC : Continue(p, to)
          BY <1>2, Zenon DEF Check
    <3> QED BY <2>1, <3>1, CallTypes, SMTT(30)
  <2>3. Holder'
        BY <2>1 DEF Holder, Locked
  <2>4. (PositionsFit /\ WakeHasCause /\ CopyAllowed)'
        BY <2>1 DEF Holder, Locked, PositionsFit, WakeHasCause, CopyAllowed, MustWait
  <2>5. AsleepIsQueued'
        BY <2>1 DEF AsleepIsQueued
  <2>6. NoLostWakeup'
        BY <2>1 DEF NoLostWakeup, MustWait, Opposite, WakeHasCause
  <2> QED BY <2>2, <2>3, <2>4, <2>5, <2>6, ZenonT(30)
<1>3. CASE Wake(p)
  <2>1. TypeOK'
        BY <1>3, Zenon DEF Wake, Continue, wake_up_interruptible, rd_queue, wr_queue
  <2>2. (Holder /\ PositionsFit /\ WakeHasCause /\ CopyAllowed)'
        BY <1>3 DEF Wake, Continue, wake_up_interruptible, rd_queue, wr_queue, Holder,
           PositionsFit, WakeHasCause, CopyAllowed, MustWait, Locked
  <2>3. (AsleepIsQueued /\ NoLostWakeup)'
        BY <1>3 DEF Wake, Continue, wake_up_interruptible, rd_queue, wr_queue, AsleepIsQueued,
           NoLostWakeup, MustWait, Opposite, WakeHasCause
  <2> QED BY <2>1, <2>2, <2>3, ZenonT(30)
<1>4. CASE Unlock(p)
  <2>1. TypeOK'
        BY <1>4 DEF Unlock, Return
  <2>2. (Holder /\ PositionsFit /\ WakeHasCause /\ CopyAllowed)'
        BY <1>4, ZenonT(40) DEF Unlock, Return, Holder, PositionsFit, WakeHasCause,
           CopyAllowed, MustWait, Locked
  <2>3. (AsleepIsQueued /\ NoLostWakeup)'
        BY <1>4 DEF Unlock, Return, AsleepIsQueued, NoLostWakeup, MustWait, Opposite
  <2> QED BY <2>1, <2>2, <2>3, ZenonT(30)
<1> QED BY <1>1, <1>2, <1>3, <1>4, ZenonT(40)

\* The copies, by a reader and by a writer.
LEMMA CopySteps ==
    ASSUME IInv,
           \/ \E r \in Readers : ReadCopy(r) \/ ReadFault(r)
           \/ \E w \in Writers : WriteCopy(w) \/ WriteFault(w)
    PROVE  IInv'
<1> USE Sides, PipeAssumption DEF IInv, TypeOK, PC, dev, sched, call, Goto
<1>1. ASSUME NEW r \in Readers, ReadCopy(r)
      PROVE  IInv'
  <2> DEFINE n == IF count[r] < buff_len - rd_pos THEN count[r] ELSE buff_len - rd_pos
             got == [i \in 1..n |-> buff[rd_pos + i - 1]]
  <2>1. buff_len > 0 /\ rd_pos < buff_len
        BY <1>1 DEF ReadCopy, CopyAllowed, MustWait, PositionsFit
  <2>2. n \in Nat /\ rd_pos + n <= buff_len
        BY <2>1
  <2>3. got \in [1..n -> Byte]
    <3> SUFFICES ASSUME NEW i \in 1..n PROVE buff[rd_pos + i - 1] \in Byte
        BY Zenon
    <3>1. rd_pos + i - 1 \in 0..BUFF_SIZE - 1
          BY <2>1, <2>2
    <3> QED BY <3>1, Zenon
  <2>4. got \in Seq(Byte)
        BY <2>2, <2>3, FunIsSeq, ZenonT(30)
  <2>5. TypeOK'
    <3>1. ubuf' = [ubuf EXCEPT ![r] = got]
          BY <1>1, Zenon DEF ReadCopy
    <3>2. ubuf' \in [Threads -> Seq(Byte)]
          BY <3>1, <2>4, Zenon
    <3> HIDE DEF got
    <3>3. (buff_len \in 0..BUFF_SIZE /\ rd_pos \in 0..BUFF_SIZE)'
          BY <1>1, <2>1, <2>2 DEF ReadCopy
    <3> QED BY <1>1, <3>2, <3>3, ZenonT(30) DEF ReadCopy
  <2>6. PICK l \in {"wake", "unlock"} :
            /\ pc[r] = "copy"
            /\ pc' = [pc EXCEPT ![r] = l]
            /\ buff_len' = IF l = "wake" THEN 0 ELSE buff_len
            /\ l = "wake" => rd_pos' = 0
            /\ l = "unlock" => rd_pos' < buff_len
            /\ UNCHANGED <<mutex, buff, queued, state>>
        BY <1>1, <2>1, <2>2 DEF ReadCopy
  <2>7. Holder'
        BY <2>6 DEF Holder, Locked
  <2>8. (PositionsFit /\ WakeHasCause /\ CopyAllowed)'
        BY <2>1, <2>6 DEF Holder, Locked, PositionsFit, WakeHasCause, CopyAllowed, MustWait
  <2>9. AsleepIsQueued'
        BY <2>6, ZenonT(40) DEF AsleepIsQueued
  <2>10. NoLostWakeup'
        BY <2>1, <2>6, Zenon DEF NoLostWakeup, MustWait, Opposite
  <2> QED BY <2>5, <2>7, <2>8, <2>9, <2>10, ZenonT(30)
<1>2. ASSUME NEW r \in Readers, ReadFault(r)
      PROVE  IInv'
  <2>1. TypeOK'
        BY <1>2, Zenon DEF ReadFault, Continue
  <2>2. (Holder /\ PositionsFit /\ WakeHasCause /\ CopyAllowed)'
        BY <1>2 DEF ReadFault, Continue, Holder, PositionsFit, WakeHasCause, CopyAllowed,
           MustWait, Locked
  <2>3. (AsleepIsQueued /\ NoLostWakeup)'
        BY <1>2 DEF ReadFault, Continue, AsleepIsQueued, NoLostWakeup, MustWait, Opposite,
           Locked, Holder
  <2> QED BY <2>1, <2>2, <2>3, ZenonT(30)
<1>3. ASSUME NEW w \in Writers, WriteCopy(w)
      PROVE  IInv'
  <2>1. WriteLen(w) \in 0..BUFF_SIZE /\ WriteLen(w) <= Len(ubuf[w])
        BY DEF WriteLen
  <2>2. buff' \in [0..BUFF_SIZE - 1 -> Byte]
        BY <1>3, <2>1 DEF WriteCopy, Overwrite
  <2>3. buff_len = 0 /\ rd_pos = 0
        BY <1>3 DEF WriteCopy, CopyAllowed, MustWait, PositionsFit
  <2>4. PICK l \in {"wake", "unlock"} :
            /\ pc[w] = "copy"
            /\ pc' = [pc EXCEPT ![w] = l]
            /\ buff_len' = WriteLen(w)
            /\ l = "wake" <=> WriteLen(w) > 0
            /\ rd_pos' = 0
            /\ UNCHANGED <<mutex, queued, state, signal, call>>
        BY <1>3, <2>1, <2>3 DEF WriteCopy
  <2>5. TypeOK'
        BY <2>1, <2>2, <2>4
  <2>6. Holder'
        BY <2>4 DEF Holder, Locked
  <2>7. (PositionsFit /\ WakeHasCause /\ CopyAllowed)'
        BY <2>1, <2>3, <2>4 DEF Holder, Locked, PositionsFit, WakeHasCause, CopyAllowed,
           MustWait
  <2>8. AsleepIsQueued'
        BY <2>4 DEF AsleepIsQueued
  <2>9. NoLostWakeup'
        BY <2>1, <2>3, <2>4 DEF NoLostWakeup, MustWait, Opposite
  <2> QED BY <2>5, <2>6, <2>7, <2>8, <2>9, ZenonT(30)
<1>4. ASSUME NEW w \in Writers, WriteFault(w)
      PROVE  IInv'
  <2>1. buff' \in [0..BUFF_SIZE - 1 -> Byte]
    <3>1. PICK k \in 0..WriteLen(w) : k < WriteLen(w) /\ buff' = Overwrite(ubuf[w], k)
          BY <1>4, Zenon DEF WriteFault
    <3> QED BY <3>1 DEF WriteLen, Overwrite
  <2>2. TypeOK'
        BY <1>4, <2>1, Zenon DEF WriteFault, Continue
  <2>3. (Holder /\ PositionsFit /\ WakeHasCause /\ CopyAllowed)'
        BY <1>4 DEF WriteFault, Continue, Holder, PositionsFit, WakeHasCause, CopyAllowed,
           MustWait, Locked
  <2>4. (AsleepIsQueued /\ NoLostWakeup)'
        BY <1>4 DEF WriteFault, Continue, AsleepIsQueued, NoLostWakeup, MustWait, Opposite
  <2> QED BY <2>2, <2>3, <2>4, ZenonT(30)
<1> QED BY <1>1, <1>2, <1>3, <1>4, ZenonT(40)

\* Going to sleep and waking up, as 09 and as 08 do it.
LEMMA SleepSteps ==
    ASSUME IInv, NEW p \in Threads, AdvancedSleep(p) \/ SimpleSleep(p)
    PROVE  IInv'
<1> USE Sides, PipeAssumption DEF IInv, TypeOK, PC, dev, sched, call, Goto
<1>1. CASE Prepare(p)
  <2>1. TypeOK'
        BY <1>1, Zenon DEF Prepare, Continue
  <2>2. (Holder /\ PositionsFit /\ WakeHasCause /\ CopyAllowed)'
        BY <1>1 DEF Prepare, Continue, Holder, PositionsFit, WakeHasCause, CopyAllowed,
           MustWait, Locked
  <2>3. (AsleepIsQueued /\ NoLostWakeup)'
        BY <1>1, ZenonT(40) DEF Prepare, Continue, AsleepIsQueued, NoLostWakeup, MustWait,
           Opposite
  <2> QED BY <2>1, <2>2, <2>3, ZenonT(30)
<1>2. CASE Test(p)
  <2>1. TypeOK'
        BY <1>2, Zenon DEF Test, Continue
  <2>2. (Holder /\ PositionsFit /\ WakeHasCause /\ CopyAllowed)'
        BY <1>2, ZenonT(40) DEF Test, Continue, Holder, PositionsFit, WakeHasCause,
           CopyAllowed, MustWait, Locked
  <2>3. (AsleepIsQueued /\ NoLostWakeup)'
        BY <1>2 DEF Test, Continue, AsleepIsQueued, NoLostWakeup, MustWait, Opposite
  <2> QED BY <2>1, <2>2, <2>3, ZenonT(30)
<1>3. CASE Schedule(p)
  <2>1. TypeOK'
        BY <1>3, Zenon DEF Schedule, Continue
  <2>2. (Holder /\ PositionsFit /\ WakeHasCause /\ CopyAllowed)'
        BY <1>3 DEF Schedule, Continue, Holder, PositionsFit, WakeHasCause, CopyAllowed,
           MustWait, Locked
  <2>3. (AsleepIsQueued /\ NoLostWakeup)'
        BY <1>3 DEF Schedule, Continue, AsleepIsQueued, NoLostWakeup, MustWait, Opposite
  <2> QED BY <2>1, <2>2, <2>3, ZenonT(30)
<1>4. CASE Finish(p)
  <2>1. PICK l \in {"idle", "lock"} :
            /\ pc[p] = "finish"
            /\ pc' = [pc EXCEPT ![p] = l]
            /\ queued' = queued \ {p}
            /\ state' = [state EXCEPT ![p] = "RUNNING"]
            /\ UNCHANGED <<mutex, buff, buff_len, rd_pos>>
        BY <1>4, Zenon DEF Finish, Continue, Return
  <2>2. TypeOK'
        BY <1>4, CallTypes, Zenon DEF Finish
  <2>3. Holder'
        BY <2>1, Zenon DEF Holder, Locked
  <2>4. (PositionsFit /\ WakeHasCause /\ CopyAllowed)'
        BY <2>1, Zenon DEF Holder, Locked, PositionsFit, WakeHasCause, CopyAllowed, MustWait
  <2>5. AsleepIsQueued'
        BY <2>1 DEF AsleepIsQueued
  <2>6. NoLostWakeup'
        BY <2>1, Zenon DEF NoLostWakeup, MustWait, Opposite, WakeHasCause
  <2> QED BY <2>2, <2>3, <2>4, <2>5, <2>6, ZenonT(30)
<1>5. CASE WaitEvent(p)
  <2>1. TypeOK'
        BY <1>5, Zenon DEF WaitEvent, Continue
  <2>2. (Holder /\ PositionsFit /\ WakeHasCause /\ CopyAllowed)'
        BY <1>5 DEF WaitEvent, Continue, Holder, PositionsFit, WakeHasCause, CopyAllowed,
           MustWait, Locked
  <2>3. (AsleepIsQueued /\ NoLostWakeup)'
        BY <1>5 DEF WaitEvent, Continue, AsleepIsQueued, NoLostWakeup, MustWait, Opposite
  <2> QED BY <2>1, <2>2, <2>3, ZenonT(30)
<1>6. CASE PrepareEvent(p)
  <2>1. PICK l \in {"intr", "test"} :
            /\ pc[p] = "prepare"
            /\ pc' = [pc EXCEPT ![p] = l]
            /\ queued' = IF l = "intr" THEN queued \ {p} ELSE queued \cup {p}
            /\ state' = [state EXCEPT ![p] = IF l = "intr" THEN "RUNNING"
                                                           ELSE "INTERRUPTIBLE"]
            /\ UNCHANGED <<mutex, buff, buff_len, rd_pos, signal, call>>
        BY <1>6, ZenonT(40) DEF PrepareEvent, Continue, AsleepIsQueued
  <2>2. TypeOK'
        BY <2>1, Zenon
  <2>3. Holder'
        BY <2>1, Zenon DEF Holder, Locked
  <2>4. (PositionsFit /\ WakeHasCause /\ CopyAllowed)'
        BY <2>1, Zenon DEF Holder, Locked, PositionsFit, WakeHasCause, CopyAllowed, MustWait
  <2>5. AsleepIsQueued'
        BY <2>1 DEF AsleepIsQueued
  <2>6. NoLostWakeup'
        BY <2>1 DEF NoLostWakeup, MustWait, Opposite, WakeHasCause
  <2> QED BY <2>2, <2>3, <2>4, <2>5, <2>6, ZenonT(30)
<1>7. CASE TestEvent(p)
  <2>1. PICK l \in {"finish", "idle", "sched"} :
            /\ pc[p] \in {"test", "intr"}
            /\ pc' = [pc EXCEPT ![p] = l]
            /\ l = "idle" => pc[p] = "intr"
            /\ l = "sched" => pc[p] = "test" /\ MustWait(p)
            /\ UNCHANGED <<mutex, buff, buff_len, rd_pos, queued, state>>
        BY <1>7, Zenon DEF TestEvent, Continue, Return
  <2>2. TypeOK'
        BY <1>7, CallTypes, Zenon DEF TestEvent
  <2>3. Holder'
        BY <2>1, Zenon DEF Holder, Locked
  <2>4. (PositionsFit /\ WakeHasCause /\ CopyAllowed)'
        BY <2>1 DEF Holder, Locked, PositionsFit, WakeHasCause, CopyAllowed, MustWait
  <2>5. AsleepIsQueued'
        BY <2>1, Zenon DEF AsleepIsQueued
  <2>6. NoLostWakeup'
        BY <2>1 DEF NoLostWakeup, MustWait, Opposite, WakeHasCause
  <2> QED BY <2>2, <2>3, <2>4, <2>5, <2>6, ZenonT(30)
<1>8. CASE ScheduleEvent(p)
  <2>1. TypeOK'
        BY <1>8, Zenon DEF ScheduleEvent, Continue
  <2>2. (Holder /\ PositionsFit /\ WakeHasCause /\ CopyAllowed)'
        BY <1>8 DEF ScheduleEvent, Continue, Holder, PositionsFit, WakeHasCause,
           CopyAllowed, MustWait, Locked
  <2>3. (AsleepIsQueued /\ NoLostWakeup)'
        BY <1>8 DEF ScheduleEvent, Continue, AsleepIsQueued, NoLostWakeup, MustWait, Opposite
  <2> QED BY <2>1, <2>2, <2>3, ZenonT(30)
<1>9. CASE FinishEvent(p)
  <2>1. TypeOK'
        BY <1>9, Zenon DEF FinishEvent, Continue
  <2>2. (Holder /\ PositionsFit /\ WakeHasCause /\ CopyAllowed)'
        BY <1>9 DEF FinishEvent, Continue, Holder, PositionsFit, WakeHasCause, CopyAllowed,
           MustWait, Locked
  <2>3. (AsleepIsQueued /\ NoLostWakeup)'
        BY <1>9 DEF FinishEvent, Continue, AsleepIsQueued, NoLostWakeup, MustWait, Opposite
  <2> QED BY <2>1, <2>2, <2>3, ZenonT(30)
<1> QED BY <1>1, <1>2, <1>3, <1>4, <1>5, <1>6, <1>7, <1>8, <1>9, ZenonT(30)
        DEF AdvancedSleep, SimpleSleep

\* The invariant holds initially, and every step of either driver keeps it.
LEMMA Inductive ==
    /\ Init => IInv
    /\ IInv /\ [NextAdvanced \/ NextSimple]_vars => IInv'
<1>1. Init => IInv
      BY Sides, PipeAssumption
      DEF Init, IInv, TypeOK, PC, Holder, Locked, PositionsFit, WakeHasCause,
          CopyAllowed, AsleepIsQueued, NoLostWakeup
<1>2. IInv /\ NextAdvanced => IInv'
      BY Sides, UserSteps, SharedSteps, CopySteps, SleepSteps, Zenon
      DEF NextAdvanced, pipe_read, pipe_write
<1>3. IInv /\ NextSimple => IInv'
      BY Sides, UserSteps, SharedSteps, CopySteps, SleepSteps, Zenon
      DEF NextSimple, pipe_read_simple, pipe_write_simple
<1>4. IInv /\ UNCHANGED vars => IInv'
      BY DEF vars, dev, sched, call, IInv, TypeOK, Holder, PositionsFit,
             WakeHasCause, CopyAllowed, AsleepIsQueued, NoLostWakeup, MustWait
<1> QED BY <1>1, <1>2, <1>3, <1>4, Zenon

\* The invariant holds in every state of 09_pipe_advanced_sleep and of
\* 08_pipe_simple_sleep, the types and the bounds of the lengths included.
THEOREM PipeInvariant == SpecAdvanced \/ SpecSimple => []IInv
BY Inductive, PTL DEF SpecAdvanced, SpecSimple

\* No sleeper of pipe_read() or pipe_write() misses its wake-up, with
\* prepare_to_wait() spelled out (09) and with wait_event_interruptible() (08).
THEOREM WakeupsReach == SpecAdvanced \/ SpecSimple => []NoLostWakeup
<1>1. IInv => NoLostWakeup
      BY Zenon DEF IInv
<1> QED BY PipeInvariant, <1>1, PTL

\* The unsigned buff_len - rd_pos of pipe_read() never wraps, and a read()
\* about to copy has a byte to copy, whoever was woken with it.
THEOREM PositionsKept == SpecAdvanced \/ SpecSimple => []PositionInBuffer
<1>1. ASSUME IInv, NEW r \in Readers, pc[r] = "copy"
      PROVE  rd_pos < buff_len
      BY <1>1, Sides, Zenon DEF IInv, CopyAllowed, MustWait, PositionsFit
<1>2. IInv => PositionInBuffer
      BY <1>1, Zenon DEF IInv, PositionInBuffer
<1> QED BY PipeInvariant, <1>2, PTL

\* At most one thread is between taking dev->mutex and giving it back, on
\* every path of the two calls.
THEOREM OneHolder == SpecAdvanced \/ SpecSimple => []MutualExclusion
<1>1. IInv => MutualExclusion
      BY Sides, Zenon DEF IInv, Holder, MutualExclusion
<1> QED BY PipeInvariant, <1>1, PTL

-----------------------------------------------------------------------------
(* The refinement: every step of a driver is a step of the channel or leaves *)
(* the channel alone.                                                        *)

\* An empty buffer is the empty channel.
LEMMA EmptyChan == TypeOK /\ rd_pos = buff_len => Chan = <<>>
<1> SUFFICES ASSUME TypeOK, rd_pos = buff_len PROVE Chan = <<>>
    BY Zenon
<1>1. Chan \in Seq({}) /\ Len(Chan) = 0
      BY DEF Chan, TypeOK
<1> QED BY <1>1

\* A write that is called, goes on or gives up moves no byte: in the channel
\* it changes its offer.
LEMMA WriterQuiet ==
    ASSUME TypeOK, NEW w \in Writers, NEW to \in PC, Chan' = Chan,
           Return(w) \/ Continue(w, to)
    PROVE  Abstract!Offer(w)
<1> USE Sides DEF TypeOK, Goto, call
<1>1. Given' = Given /\ Asks' = Asks
      BY DEF Return, Continue, Given, Asks, Pending
<1>2. (ubuf \in [Threads -> Seq(Byte)])'
      BY CallTypes, Zenon DEF PC
<1>3. Offers'[w] \in Seq(Byte)
  <2>1. <<>> \in Seq(Byte)
        OBVIOUS
  <2>2. Offers'[w] \in {ubuf'[w], <<>>}
        BY Zenon DEF Offers
  <2> QED BY <1>2, <2>1, <2>2, Zenon
<1>4. Offers' = [Offers EXCEPT ![w] = Offers'[w]]
  <2>1. \A q \in Writers : q # w => pc'[q] = pc[q] /\ ubuf'[q] = ubuf[q]
        BY DEF Return, Continue
  <2> QED BY <2>1, Zenon DEF Offers, Pending
<1> QED BY <1>1, <1>3, <1>4, Zenon DEF Abstract!Offer

\* A read that goes on before its copy is the same read to the channel, one
\* that fails is a read that gave up, one that has its bytes is done already.
LEMMA ReaderQuiet ==
    ASSUME TypeOK, NEW r \in Readers, NEW to \in PC, Chan' = Chan,
           \/ Return(r)
           \/ Continue(r, to) /\ (Pending(r) \/ to \in {"wake", "unlock"})
    PROVE  Abstract!Cancel(r) \/ UNCHANGED Abstract!specVars
<1> USE Sides DEF TypeOK, Goto, call
<1>1. Given' = Given /\ Offers' = Offers
      BY DEF Return, Continue, Given, Offers, Pending
<1>2. Asks' = Asks \/ Asks' = [Asks EXCEPT ![r] = 0]
      BY Zenon DEF Return, Continue, Asks, Pending
<1> QED BY <1>1, <1>2, Zenon DEF Abstract!Cancel, Abstract!specVars

\* The steps that touch neither the buffer nor the two lengths.
LEMMA QuietSteps ==
    ASSUME IInv, NEW p \in Threads, NEW sleep \in {"prepare", "fast"},
           \/ Lock(p) \/ Check(p, sleep) \/ Wake(p) \/ Unlock(p)
           \/ AdvancedSleep(p) \/ SimpleSleep(p)
           \/ p \in Readers /\ ReadFault(p)
    PROVE  [Abstract!SpecNext]_Abstract!specVars
<1> USE DEF dev
<1>1. Chan' = Chan
      BY Zenon DEF Lock, Check, Wake, Unlock, AdvancedSleep, SimpleSleep, ReadFault, Chan,
             Prepare, Test, Schedule, Finish, WaitEvent, PrepareEvent, TestEvent,
             ScheduleEvent, FinishEvent
<1>2. \/ Return(p)
      \/ \E to \in PC : Continue(p, to) /\ (Pending(p) \/ to \in {"wake", "unlock"})
      BY Zenon DEF Lock, Check, Wake, Unlock, AdvancedSleep, SimpleSleep, ReadFault, PC,
             Prepare, Test, Schedule, Finish, WaitEvent, PrepareEvent, TestEvent,
             ScheduleEvent, FinishEvent, Pending
<1>3. "idle" \in PC /\ TypeOK
      BY Zenon DEF PC, IInv
<1>4. CASE p \in Readers
      BY <1>1, <1>2, <1>3, <1>4, ReaderQuiet, Zenon DEF Abstract!SpecNext
<1>5. CASE p \in Writers
      BY <1>1, <1>2, <1>3, <1>5, WriterQuiet, Zenon DEF Abstract!SpecNext
<1> QED BY <1>4, <1>5, Zenon DEF Threads

\* What the users do: a call is an offer or a demand, a signal is nothing to
\* the channel.
LEMMA UserRefines == IInv /\ User => [Abstract!SpecNext]_Abstract!specVars
<1> SUFFICES ASSUME IInv, User PROVE [Abstract!SpecNext]_Abstract!specVars
    BY Zenon
<1> USE Sides, PipeAssumption DEF IInv, TypeOK, dev, call, Goto
<1>1. ASSUME NEW r \in Readers, NEW n \in 0..MaxCount, NEW nb \in Nonblock,
             CallRead(r, n, nb)
      PROVE  Abstract!Ask(r)
  <2>1. Chan' = Chan /\ Offers' = Offers
        BY <1>1, Zenon DEF CallRead, Chan, Offers, Pending
  <2>2. Given' = [Given EXCEPT ![r] = <<>>]
        BY <1>1, Zenon DEF CallRead, Given
  <2>3. Asks' = [Asks EXCEPT ![r] = n]
    <3>1. pc' = [pc EXCEPT ![r] = "lock"] /\ count' = [count EXCEPT ![r] = n]
          BY <1>1, Zenon DEF CallRead
    <3> QED BY <3>1, Zenon DEF Asks, Pending
  <2>4. Asks'[r] = n /\ n \in Nat
        BY <2>3 DEF Asks
  <2> QED BY <2>1, <2>2, <2>3, <2>4, Zenon DEF Abstract!Ask
<1>2. ASSUME NEW w \in Writers, NEW d \in Message, NEW nb \in Nonblock,
             CallWrite(w, d, nb)
      PROVE  Abstract!Offer(w)
  <2>1. Chan' = Chan /\ Asks' = Asks /\ Given' = Given
        BY <1>2 DEF CallWrite, Chan, Asks, Given, Pending
  <2>2. d \in Seq(Byte)
        BY Zenon
  <2>3. Offers' = [Offers EXCEPT ![w] = d]
    <3>1. pc' = [pc EXCEPT ![w] = "lock"] /\ ubuf' = [ubuf EXCEPT ![w] = d]
          BY <1>2, Zenon DEF CallWrite
    <3> QED BY <3>1, Zenon DEF Offers, Pending
  <2>4. Offers'[w] = d
        BY <2>3, Zenon DEF Offers
  <2> QED BY <2>1, <2>2, <2>3, <2>4, Zenon DEF Abstract!Offer
<1>3. ASSUME NEW p \in Threads, Signal(p)
      PROVE  UNCHANGED Abstract!specVars
      BY <1>3, Zenon DEF Signal, Abstract!specVars, Chan, Offers, Asks, Given, Pending
<1> QED BY <1>1, <1>2, <1>3, Zenon DEF User, Abstract!SpecNext

\* A sequence with the right length and the right elements is that slice.
LEMMA Slice ==
    ASSUME NEW S, NEW s \in Seq(S), NEW t \in Seq(S), NEW m \in Nat, NEW n \in Nat,
           1 <= m, m <= n + 1, n <= Len(s), Len(t) = n - m + 1,
           \A i \in 1..Len(t) : t[i] = s[m + i - 1]
    PROVE  t = SubSeq(s, m, n)
<1>1. \A i \in m..n : s[i] \in S
      OBVIOUS
<1>2. /\ SubSeq(s, m, n) \in Seq(S)
      /\ Len(SubSeq(s, m, n)) = n - m + 1
      /\ \A i \in 1..n - m + 1 : SubSeq(s, m, n)[i] = s[m + i - 1]
      BY <1>1
<1> QED BY <1>2

\* A function on 1..n is a sequence of length n.
LEMMA FunLen ==
    ASSUME NEW S, NEW n \in Nat, NEW f \in [1..n -> S]
    PROVE  f \in Seq(S) /\ Len(f) = n
BY FunIsSeq

\* The unread part of the buffer, as a sequence.
LEMMA ChanIsSeq ==
    TypeOK /\ PositionsFit => Chan \in Seq(Byte) /\ Len(Chan) = buff_len - rd_pos
<1> SUFFICES ASSUME TypeOK, PositionsFit
             PROVE  Chan \in Seq(Byte) /\ Len(Chan) = buff_len - rd_pos
    BY Zenon
<1> USE PipeAssumption DEF TypeOK, PositionsFit
<1>1. buff_len - rd_pos \in Nat
      OBVIOUS
<1>2. Chan \in [1..(buff_len - rd_pos) -> Byte]
      BY <1>1 DEF Chan
<1> HIDE DEF TypeOK, PositionsFit
<1> QED BY <1>1, <1>2, FunLen, ZenonT(30)

\* The count of a read is the smaller of what is asked and what is there.
LEMMA Smaller ==
    ASSUME NEW a \in Nat, NEW b \in Nat
    PROVE  (IF a < b THEN a ELSE b) \in Nat /\ (IF a < b THEN a ELSE b) <= b
OBVIOUS

\* What a read of k of the b - p unread bytes leaves, whether it empties the
\* buffer or moves the position.
LEMMA Remaining ==
    ASSUME NEW b \in Nat, NEW p \in Nat, NEW k \in Nat, NEW b2, NEW p2, NEW l,
           l = "wake" <=> k = b - p,
           b2 = IF l = "wake" THEN 0 ELSE b,
           p2 = IF l = "wake" THEN 0 ELSE p + k
    PROVE  b2 - p2 = b - p - k
<1>1. CASE l = "wake"
      BY <1>1
<1>2. CASE l # "wake"
  <2>1. b2 = b /\ p2 = p + k
        BY <1>2, Zenon
  <2> QED BY <2>1
<1> QED BY <1>1, <1>2, Zenon

\* A read that copies is a delivery; a read of no bytes is a read that stays
\* without bytes.
LEMMA ReadRefines ==
    ASSUME IInv, IInv', NEW r \in Readers, ReadCopy(r)
    PROVE  Abstract!Deliver(r) \/ Abstract!Ask(r)
<1> USE Sides, PipeAssumption DEF IInv, TypeOK, Goto
<1> DEFINE n == IF count[r] < buff_len - rd_pos THEN count[r] ELSE buff_len - rd_pos
           part == [i \in 1..n |-> buff[rd_pos + i - 1]]
           rest == SubSeq(Chan, n + 1, Len(Chan))
<1>1. pc[r] = "copy" /\ buff_len > 0 /\ rd_pos < buff_len
      BY DEF ReadCopy, CopyAllowed, MustWait, PositionsFit
<1>2. n \in Nat /\ n <= buff_len - rd_pos
  <2>1. count[r] \in Nat /\ buff_len \in Nat /\ rd_pos \in Nat
        OBVIOUS
  <2>2. buff_len - rd_pos \in Nat
        BY <1>1, <2>1
  <2> QED BY <2>1, <2>2, Smaller, Zenon
<1>3. /\ Chan \in Seq(Byte) /\ Len(Chan) = buff_len - rd_pos
      /\ (Chan \in Seq(Byte) /\ Len(Chan) = buff_len - rd_pos)'
  <2>1. (TypeOK /\ PositionsFit =>
            Chan \in Seq(Byte) /\ Len(Chan) = buff_len - rd_pos)'
        BY ChanIsSeq, PTL
  <2> QED BY ChanIsSeq, <2>1, Zenon
<1>4. Asks[r] = count[r] /\ n = Abstract!Least(Asks[r], Len(Chan))
      BY <1>1, <1>3, ZenonT(40) DEF Asks, Pending, Abstract!Least
<1>5. PICK l \in {"wake", "unlock"} :
          /\ pc' = [pc EXCEPT ![r] = l]
          /\ ubuf' = [ubuf EXCEPT ![r] = part]
          /\ l = "wake" <=> n = buff_len - rd_pos
          /\ buff_len' = IF l = "wake" THEN 0 ELSE buff_len
          /\ rd_pos' = IF l = "wake" THEN 0 ELSE rd_pos + n
          /\ buff' = buff /\ count' = count
      BY <1>1, <1>2 DEF ReadCopy
<1>6. Offers' = Offers
      BY <1>1, <1>5 DEF Offers, Pending
<1>7. Asks' = [Asks EXCEPT ![r] = 0] /\ Asks'[r] = 0
      BY <1>1, <1>5, Zenon DEF Asks, Pending
<1>8. Given' = [Given EXCEPT ![r] = part]
      BY <1>5, Zenon DEF Given
<1>9. part \in Seq(Byte) /\ Len(part) = n
  <2>1. part \in [1..n -> Byte]
    <3> SUFFICES ASSUME NEW i \in 1..n PROVE buff[rd_pos + i - 1] \in Byte
        BY Zenon
    <3>1. rd_pos + i - 1 \in 0..BUFF_SIZE - 1
          BY <1>1, <1>2
    <3> QED BY <3>1, Zenon
  <2> HIDE DEF part, n
  <2> QED BY <1>2, <2>1, FunLen, Zenon
<1>10. part = SubSeq(Chan, 1, n)
  <2>1. \A i \in 1..n : part[i] = Chan[1 + i - 1]
        BY <1>2 DEF Chan
  <2> HIDE DEF part, n
  <2> QED BY <1>2, <1>3, <1>9, <2>1, Slice
<1> HIDE DEF n, part
<1>11. Chan' = rest
  <2>0. buff_len \in Nat /\ rd_pos \in Nat
        OBVIOUS
  <2>1. Len(Chan') = Len(Chan) - n /\ n + 1 \in Nat /\ Len(Chan) \in Nat
    <3>0. /\ l = "wake" <=> n = buff_len - rd_pos
          /\ buff_len' = IF l = "wake" THEN 0 ELSE buff_len
          /\ rd_pos' = IF l = "wake" THEN 0 ELSE rd_pos + n
          BY <1>5, Zenon
    <3> HIDE DEF IInv, TypeOK
    <3>1. buff_len' - rd_pos' = buff_len - rd_pos - n
          BY <1>2, <2>0, <3>0, Remaining
    <3>2. Len(Chan') = Len(Chan) - n
          BY <1>3, <3>1, Zenon
    <3> QED BY <1>2, <1>3, <3>2
  <2>2. ASSUME NEW i \in 1..Len(Chan') PROVE Chan'[i] = Chan[n + 1 + i - 1]
    <3>1. i \in 1..(buff_len - rd_pos - n)
          BY <1>3, <2>1, Zenon
    <3>2. n # buff_len - rd_pos
          BY <3>1
    <3>3. rd_pos' = rd_pos + n /\ buff_len' = buff_len /\ buff' = buff
          BY <1>5, <3>2, ZenonT(40)
    <3>4. Chan'[i] = buff[rd_pos + n + i - 1]
          BY <3>1, <3>3, <1>2 DEF Chan
    <3>5. n + i \in 1..(buff_len - rd_pos) /\ n + 1 + i - 1 = n + i
          BY <3>1, <1>2
    <3>6. Chan[n + i] = buff[rd_pos + n + i - 1]
          BY <3>5, <1>2 DEF Chan
    <3> QED BY <3>4, <3>5, <3>6, Zenon
  <2> HIDE DEF IInv, TypeOK
  <2>3. Chan' \in Seq(Byte) /\ 1 <= n + 1 /\ n + 1 <= Len(Chan) + 1
        BY <1>2, <1>3, <2>1
  <2>4. Len(Chan') = Len(Chan) - (n + 1) + 1
        BY <1>2, <2>1
  <2>5. Len(Chan) <= Len(Chan)
        BY <2>1
  <2> QED BY <1>3, <2>1, <2>2, <2>3, <2>4, <2>5, Slice, Zenon
<1> HIDE DEF IInv, TypeOK
<1>12. CASE n = 0
  <2>1. part = <<>>
        BY <1>9, <1>12
  <2>2. Chan' = Chan
        BY <1>2, <1>3, <1>11, <1>12, Slice
  <2>3. Asks'[r] \in Nat
        BY <1>7
  <2>4. Asks' = [Asks EXCEPT ![r] = Asks'[r]]
        BY <1>7, ZenonT(20)
  <2>5. Abstract!Ask(r)
        BY <1>6, <1>8, <2>1, <2>2, <2>3, <2>4, ZenonT(20) DEF Abstract!Ask
  <2> QED BY <2>5, Zenon
<1>13. CASE n > 0
       BY <1>4, <1>6, <1>7, <1>8, <1>10, <1>11, <1>13, Zenon DEF Abstract!Deliver
<1> QED BY <1>2, <1>12, <1>13

\* A write that copies is accepted; one of no bytes, or one whose copy fails,
\* leaves the channel empty whatever it left in the buffer.
LEMMA WriteRefines ==
    ASSUME IInv, IInv', NEW w \in Writers, WriteCopy(w) \/ WriteFault(w)
    PROVE  Abstract!Accept(w) \/ Abstract!Offer(w)
<1> DEFINE n == WriteLen(w)
<1>1. pc[w] = "copy" /\ buff_len = 0 /\ rd_pos = 0
      BY Sides DEF IInv, TypeOK, WriteCopy, WriteFault, CopyAllowed, MustWait, PositionsFit
<1>2. TypeOK /\ TypeOK' /\ PositionsFit'
      BY Zenon DEF IInv
<1>3. Chan = <<>>
      BY <1>1, <1>2, EmptyChan, Zenon
<1>4. (TypeOK /\ rd_pos = buff_len => Chan = <<>>)'
      BY EmptyChan, PTL
<1>5. ubuf[w] \in Seq(Byte) /\ Len(ubuf[w]) \in Nat /\ n \in 0..BUFF_SIZE
      /\ n <= Len(ubuf[w])
  <2>1. ubuf[w] \in Seq(Byte)
        BY <1>2, Sides, Zenon DEF TypeOK
  <2> QED BY <2>1, PipeAssumption DEF WriteLen
<1>6. CASE WriteFault(w) \/ n = 0
  <2>1. Continue(w, "unlock") /\ rd_pos' = buff_len'
        BY <1>1, <1>6 DEF WriteCopy, WriteFault, Continue
  <2>2. Chan' = Chan
        BY <1>2, <1>3, <1>4, <2>1, Zenon
  <2>3. "unlock" \in PC
        BY Zenon DEF PC
  <2> QED BY <1>2, <2>1, <2>2, <2>3, WriterQuiet, Zenon
<1>7. CASE WriteCopy(w) /\ n # 0
  <2>1. /\ buff' = Overwrite(ubuf[w], n) /\ buff_len' = n /\ rd_pos' = 0
        /\ pc' = [pc EXCEPT ![w] = "wake"] /\ ubuf' = ubuf /\ count' = count
        BY <1>5, <1>7 DEF WriteCopy, Goto, call
  <2>2. Asks' = Asks /\ Given' = Given
    <3>1. \A r \in Readers : pc'[r] = pc[r]
          BY <1>2, <2>1, Sides, Zenon DEF TypeOK
    <3> QED BY <2>1, <3>1, Zenon DEF Asks, Given, Pending
  <2>3. Offers[w] = ubuf[w] /\ Offers' = [Offers EXCEPT ![w] = <<>>]
        BY <1>1, <1>2, <2>1, Sides, Zenon DEF TypeOK, Offers, Pending
  <2>4. Offers[w] # <<>> /\ n = Abstract!Least(Len(Offers[w]), BUFF_SIZE)
        BY <1>5, <1>7, <2>3 DEF WriteLen, Abstract!Least
  <2>5. (Chan \in Seq(Byte))' /\ Len(Chan') = n
    <3>1. (TypeOK /\ PositionsFit =>
              Chan \in Seq(Byte) /\ Len(Chan) = buff_len - rd_pos)'
          BY ChanIsSeq, PTL
    <3> QED BY <1>2, <1>5, <2>1, <3>1
  <2>6. \A i \in 1..n : Chan'[i] = ubuf[w][1 + i - 1]
        BY <1>5, <2>1, PipeAssumption DEF Chan, Overwrite
  <2>7. Chan' = SubSeq(Offers[w], 1, n)
    <3> HIDE DEF n
    <3> QED BY <1>5, <2>3, <2>5, <2>6, Slice, PipeAssumption
  <2> QED BY <1>3, <2>2, <2>3, <2>4, <2>7, ZenonT(40) DEF Abstract!Accept
<1> QED BY <1>6, <1>7, ZenonT(40)

\* A step of either driver, seen from the channel.
LEMMA StepRefines ==
    IInv /\ IInv' /\ [NextAdvanced \/ NextSimple]_vars
        => [Abstract!SpecNext]_Abstract!specVars
<1> SUFFICES ASSUME IInv, IInv', [NextAdvanced \/ NextSimple]_vars
             PROVE  [Abstract!SpecNext]_Abstract!specVars
    BY Zenon
<1>1. CASE User
      BY <1>1, UserRefines, Zenon
<1>2. ASSUME NEW r \in Readers, pipe_read(r) \/ pipe_read_simple(r)
      PROVE  [Abstract!SpecNext]_Abstract!specVars
      BY <1>2, Sides, QuietSteps, ReadRefines, Zenon
      DEF pipe_read, pipe_read_simple, Abstract!SpecNext
<1>3. ASSUME NEW w \in Writers, pipe_write(w) \/ pipe_write_simple(w)
      PROVE  [Abstract!SpecNext]_Abstract!specVars
      BY <1>3, Sides, QuietSteps, WriteRefines, Zenon
      DEF pipe_write, pipe_write_simple, Abstract!SpecNext
<1>4. CASE UNCHANGED vars
      BY <1>4, Zenon DEF vars, dev, call, Abstract!specVars, Chan, Offers, Asks, Given, Pending
<1> QED BY <1>1, <1>2, <1>3, <1>4, Zenon DEF NextAdvanced, NextSimple

\* Initially the channel is empty and no call is pending.
LEMMA InitRefines == Init => Abstract!SpecInit
<1> SUFFICES ASSUME Init PROVE Abstract!SpecInit
    BY Zenon
<1>1. Chan = <<>>
      BY Inductive, EmptyChan, Zenon DEF Init, IInv
<1> QED BY <1>1, Sides, Zenon DEF Init, Abstract!SpecInit, Offers, Asks, Given, Pending

\* 09_pipe_advanced_sleep implements the one-message channel: whatever the
\* threads, messages and buffer size, a byte that pipe_write() accepts is
\* given to one pipe_read(), once and in order, and a failed call moves
\* nothing.
THEOREM AdvancedRefines == SpecAdvanced => ImplementsPipe
BY PipeInvariant, InitRefines, StepRefines, PTL
   DEF SpecAdvanced, ImplementsPipe, Abstract!Spec

\* 08_pipe_simple_sleep implements the same channel.
THEOREM SimpleRefines == SpecSimple => ImplementsPipe
BY PipeInvariant, InitRefines, StepRefines, PTL
   DEF SpecSimple, ImplementsPipe, Abstract!Spec

-------------------------------------------------------------------------------

(***************************************************************************)
(* 25_async_io.  RingExact needs where the writer is, relative to the      *)
(* reader and the number of bytes between them, which says that the bytes  *)
(* a write may replace have been read.                                     *)
(***************************************************************************)
AioDev == [buff : [0..(AIO_BUFF - 1) -> Nat], read_cur : 0..(AIO_BUFF - 1),
           write_cur : 0..(AIO_BUFF - 1), len : 0..AIO_BUFF]

AioRequest == [st : {"idle", "queued", "freeing", "done"}, moved : Int, answers : Seq(Int)]

AioType ==
  /\ aio_dev \in AioDev
  /\ aio_log \in [read : Seq(Nat), written : Nat]
  /\ aio_req \in [AioSlots -> AioRequest]

UpTo(n) == [i \in 1..n |-> i]

AioRing ==
  /\ aio_dev.len <= aio_log.written
  /\ aio_dev.write_cur = (aio_dev.read_cur + aio_dev.len) % AIO_BUFF
  /\ aio_log.read = UpTo(aio_log.written - aio_dev.len)
  /\ \A i \in 1..aio_dev.len :
       aio_dev.buff[(aio_dev.read_cur + i - 1) % AIO_BUFF]
         = aio_log.written - aio_dev.len + i

AioAnswered ==
  \A r \in AioSlots :
    /\ aio_req[r].st = "queued" => aio_req[r].answers = <<>> /\ aio_mod = "up"
    /\ aio_req[r].st = "freeing" => aio_mod \in {"up", "exit"}
    /\ aio_req[r].st \in {"freeing", "done"} => aio_req[r].answers = <<aio_req[r].moved>>

AioInv == AioType /\ AioRing /\ AioAnswered

\* A position that is at most once around the buffer, modulo its size.
LEMMA Wrap ==
  ASSUME NEW b \in Nat \ {0}, NEW a \in 0..(2 * b - 1)
  PROVE  a % b = IF a < b THEN a ELSE a - b
<1>1. /\ a % b \in 0..(b - 1) /\ a \div b \in Int
      /\ a = b * (a \div b) + (a % b)
  OBVIOUS
<1>2. PICK q \in Int, r \in 0..(b - 1) : q = a \div b /\ r = a % b
  BY <1>1, Zenon
<1>3. a = b * q + r
  BY <1>1, <1>2, Zenon
<1>4. q \in {0, 1}
  <2>1. CASE q < 0
    <3>1. b * q <= -b
      BY <2>1
    <3> QED
      BY <1>3, <3>1
  <2>2. CASE q > 1
    <3>1. b * q >= 2 * b
      BY <2>2
    <3> QED
      BY <1>3, <3>1
  <2> QED
    BY <2>1, <2>2
<1> QED
  BY <1>2, <1>3, <1>4

\* The least of two or three numbers is one of them, and none of them is less.
LEMMA LeastOf ==
  ASSUME NEW a \in Int, NEW b \in Int, NEW c \in Int
  PROVE  /\ Min({a, b, c}) \in {a, b, c}
         /\ \A x \in {a, b, c} : Min({a, b, c}) <= x
<1>1. \E x \in {a, b, c} : \A y \in {a, b, c} : x <= y
  OBVIOUS
<1> QED
  BY <1>1, Zenon DEF Min

\* A function on 1..n is a sequence of length n.
LEMMA Listed ==
  ASSUME NEW S, NEW n \in Nat, NEW f \in [1..n -> S]
  PROVE  f \in Seq(S) /\ Len(f) = n
OBVIOUS

\* The first n numbers as a sequence.
LEMMA UpToIs ==
  ASSUME NEW n \in Nat
  PROVE  /\ UpTo(n) \in Seq(Nat) /\ Len(UpTo(n)) = n
         /\ \A i \in 1..n : UpTo(n)[i] = i
<1>1. UpTo(n) \in [1..n -> Nat] /\ \A i \in 1..n : UpTo(n)[i] = i
  BY DEF UpTo
<1> QED
  BY <1>1, Listed, Zenon

\* Two sequences one after the other.
LEMMA Joined ==
  ASSUME NEW u \in Seq(Nat), NEW s \in Seq(Nat)
  PROVE  /\ u \o s \in Seq(Nat) /\ Len(u \o s) = Len(u) + Len(s)
         /\ \A i \in 1..(Len(u) + Len(s)) :
              (u \o s)[i] = IF i <= Len(u) THEN u[i] ELSE s[i - Len(u)]
OBVIOUS

\* Sequences with the same elements are the same.
LEMMA SameElements ==
  ASSUME NEW u \in Seq(Nat), NEW s \in Seq(Nat), Len(u) = Len(s),
         \A i \in 1..Len(u) : u[i] = s[i]
  PROVE  u = s
OBVIOUS

\* The first n + k numbers are the first n and the k after them.
LEMMA UpToMore ==
  ASSUME NEW n \in Nat, NEW k \in Nat, NEW s \in Seq(Nat), Len(s) = k,
         \A i \in 1..k : s[i] = n + i
  PROVE  UpTo(n) \o s = UpTo(n + k)
<1>1. PICK u \in Seq(Nat) : u = UpTo(n)
  BY UpToIs, Zenon
<1>2. Len(u) = n /\ \A i \in 1..n : u[i] = i
  BY <1>1, UpToIs, Zenon
<1>3. /\ u \o s \in Seq(Nat) /\ Len(u \o s) = Len(u) + Len(s)
      /\ \A i \in 1..(Len(u) + Len(s)) :
           (u \o s)[i] = IF i <= Len(u) THEN u[i] ELSE s[i - Len(u)]
  BY Joined, Zenon
<1>4. \A i \in 1..(n + k) : (u \o s)[i] = i
  BY <1>2, <1>3
<1>5. /\ UpTo(n + k) \in Seq(Nat) /\ Len(UpTo(n + k)) = n + k
      /\ \A i \in 1..(n + k) : UpTo(n + k)[i] = i
  BY UpToIs
<1>6. Len(u \o s) = n + k
  BY <1>2, <1>3, Zenon
<1>7. u \o s = UpTo(n + k)
  BY <1>3, <1>4, <1>5, <1>6, SameElements, Zenon
<1> QED
  BY <1>1, <1>7, Zenon

\* The reader goes done bytes on, not past the end of the buffer: the bytes left
\* have the places they had.
LEMMA ReaderMoves ==
  ASSUME NEW b \in Nat \ {0}, NEW r \in 0..(b - 1), NEW n \in 0..b, NEW done \in 0..n,
         done <= b - r
  PROVE  /\ (r + done) % b \in 0..(b - 1)
         /\ (((r + done) % b) + (n - done)) % b = (r + n) % b
         /\ \A i \in 1..(n - done) : (((r + done) % b) + i - 1) % b = (r + (done + i) - 1) % b
         /\ \A i \in 1..done : (r + i - 1) % b = r + i - 1
<1>1. \A a \in 0..(2 * b - 1) : a % b = IF a < b THEN a ELSE a - b
  BY Wrap, Zenon
<1>2. PICK q \in 0..(b - 1) : q = IF r + done < b THEN r + done ELSE 0
  OBVIOUS
<1>3. q = (r + done) % b
  BY <1>1, <1>2
<1>4. (q + (n - done)) % b = (r + n) % b
  <2>1. q + (n - done) \in 0..(2 * b - 1) /\ r + n \in 0..(2 * b - 1)
    BY <1>2
  <2>2. CASE r + done < b
    <3>1. q + (n - done) = r + n
      BY <1>2, <2>2
    <3> QED
      BY <3>1, Zenon
  <2>3. CASE r + done = b
    <3>1. q + (n - done) = r + n - b
      BY <1>2, <2>3
    <3> QED
      BY <1>1, <2>1, <2>3, <3>1
  <2> QED
    BY <2>2, <2>3
<1>5. \A i \in 1..(n - done) : (q + i - 1) % b = (r + (done + i) - 1) % b
  <2>1. SUFFICES ASSUME NEW i \in 1..(n - done)
                 PROVE  (q + i - 1) % b = (r + (done + i) - 1) % b
    BY Zenon
  <2>2. q + i - 1 \in 0..(2 * b - 1) /\ r + (done + i) - 1 \in 0..(2 * b - 1)
    BY <1>2
  <2>3. CASE r + done < b
    <3>1. q + i - 1 = r + (done + i) - 1
      BY <1>2, <2>3
    <3> QED
      BY <3>1, Zenon
  <2>4. CASE r + done = b
    <3>1. q + i - 1 = r + (done + i) - 1 - b
      BY <1>2, <2>4
    <3> QED
      BY <1>1, <2>2, <2>4, <3>1
  <2> QED
    BY <2>3, <2>4
<1>6. \A i \in 1..done : (r + i - 1) % b = r + i - 1
  BY <1>1
<1> QED
  BY <1>3, <1>4, <1>5, <1>6, Zenon

\* With n bytes from r on and the writer at w, done bytes more go where none waits.
WriteFits(b, r, n, w, done) ==
  /\ (w + done) % b \in 0..(b - 1)
  /\ (w + done) % b = (r + (n + done)) % b
  /\ \A i \in 1..n : (r + i - 1) % b \in 0..(b - 1) \ (w..(w + done - 1))
  /\ \A i \in (n + 1)..(n + done) :
       /\ (r + i - 1) % b = w + (i - n - 1)
       /\ (r + i - 1) % b \in 0..(b - 1) \cap (w..(w + done - 1))

\* The writer goes done bytes on, to no place of a byte that waits.
LEMMA WriterMoves ==
  ASSUME NEW b \in Nat \ {0}, NEW r \in 0..(b - 1), NEW n \in 0..b, NEW w \in 0..(b - 1),
         w = (r + n) % b, NEW done \in 0..(b - n), done <= b - w
  PROVE  WriteFits(b, r, n, w, done)
<1>1. \A a \in 0..(2 * b - 1) : a % b = IF a < b THEN a ELSE a - b
  BY Wrap, Zenon
<1>2. w = IF r + n < b THEN r + n ELSE r + n - b
  BY <1>1
<1>3. (w + done) % b = IF w + done < b THEN w + done ELSE 0
  BY <1>1
<1>4. (r + (n + done)) % b = (w + done) % b
  <2>1. CASE r + (n + done) < 2 * b
    <3>1. (r + (n + done)) % b
            = IF r + (n + done) < b THEN r + (n + done) ELSE r + (n + done) - b
      BY <1>1, <2>1
    <3>2. (IF r + (n + done) < b THEN r + (n + done) ELSE r + (n + done) - b)
            = IF w + done < b THEN w + done ELSE 0
      BY <1>2, <2>1
    <3> QED
      BY <1>3, <3>1, <3>2, Zenon
  <2> QED
    BY <1>2, <2>1
<1>5. \A i \in 1..n : (r + i - 1) % b \in 0..(b - 1) \ (w..(w + done - 1))
  BY <1>1, <1>2
<1>6. \A i \in (n + 1)..(n + done) :
        /\ (r + i - 1) % b = w + (i - n - 1)
        /\ w + (i - n - 1) \in 0..(b - 1) /\ w + (i - n - 1) \in w..(w + done - 1)
  <2>1. SUFFICES ASSUME NEW i \in (n + 1)..(n + done)
                 PROVE  /\ (r + i - 1) % b = w + (i - n - 1)
                        /\ w + (i - n - 1) \in 0..(b - 1)
                        /\ w + (i - n - 1) \in w..(w + done - 1)
    BY Zenon
  <2>2. /\ w + (i - n - 1) \in 0..(b - 1) /\ w + (i - n - 1) \in w..(w + done - 1)
        /\ r + i - 1 \in 0..(2 * b - 1)
    OBVIOUS
  <2>3. CASE r + n < b
    <3>1. r + i - 1 = w + (i - n - 1) /\ r + i - 1 < b
      BY <1>2, <2>2, <2>3
    <3> QED
      BY <1>1, <2>2, <3>1, Zenon
  <2>4. CASE ~(r + n < b)
    <3>1. r + i - 1 - b = w + (i - n - 1) /\ ~(r + i - 1 < b)
      BY <1>2, <2>2, <2>4
    <3>2. PICK a \in 0..(2 * b - 1) : a = r + i - 1
      BY <2>2, Zenon
    <3>3. a % b = a - b
      BY <1>1, <3>1, <3>2, Zenon
    <3> QED
      BY <2>2, <3>1, <3>2, <3>3
  <2> QED
    BY <2>3, <2>4, Zenon
<1>7. (w + done) % b \in 0..(b - 1)
  BY <1>3
<1>8. \A i \in (n + 1)..(n + done) :
        /\ (r + i - 1) % b = w + (i - n - 1)
        /\ (r + i - 1) % b \in 0..(b - 1) \cap (w..(w + done - 1))
  BY <1>6, Zenon
<1> QED
  BY <1>4, <1>5, <1>7, <1>8, Zenon DEF WriteFits

\* Reading keeps the ring a queue.
LEMMA AioReadStep ==
  ASSUME AioInv, NEW cnt \in AioCounts, NEW done \in 0..WantRead(cnt),
         async_io_do_read(done)
  PROVE  /\ aio_dev' \in AioDev /\ aio_log' \in [read : Seq(Nat), written : Nat]
         /\ AioRing'
<1> DEFINE b == AIO_BUFF
<1> b \in Nat \ {0}
  BY AsyncIoAssumption, Zenon
<1> HIDE DEF b
<1>1. /\ aio_dev.read_cur \in 0..(b - 1) /\ aio_dev.len \in 0..b
      /\ aio_dev.buff \in [0..(b - 1) -> Nat] /\ aio_dev.write_cur \in 0..(b - 1)
      /\ aio_log.read \in Seq(Nat) /\ aio_log.written \in Nat /\ cnt \in Nat
  BY AsyncIoAssumption, Zenon DEF AioInv, AioType, AioDev, b
<1>2. PICK r \in 0..(b - 1), n \in 0..b, m \in Nat, u \in [0..(b - 1) -> Nat] :
        r = aio_dev.read_cur /\ n = aio_dev.len /\ m = aio_log.written /\ u = aio_dev.buff
  BY <1>1, Zenon
<1>3. done \in 0..n /\ done <= b - r
  <2>1. PICK x \in Int : x = b - r
    OBVIOUS
  <2>2. Min({x, n, cnt}) \in {x, n, cnt} /\ Min({x, n, cnt}) <= x
        /\ Min({x, n, cnt}) <= n
    <3>1. n \in Int /\ cnt \in Int
      BY <1>1
    <3> QED
      BY <3>1, LeastOf, Zenon
  <2>3. WantRead(cnt) = Min({x, n, cnt})
    BY <1>2, <2>1, Zenon DEF WantRead, b
  <2> QED
    BY <1>1, <2>1, <2>2, <2>3
<1> DEFINE got == [i \in 1..done |-> u[r + i - 1]]
<1>4. /\ aio_dev' = [aio_dev EXCEPT !.read_cur = (r + done) % b, !.len = n - done]
      /\ aio_log' = [aio_log EXCEPT !.read = aio_log.read \o got]
  BY <1>2, Zenon DEF async_io_do_read, b
<1>5. /\ aio_dev'.read_cur = (r + done) % b /\ aio_dev'.len = n - done
      /\ aio_dev'.buff = u /\ aio_dev'.write_cur = aio_dev.write_cur
      /\ aio_log'.read = aio_log.read \o got /\ aio_log'.written = m
  BY <1>2, <1>4, Zenon DEF AioInv, AioType, AioDev
<1>6. /\ (r + done) % b \in 0..(b - 1)
      /\ (((r + done) % b) + (n - done)) % b = (r + n) % b
      /\ \A i \in 1..(n - done) : (((r + done) % b) + i - 1) % b = (r + (done + i) - 1) % b
      /\ \A i \in 1..done : (r + i - 1) % b = r + i - 1
  BY <1>3, ReaderMoves, ZenonT(40)
<1>7. /\ n <= m /\ aio_log.read = UpTo(m - n) /\ aio_dev.write_cur = (r + n) % b
      /\ \A i \in 1..n : u[(r + i - 1) % b] = m - n + i
  BY <1>2, Zenon DEF AioInv, AioRing, b
<1>8. \A i \in 1..done : got[i] = m - n + i
  <2>1. SUFFICES ASSUME NEW i \in 1..done
                 PROVE  u[r + i - 1] = m - n + i
    BY Zenon
  <2>2. i \in 1..n
    BY <1>3
  <2> QED
    BY <1>6, <1>7, <2>2, Zenon
<1>9. got \in Seq(Nat) /\ Len(got) = done
  <2>1. got \in [1..done -> Nat]
    <3>1. \A i \in 1..done : r + i - 1 \in 0..(b - 1)
      BY <1>3
    <3> QED
      BY <3>1, Zenon
  <2> QED
    BY <1>3, <2>1, Listed
<1> HIDE DEF got
<1>10. aio_log'.read = UpTo(aio_log'.written - aio_dev'.len)
  <2>1. PICK k \in Nat : k = m - n
    BY <1>7
  <2>2. UpTo(k) \o got = UpTo(k + done)
    <3>1. done \in Nat /\ \A i \in 1..done : got[i] = k + i
      BY <1>3, <1>8, <2>1
    <3> QED
      BY <1>9, <3>1, UpToMore, Zenon
  <2>3. k + done = m - (n - done)
    BY <1>3, <2>1
  <2> QED
    BY <1>5, <1>7, <2>1, <2>2, <2>3, Zenon
<1>11. aio_dev' \in AioDev /\ aio_log' \in [read : Seq(Nat), written : Nat]
  <2>1. n - done \in 0..b
    BY <1>3
  <2>2. aio_dev' \in AioDev
    BY <1>4, <1>6, <2>1, Zenon DEF AioInv, AioType, AioDev, b
  <2>3. aio_log.read \o got \in Seq(Nat)
    BY <1>1, <1>9
  <2> QED
    BY <1>4, <2>2, <2>3, Zenon DEF AioInv, AioType
<1>12. \A i \in 1..aio_dev'.len : aio_dev'.buff[(aio_dev'.read_cur + i - 1) % b]
                                    = aio_log'.written - aio_dev'.len + i
  <2>1. SUFFICES ASSUME NEW i \in 1..(n - done)
                 PROVE  u[(((r + done) % b) + i - 1) % b] = m - (n - done) + i
    BY <1>5, Zenon
  <2>2. done + i \in 1..n
    BY <1>3
  <2>3. u[(r + (done + i) - 1) % b] = m - n + (done + i)
    BY <1>7, <2>2, Zenon
  <2>4. m - n + (done + i) = m - (n - done) + i
    BY <1>3
  <2> QED
    BY <1>6, <2>3, <2>4, Zenon
<1>13. aio_dev'.len <= aio_log'.written
  BY <1>3, <1>5, <1>7
<1>14. aio_dev'.write_cur = (aio_dev'.read_cur + aio_dev'.len) % b
  BY <1>5, <1>6, <1>7, Zenon
<1> QED
  BY <1>10, <1>11, <1>12, <1>13, <1>14, Zenon DEF AioRing, b

\* Writing keeps the ring a queue.
LEMMA AioWriteStep ==
  ASSUME AioInv, NEW cnt \in AioCounts, NEW done \in 0..WantWrite(cnt),
         async_io_do_write(done)
  PROVE  /\ aio_dev' \in AioDev /\ aio_log' \in [read : Seq(Nat), written : Nat]
         /\ AioRing'
<1> DEFINE b == AIO_BUFF
<1> b \in Nat \ {0}
  BY AsyncIoAssumption, Zenon
<1> HIDE DEF b
<1>1. /\ aio_dev.read_cur \in 0..(b - 1) /\ aio_dev.len \in 0..b
      /\ aio_dev.buff \in [0..(b - 1) -> Nat] /\ aio_dev.write_cur \in 0..(b - 1)
      /\ aio_log.read \in Seq(Nat) /\ aio_log.written \in Nat /\ cnt \in Nat
  BY AsyncIoAssumption, Zenon DEF AioInv, AioType, AioDev, b
<1>2. PICK r \in 0..(b - 1), w \in 0..(b - 1), n \in 0..b, m \in Nat, u \in [0..(b - 1) -> Nat] :
        /\ r = aio_dev.read_cur /\ w = aio_dev.write_cur /\ n = aio_dev.len
        /\ m = aio_log.written /\ u = aio_dev.buff
  BY <1>1, Zenon
<1>3. done \in 0..(b - n) /\ done <= b - w
  <2>1. PICK x \in Int, y \in Int : x = b - w /\ y = b - n
    OBVIOUS
  <2>2. Min({x, y, cnt}) \in {x, y, cnt} /\ Min({x, y, cnt}) <= x
        /\ Min({x, y, cnt}) <= y
    <3>1. cnt \in Int
      BY <1>1
    <3> QED
      BY <3>1, LeastOf, Zenon
  <2>3. WantWrite(cnt) = Min({x, y, cnt})
    BY <1>2, <2>1, ZenonT(40) DEF WantWrite, b
  <2>4. PICK v \in Int : v = Min({x, y, cnt})
    BY <1>1, <2>2
  <2>5. done \in 0..v /\ v <= x /\ v <= y
    BY <2>2, <2>3, <2>4, Zenon
  <2> QED
    BY <2>1, <2>5
<1> DEFINE put == [i \in 0..(b - 1) |-> IF i \in w..(w + done - 1) THEN m + i - w + 1 ELSE u[i]]
<1>4. /\ aio_dev' = [aio_dev EXCEPT !.buff = put, !.write_cur = (w + done) % b, !.len = n + done]
      /\ aio_log' = [aio_log EXCEPT !.written = m + done]
  BY <1>2, Zenon DEF async_io_do_write, b
<1>5. /\ aio_dev'.write_cur = (w + done) % b /\ aio_dev'.len = n + done
      /\ aio_dev'.buff = put /\ aio_dev'.read_cur = r
      /\ aio_log'.read = aio_log.read /\ aio_log'.written = m + done
  BY <1>2, <1>4, Zenon DEF AioInv, AioType, AioDev
<1>6. /\ n <= m /\ aio_log.read = UpTo(m - n) /\ w = (r + n) % b
      /\ \A i \in 1..n : u[(r + i - 1) % b] = m - n + i
  BY <1>2, Zenon DEF AioInv, AioRing, b
<1>7. /\ (w + done) % b \in 0..(b - 1)
      /\ (w + done) % b = (r + (n + done)) % b
      /\ \A i \in 1..n : (r + i - 1) % b \in 0..(b - 1) \ (w..(w + done - 1))
      /\ \A i \in (n + 1)..(n + done) :
           /\ (r + i - 1) % b = w + (i - n - 1)
           /\ (r + i - 1) % b \in 0..(b - 1) \cap (w..(w + done - 1))
  <2>1. PICK d \in 0..(b - n) : d = done
    BY <1>3, Zenon
  <2>2. d <= b - w /\ w = (r + n) % b
    BY <1>3, <1>6, <2>1, Zenon
  <2>3. WriteFits(b, r, n, w, d)
    BY <2>2, WriterMoves, ZenonT(40)
  <2> QED
    BY <2>1, <2>3, Zenon DEF WriteFits
<1>8. \A i \in 1..(n + done) : put[(r + i - 1) % b] = m - n + i
  <2>1. SUFFICES ASSUME NEW i \in 1..(n + done)
                 PROVE  put[(r + i - 1) % b] = m - n + i
    BY Zenon
  <2>2. CASE i \in 1..n
    <3>1. PICK p \in 0..(b - 1) : p = (r + i - 1) % b /\ p \notin w..(w + done - 1)
      BY <1>7, <2>2, Zenon
    <3>2. put[p] = u[p]
      BY <3>1, Zenon
    <3> QED
      BY <1>6, <2>2, <3>1, <3>2, Zenon
  <2>3. CASE i \in (n + 1)..(n + done)
    <3>1. PICK p \in 0..(b - 1) : /\ p = (r + i - 1) % b /\ p = w + (i - n - 1)
                                  /\ p \in w..(w + done - 1)
      BY <1>7, <2>3, Zenon
    <3>2. put[p] = m + p - w + 1
      BY <3>1, Zenon
    <3>3. p - w = i - n - 1
      BY <2>3, <3>1
    <3>4. m + p - w + 1 = m - n + i
      BY <2>3, <3>3
    <3> QED
      BY <3>1, <3>2, <3>4, Zenon
  <2> QED
    BY <1>3, <2>2, <2>3
<1>9. put \in [0..(b - 1) -> Nat]
  <2>1. \A i \in 0..(b - 1) : i \in w..(w + done - 1) => m + i - w + 1 \in Nat
    BY <1>3
  <2> QED
    BY <2>1, Zenon
<1> HIDE DEF put
<1>10. aio_dev' \in AioDev /\ aio_log' \in [read : Seq(Nat), written : Nat]
  <2>1. n + done \in 0..b /\ m + done \in Nat
    BY <1>3
  <2>2. aio_dev' \in AioDev
    BY <1>4, <1>7, <1>9, <2>1, Zenon DEF AioInv, AioType, AioDev, b
  <2> QED
    BY <1>4, <2>1, <2>2, Zenon DEF AioInv, AioType
<1>11. (m + done) - (n + done) = m - n
  BY <1>3
<1>12. aio_log'.read = UpTo(aio_log'.written - aio_dev'.len)
  BY <1>5, <1>6, <1>11, Zenon
<1>13. \A i \in 1..aio_dev'.len : aio_dev'.buff[(aio_dev'.read_cur + i - 1) % b]
                                    = aio_log'.written - aio_dev'.len + i
  <2>1. SUFFICES ASSUME NEW i \in 1..(n + done)
                 PROVE  put[(r + i - 1) % b] = (m + done) - (n + done) + i
    BY <1>5, ZenonT(40)
  <2> QED
    BY <1>8, <1>11, Zenon
<1>14. aio_dev'.len <= aio_log'.written
  BY <1>3, <1>5, <1>6
<1>15. aio_dev'.write_cur = (aio_dev'.read_cur + aio_dev'.len) % b
  BY <1>5, <1>7, Zenon
<1> QED
  BY <1>10, <1>12, <1>13, <1>14, <1>15, Zenon DEF AioRing, b

\* Answering a request, now or later, keeps what is known of the requests.
LEMMA AioAnswerStep ==
  ASSUME AioInv, NEW r \in AioSlots, NEW ret \in Int, aio_mod = "up", aio_mod' = "up",
         Answer(r, ret)
  PROVE  aio_req' \in [AioSlots -> AioRequest] /\ AioAnswered'
<1>1. PICK q \in AioRequest :
        /\ aio_req' = [aio_req EXCEPT ![r] = q]
        /\ q.st = "queued" => q.answers = <<>>
        /\ q.st # "freeing"
        /\ q.st = "done" => q.answers = <<q.moved>>
  <2>1. <<ret>> \in Seq(Int) /\ <<>> \in Seq(Int)
    OBVIOUS
  <2>2. [st |-> "queued", moved |-> ret, answers |-> <<>>] \in AioRequest
    BY <2>1, Zenon DEF AioRequest
  <2>3. [st |-> "done", moved |-> ret, answers |-> <<ret>>] \in AioRequest
    BY <2>1, Zenon DEF AioRequest
  <2>4. \/ aio_req' = [aio_req EXCEPT ![r] = [st |-> "queued", moved |-> ret, answers |-> <<>>]]
        \/ aio_req' = [aio_req EXCEPT ![r] = [st |-> "done", moved |-> ret, answers |-> <<ret>>]]
    BY Zenon DEF Answer, async_io_defer
  <2> QED
    BY <2>2, <2>3, <2>4, Zenon
<1>2. aio_req \in [AioSlots -> AioRequest]
  BY Zenon DEF AioInv, AioType
<1>3. \A s \in AioSlots : aio_req'[s] = IF s = r THEN q ELSE aio_req[s]
  BY <1>1, <1>2, Zenon
<1>4. AioAnswered'
  <2>1. SUFFICES ASSUME NEW s \in AioSlots
                 PROVE  /\ aio_req'[s].st = "queued" => aio_req'[s].answers = <<>>
                        /\ aio_req'[s].st \in {"freeing", "done"} =>
                             aio_req'[s].answers = <<aio_req'[s].moved>>
    BY Zenon DEF AioAnswered
  <2>2. CASE s = r
    BY <1>1, <1>3, <2>2, Zenon
  <2>3. CASE s # r
    BY <1>3, <2>3, Zenon DEF AioInv, AioAnswered
  <2> QED
    BY <2>2, <2>3, Zenon
<1> QED
  BY <1>1, <1>2, <1>4, Zenon

\* The initial states satisfy the invariant.
LEMMA AioStarts == AioInit => AioInv
<1>1. SUFFICES ASSUME AioInit
               PROVE  AioInv
  BY Zenon
<1> USE AsyncIoAssumption
<1>2. AIO_BUFF \in Nat \ {0} /\ 0 % AIO_BUFF = 0
  <2>1. AIO_BUFF \in Nat \ {0} /\ 0 \in 0..(2 * AIO_BUFF - 1)
    OBVIOUS
  <2> QED
    BY <2>1, Wrap
<1>3. UpTo(0) = <<>>
  BY UpToIs
<1>4. /\ aio_dev = [buff |-> [i \in 0..(AIO_BUFF - 1) |-> 0], read_cur |-> 0, write_cur |-> 0,
                    len |-> 0]
      /\ aio_log = [read |-> <<>>, written |-> 0]
      /\ aio_req = [r \in AioSlots |-> AioIdle]
  BY <1>1, Zenon DEF AioInit
<1>5. aio_dev \in AioDev
  BY <1>2, <1>4 DEF AioDev
<1>6. AioIdle \in AioRequest /\ AioIdle.st = "idle"
  <2>1. <<>> \in Seq(Int)
    OBVIOUS
  <2> QED
    BY <2>1 DEF AioIdle, AioRequest
<1>7. AioType
  <2>1. <<>> \in Seq(Nat)
    OBVIOUS
  <2> QED
    BY <1>4, <1>5, <1>6, <2>1, Zenon DEF AioType
<1>8. AioRing
  BY <1>2, <1>3, <1>4 DEF AioRing
<1>9. AioAnswered
  BY <1>4, <1>6, Zenon DEF AioAnswered
<1> QED
  BY <1>7, <1>8, <1>9, Zenon DEF AioInv

\* Every step keeps the invariant.
LEMMA AioSteps ==
  ASSUME AioInv, [AioNext]_aioVars
  PROVE  AioInv'
<1>1. ASSUME UNCHANGED <<aio_dev, aio_log>>
      PROVE  AioRing' /\ aio_dev' \in AioDev /\ aio_log' \in [read : Seq(Nat), written : Nat]
  BY <1>1, Zenon DEF AioInv, AioType, AioRing
<1>2. ASSUME UNCHANGED <<aio_dev, aio_log, aio_req>>,
             \/ aio_mod' = aio_mod
             \/ aio_mod = "none"
             \/ aio_mod' = "exit" /\ \A r \in AioSlots : aio_req[r].st # "queued"
             \/ aio_mod = "exit" /\ \A r \in AioSlots : aio_req[r].st # "freeing"
      PROVE  AioInv'
  <2>1. AioAnswered'
    BY <1>2, Zenon DEF AioInv, AioAnswered
  <2> QED
    BY <1>1, <1>2, <2>1, Zenon DEF AioInv, AioType
<1>3. CASE UNCHANGED aioVars
  BY <1>2, <1>3 DEF aioVars
<1>4. CASE aio_m_init \/ async_io_open \/ aio_m_exit
  BY <1>2, <1>4, Zenon DEF aio_m_init, async_io_open, aio_m_exit
<1>5. ASSUME NEW r \in AioSlots, Submit(r)
      PROVE  AioInv'
  <2>1. aio_mod = "up" /\ aio_mod' = "up"
    BY <1>5, Zenon DEF Submit
  <2>2. ASSUME Refuse(r)
        PROVE  AioInv'
    <3>1. aio_req' \in [AioSlots -> AioRequest] /\ AioAnswered'
      BY <2>1, <2>2, AioAnswerStep DEF Refuse, EFAIL
    <3> QED
      BY <1>1, <2>2, <3>1 DEF Refuse, AioInv, AioType
  <2>3. ASSUME NEW done \in Int, Answer(r, done),
               aio_dev' \in AioDev, aio_log' \in [read : Seq(Nat), written : Nat], AioRing'
        PROVE  AioInv'
    <3>1. aio_req' \in [AioSlots -> AioRequest] /\ AioAnswered'
      BY <2>1, <2>3, AioAnswerStep, ZenonT(40)
    <3> QED
      BY <2>3, <3>1, Zenon DEF AioInv, AioType
  <2>4. ASSUME NEW cnt \in AioCounts, NEW done \in 0..WantRead(cnt),
               async_io_do_read(done), Answer(r, done)
        PROVE  AioInv'
    BY <2>3, <2>4, AioReadStep
  <2>5. ASSUME NEW cnt \in AioCounts, NEW done \in 0..WantWrite(cnt),
               async_io_do_write(done), Answer(r, done)
        PROVE  AioInv'
    BY <2>3, <2>5, AioWriteStep
  <2> QED
    BY <1>5, <2>2, <2>4, <2>5, Zenon DEF Submit, async_io_read_iter, async_io_write_iter
<1>6. ASSUME NEW r \in AioSlots, async_io_complete(r)
      PROVE  AioInv'
  <2>0. aio_mod' = aio_mod /\ UNCHANGED <<aio_dev, aio_log>>
    BY <1>6, Zenon DEF async_io_complete
  <2>1. aio_req \in [AioSlots -> AioRequest] /\ aio_req[r] \in AioRequest
    BY Zenon DEF AioInv, AioType
  <2>2. PICK q \in AioRequest :
          /\ aio_req' = [aio_req EXCEPT ![r] = q]
          /\ q.st \in {"freeing", "done"} /\ q.answers = <<q.moved>>
          /\ q.st = "freeing" => aio_mod = "up"
    <3>1. CASE /\ aio_req[r].st = "queued"
               /\ aio_req' = [aio_req EXCEPT ![r].st = "freeing",
                                ![r].answers = Append(@, aio_req[r].moved)]
      <4>1. aio_req[r].answers = <<>> /\ aio_mod = "up"
        BY <3>1, Zenon DEF AioInv, AioAnswered
      <4>2. Append(aio_req[r].answers, aio_req[r].moved) = <<aio_req[r].moved>>
        BY <4>1
      <4>3. <<aio_req[r].moved>> \in Seq(Int)
        BY <2>1 DEF AioRequest
      <4>4. PICK q \in AioRequest :
              q = [aio_req[r] EXCEPT !.st = "freeing", !.answers = <<aio_req[r].moved>>]
        BY <2>1, <4>3, Zenon DEF AioRequest
      <4>5. q.st = "freeing" /\ q.answers = <<q.moved>>
        BY <2>1, <4>4, Zenon DEF AioRequest
      <4>6. aio_req' = [aio_req EXCEPT ![r] = q]
        BY <2>1, <3>1, <4>2, <4>4, Zenon
      <4> QED
        BY <4>1, <4>5, <4>6, Zenon
    <3>2. CASE aio_req[r].st = "freeing" /\ aio_req' = [aio_req EXCEPT ![r].st = "done"]
      <4>1. aio_req[r].answers = <<aio_req[r].moved>>
        BY <3>2, Zenon DEF AioInv, AioAnswered
      <4>2. PICK q \in AioRequest : q = [aio_req[r] EXCEPT !.st = "done"]
        BY <2>1, Zenon DEF AioRequest
      <4>3. q.st = "done" /\ q.answers = <<q.moved>>
        BY <2>1, <4>1, <4>2, Zenon DEF AioRequest
      <4>4. aio_req' = [aio_req EXCEPT ![r] = q]
        BY <2>1, <3>2, <4>2, Zenon
      <4> QED
        BY <4>3, <4>4, Zenon
    <3> QED
      BY <1>6, <3>1, <3>2, Zenon DEF async_io_complete
  <2>3. \A s \in AioSlots : aio_req'[s] = IF s = r THEN q ELSE aio_req[s]
    BY <2>1, <2>2, ZenonT(40)
  <2>4. AioAnswered'
    BY <2>0, <2>2, <2>3 DEF AioInv, AioAnswered
  <2> QED
    BY <1>1, <2>0, <2>1, <2>2, <2>4, Zenon DEF AioInv, AioType
<1> QED
  BY <1>3, <1>4, <1>5, <1>6, Zenon DEF AioNext, AioFinished

\* The ring of 25_async_io is a queue, every request is answered once with what it
\* moved, and nothing completes after the module is gone (RingExact), whatever the
\* size of the buffer, the counts asked for and the faults of the copies.
THEOREM RingIsQueue == AioSpec => []RingExact
<1>1. ASSUME AioInv
      PROVE  RingExact
  <2>1. PICK n \in Nat, m \in Nat : n = aio_dev.len /\ m = aio_log.written - aio_dev.len
    BY <1>1, AsyncIoAssumption DEF AioInv, AioType, AioDev, AioRing
  <2>2. m + n = aio_log.written
    BY <1>1, <2>1 DEF AioInv, AioType
  <2> DEFINE queue == [i \in 1..n |-> aio_dev.buff[(aio_dev.read_cur + i - 1) % AIO_BUFF]]
  <2>3. \A i \in 1..n : queue[i] = m + i
    BY <1>1, <2>1, Zenon DEF AioInv, AioRing
  <2>4. queue \in [1..n -> Nat]
    BY <2>3
  <2> HIDE DEF queue
  <2>5. queue \in Seq(Nat) /\ Len(queue) = n
    BY <2>4, Listed, Zenon
  <2>6. UpTo(m) \o queue = UpTo(m + n)
    BY <2>3, <2>5, UpToMore, Zenon
  <2>7. aio_log.read = UpTo(m)
    BY <1>1, <2>1, Zenon DEF AioInv, AioRing
  <2>8. aio_log.read \o queue = [i \in 1..aio_log.written |-> i]
    BY <2>2, <2>6, <2>7, Zenon DEF UpTo
  <2> QED
    BY <1>1, <2>1, <2>8, Zenon DEF RingExact, AioInv, AioAnswered, queue
<1> QED
  BY <1>1, AioStarts, AioSteps, PTL DEF AioSpec

-------------------------------------------------------------------------------
(***************************************************************************)
(* 10_poll.  FlagServed needs to know in which calls a thread can sleep,   *)
(* and that the structure exists from the moment the module has files.     *)
(***************************************************************************)
PollTimer == [armed : BOOLEAN,
              pc : {"idle", "set_rd", "wake_rd", "set_wr", "wake_wr", "rearm"}, counter : Nat]

PollCall ==
  [pc : {"idle", "take", "prepare", "test", "sleep", "lock", "copy", "look", "poll_sleep"},
   call : {"rd", "wr", "poll", "none"}, nb : BOOLEAN, woken : BOOLEAN]

PollType ==
  /\ pl_flag \in [Flags -> BOOLEAN]
  /\ pl_timer \in PollTimer
  /\ pl_thr \in [PollThreads -> PollCall]
  /\ pl_sets \in [Flags -> Nat] /\ pl_takes \in [Flags -> Nat]

\* What a thread has called fits where it is.
PollPlaces ==
  \A t \in PollThreads :
    /\ pl_thr[t].pc \in {"take", "prepare", "test", "sleep", "lock", "copy"} =>
         pl_thr[t].call \in Flags
    /\ pl_thr[t].pc \in {"look", "poll_sleep"} => pl_thr[t].call = "poll"

PollPhases ==
  /\ pl_mod \in {"init", "up", "exit"} => pl_live
  /\ pl_mod = "none" => ~pl_timer.armed /\ pl_timer.pc = "idle"

Asleep(t, f) ==
  /\ pl_thr[t].pc \in {"sleep", "poll_sleep"} /\ pl_thr[t].call \in {f, "poll"}
  /\ pl_flag[f] /\ ~pl_thr[t].woken

PollWoken ==
  \A t \in PollThreads :
    /\ Asleep(t, "rd") => pl_timer.pc = "wake_rd"
    /\ Asleep(t, "wr") => pl_timer.pc = "wake_wr"

PollOnce == \A f \in Flags : pl_takes[f] + (IF pl_flag[f] THEN 1 ELSE 0) <= pl_sets[f]

PollThere == pl_timer.armed \/ pl_timer.pc # "idle" => pl_live

PollInv == PollType /\ PollPlaces /\ PollPhases /\ PollWoken /\ PollOnce /\ PollThere

\* A call of thread t that changes nothing but t, to a value that fits and does not
\* sleep on a flag that is set, keeps the invariant.
LEMMA PollOwnStep ==
  ASSUME PollInv, NEW t \in PollThreads, NEW c \in PollCall,
         pl_thr' = [pl_thr EXCEPT ![t] = c],
         c.pc \in {"take", "prepare", "test", "sleep", "lock", "copy"} => c.call \in Flags,
         c.pc \in {"look", "poll_sleep"} => c.call = "poll",
         c.pc \in {"sleep", "poll_sleep"} =>
           \A f \in Flags : c.call \in {f, "poll"} => ~pl_flag[f],
         UNCHANGED <<pl_mod, pl_live, pl_flag, pl_timer, pl_sets, pl_takes>>
  PROVE  PollInv'
<1> USE DEF PollInv
<1>1. PollType'
  BY Zenon DEF PollType
<1>2. \A u \in PollThreads : pl_thr'[u] = IF u = t THEN c ELSE pl_thr[u]
  BY Zenon DEF PollType
<1>3. PollPlaces'
  BY <1>2, ZenonT(40) DEF PollPlaces
<1>4. PollWoken'
  BY <1>2 DEF PollWoken, Asleep, Flags
<1>5. PollPhases' /\ PollOnce' /\ PollThere'
  BY Zenon DEF PollPhases, PollOnce, PollThere
<1> QED
  BY <1>1, <1>3, <1>4, <1>5, Zenon

\* The initial states satisfy the invariant.
LEMMA PollStarts == PollInit => PollInv
<1> SUFFICES ASSUME PollInit PROVE PollInv
  OBVIOUS
<1>1. PollType
  BY DEF PollInit, PollType, PollTimer, PollCall, PollIdle
<1>2. \A t \in PollThreads : pl_thr[t].pc = "idle"
  BY Zenon DEF PollInit, PollIdle
<1>3. PollPlaces /\ PollWoken
  BY <1>2, Zenon DEF PollPlaces, PollWoken, Asleep
<1>4. PollPhases /\ PollThere
  BY Zenon DEF PollInit, PollPhases, PollThere
<1>5. PollOnce
  BY DEF PollInit, PollOnce
<1> QED
  BY <1>1, <1>3, <1>4, <1>5, Zenon DEF PollInv

\* The steps of the timer keep the invariant: a flag is set right before its queue
\* is woken.
LEMMA PollTimerStep ==
  ASSUME PollInv, timer_fn
  PROVE  PollInv'
<1> USE DEF PollInv
<1>0. UNCHANGED <<pl_mod, pl_live, pl_takes>>
  BY Zenon DEF timer_fn
<1>1. CASE /\ pl_timer.armed /\ pl_timer.pc = "idle"
           /\ pl_timer' = [armed |-> FALSE, pc |-> "set_rd", counter |-> pl_timer.counter + 1]
           /\ UNCHANGED <<pl_flag, pl_sets, pl_thr>>
  <2>1. PollType'
    BY <1>0, <1>1 DEF PollType, PollTimer
  <2>2. PollPlaces' /\ PollOnce'
    BY <1>0, <1>1, Zenon DEF PollPlaces, PollOnce
  <2>3. PollPhases' /\ PollThere'
    BY <1>0, <1>1, Zenon DEF PollPhases, PollThere
  <2>4. PollWoken'
    BY <1>1, Zenon DEF PollWoken, Asleep
  <2> QED
    BY <2>1, <2>2, <2>3, <2>4, ZenonT(40)
<1>2. CASE /\ pl_timer.pc = "rearm"
           /\ pl_timer' = [pl_timer EXCEPT !.pc = "idle", !.armed = TRUE]
           /\ UNCHANGED <<pl_flag, pl_sets, pl_thr>>
  BY <1>0, <1>2, Zenon DEF PollType, PollTimer, PollPlaces, PollPhases, PollWoken, Asleep,
     PollOnce,
                    PollThere
<1>3. ASSUME NEW f \in Flags, NEW w \in {"wake_rd", "wake_wr"},
             pl_timer.pc # "idle", f = "rd" <=> w = "wake_rd",
             pl_timer.pc \notin {"wake_rd", "wake_wr"},
             SetFlag(f), pl_timer' = [pl_timer EXCEPT !.pc = w]
      PROVE  PollInv'
  <2>1. PollType' /\ PollPlaces'
    BY <1>0, <1>3 DEF SetFlag, PollType, PollTimer, PollPlaces
  <2>2. PollPhases' /\ PollThere'
    BY <1>0, <1>3, Zenon DEF PollType, PollTimer, PollPhases, PollThere
  <2>3. PollWoken'
    BY <1>3, Zenon DEF SetFlag, PollType, PollTimer, PollWoken, Asleep, Flags
  <2>4. PollOnce'
    BY <1>0, <1>3 DEF SetFlag, PollType, PollOnce
  <2> QED
    BY <2>1, <2>2, <2>3, <2>4, Zenon
<1>4. ASSUME NEW f \in Flags, NEW n \in {"set_wr", "rearm"},
             pl_timer.pc = (IF f = "rd" THEN "wake_rd" ELSE "wake_wr"),
             WakeQueue(f), pl_timer' = [pl_timer EXCEPT !.pc = n]
      PROVE  PollInv'
  <2>1. \A t \in PollThreads :
          /\ pl_thr[t].call \in {f, "poll"} =>
               pl_thr'[t] = [pl_thr[t] EXCEPT !.woken = TRUE]
          /\ pl_thr[t].call \notin {f, "poll"} => pl_thr'[t] = pl_thr[t]
    BY <1>4, Zenon DEF WakeQueue
  <2>2. PollType' /\ PollPlaces'
    <3>1. ASSUME NEW t \in PollThreads
          PROVE  /\ pl_thr'[t] \in PollCall
                 /\ pl_thr'[t].pc = pl_thr[t].pc /\ pl_thr'[t].call = pl_thr[t].call
      <4>1. pl_thr[t] \in PollCall
        BY Zenon DEF PollType
      <4>2. pl_thr'[t] \in {pl_thr[t], [pl_thr[t] EXCEPT !.woken = TRUE]}
        BY <2>1, Zenon
      <4> QED
        BY <4>1, <4>2, Zenon DEF PollCall
    <3>2. pl_thr' \in [PollThreads -> PollCall]
      BY <1>4, <3>1, Zenon DEF WakeQueue
    <3>3. PollPlaces'
      BY <3>1, Zenon DEF PollPlaces
    <3> QED
      BY <1>0, <1>4, <3>2, <3>3, Zenon DEF WakeQueue, PollType, PollTimer
  <2>3. PollPhases' /\ PollThere'
    BY <1>0, <1>4, Zenon DEF PollType, PollTimer, PollPhases, PollThere
  <2>4. PollWoken'
    <3>1. SUFFICES ASSUME NEW t \in PollThreads, NEW g \in Flags, Asleep(t, g)'
                   PROVE  FALSE
      BY Zenon DEF PollWoken, Flags
    <3>2. pl_flag' = pl_flag
      BY <1>4, Zenon DEF WakeQueue
    <3>3. pl_thr[t] \in PollCall
      BY Zenon DEF PollType
    <3>4. CASE pl_thr[t].call \in {f, "poll"}
      BY <3>1, <3>3, <3>4, <2>1, Zenon DEF Asleep, PollCall
    <3>5. CASE pl_thr[t].call \notin {f, "poll"}
      <4>1. Asleep(t, g)
        BY <3>1, <3>2, <3>5, <2>1, Zenon DEF Asleep
      <4>2. g # f
        BY <3>5, <4>1, Zenon DEF Asleep
      <4> QED
        BY <1>4, <4>1, <4>2, Zenon DEF PollWoken, Flags
    <3> QED
      BY <3>4, <3>5, Zenon
  <2>5. PollOnce'
    BY <1>0, <1>4, Zenon DEF WakeQueue, PollOnce
  <2> QED
    BY <2>2, <2>3, <2>4, <2>5, Zenon
<1>5. CASE pl_timer.pc = "idle"
  BY <1>1, <1>5, Zenon DEF timer_fn, TimerOrder
<1>6. CASE pl_timer.pc = "rearm"
  BY <1>2, <1>6, Zenon DEF timer_fn, TimerOrder
<1>7. CASE pl_timer.pc = "set_rd"
  <2>1. SetFlag("rd") /\ pl_timer' = [pl_timer EXCEPT !.pc = "wake_rd"]
    BY <1>7 DEF timer_fn, TimerOrder
  <2> QED
    BY <1>3, <1>7, <2>1, Zenon DEF Flags
<1>8. CASE pl_timer.pc = "set_wr"
  <2>1. SetFlag("wr") /\ pl_timer' = [pl_timer EXCEPT !.pc = "wake_wr"]
    BY <1>8 DEF timer_fn, TimerOrder
  <2> QED
    BY <1>3, <1>8, <2>1, Zenon DEF Flags
<1>9. CASE pl_timer.pc = "wake_rd"
  <2>1. PICK n \in {"set_wr", "rearm"} :
          WakeQueue("rd") /\ pl_timer' = [pl_timer EXCEPT !.pc = n]
    BY <1>9 DEF timer_fn, TimerOrder
  <2> QED
    BY <1>4, <1>9, <2>1, Zenon DEF Flags
<1>10. CASE pl_timer.pc = "wake_wr"
  <2>1. WakeQueue("wr") /\ pl_timer' = [pl_timer EXCEPT !.pc = "rearm"]
    BY <1>10 DEF timer_fn, TimerOrder
  <2> QED
    BY <1>4, <1>10, <2>1, Zenon DEF Flags
<1> QED
  BY <1>5, <1>6, <1>7, <1>8, <1>9, <1>10, Zenon DEF PollType, PollTimer

\* The steps of a call keep the invariant: it goes to sleep only after a look at the
\* flag that found it clear.
LEMMA PollCallStep ==
  ASSUME PollInv, NEW t \in PollThreads,
         StartCall(t) \/ poll_read(t) \/ poll_write(t) \/ poll_poll(t)
  PROVE  PollInv'
<1>0. /\ pl_thr[t] \in PollCall /\ pl_thr \in [PollThreads -> PollCall]
      /\ pl_thr[t].pc \in {"take", "prepare", "test", "sleep", "lock", "copy"} =>
           pl_thr[t].call \in Flags
      /\ pl_thr[t].pc \in {"look", "poll_sleep"} => pl_thr[t].call = "poll"
  BY Zenon DEF PollInv, PollType, PollPlaces
<1>1. UNCHANGED <<pl_mod, pl_live, pl_timer, pl_sets>>
  BY Zenon DEF StartCall, poll_read, poll_write, poll_poll, take_flag, PollLock, PollCopy
<1>2. PollIdle \in PollCall /\ PollIdle.pc = "idle"
  BY Zenon DEF PollIdle, PollCall
<1>3. ASSUME PollReturn(t), UNCHANGED <<pl_flag, pl_takes>>
      PROVE  PollInv'
  BY <1>1, <1>2, <1>3, PollOwnStep, Zenon DEF PollReturn
<1>4. ASSUME NEW place \in {"take", "prepare", "lock", "copy"}, PollGoto(t, place),
             pl_thr[t].call \in Flags, UNCHANGED <<pl_flag, pl_takes>>
      PROVE  PollInv'
  <2>1. PICK c \in PollCall : c = [pl_thr[t] EXCEPT !.pc = place]
    BY <1>0, Zenon DEF PollCall
  <2>2. pl_thr' = [pl_thr EXCEPT ![t] = c]
    BY <1>4, <2>1, Zenon DEF PollGoto
  <2>3. c.pc = place /\ c.call = pl_thr[t].call
    BY <1>0, <2>1, Zenon DEF PollCall
  <2> QED
    BY <1>1, <1>4, <2>2, <2>3, PollOwnStep, Zenon
<1>5. ASSUME StartCall(t)
      PROVE  PollInv'
  <2>1. PICK kind \in Flags \cup {"poll"}, nb \in BOOLEAN :
          pl_thr' = [pl_thr EXCEPT ![t] = [pc |-> IF kind = "poll" THEN "look" ELSE "take",
                                           call |-> kind, nb |-> nb, woken |-> FALSE]]
    BY <1>5, Zenon DEF StartCall
  <2>2. PICK place \in {"look", "take"} : place = IF kind = "poll" THEN "look" ELSE "take"
    BY Zenon
  <2>3. PICK c \in PollCall : c = [pc |-> place, call |-> kind, nb |-> nb, woken |-> FALSE]
    BY ZenonT(40) DEF PollCall, Flags
  <2>4. UNCHANGED <<pl_flag, pl_takes>>
    BY <1>5 DEF StartCall
  <2> QED
    BY <1>1, <2>1, <2>2, <2>3, <2>4, PollOwnStep, Zenon
<1>6. ASSUME take_flag(t)
      PROVE  PollInv'
  <2>1. ASSUME PollAt(t, "take"), pl_flag[pl_thr[t].call], PollGoto(t, "lock"),
               pl_flag' = [pl_flag EXCEPT ![pl_thr[t].call] = FALSE],
               pl_takes' = [pl_takes EXCEPT ![pl_thr[t].call] = @ + 1]
        PROVE  PollInv'
    <3>1. PICK f \in Flags : f = pl_thr[t].call
      BY <1>0, <2>1, Zenon DEF PollAt
    <3>2. PICK c \in PollCall : c = [pl_thr[t] EXCEPT !.pc = "lock"]
      BY <1>0, Zenon DEF PollCall
    <3>3. \A u \in PollThreads : pl_thr'[u] = IF u = t THEN c ELSE pl_thr[u]
      BY <1>0, <2>1, <3>2, Zenon DEF PollGoto
    <3>4. c.pc = "lock" /\ c.call = f
      BY <1>0, <3>1, <3>2, Zenon DEF PollCall
    <3>5. PollType'
      BY <1>0, <1>1, <2>1, <3>1, <3>2 DEF PollInv, PollType, PollGoto
    <3>6. PollPlaces'
      BY <3>3, <3>4, Zenon DEF PollInv, PollPlaces
    <3>7. \A g \in Flags : pl_flag'[g] => pl_flag[g]
      BY <2>1, <3>1, Zenon DEF PollInv, PollType
    <3>8. PollWoken'
      BY <1>1, <3>3, <3>4, <3>7, Zenon DEF PollInv, PollWoken, Asleep, Flags
    <3>9. PollPhases' /\ PollThere'
      BY <1>1, ZenonT(40) DEF PollInv, PollPhases, PollThere
    <3>10. PollOnce'
      BY <1>1, <2>1, <3>1 DEF PollInv, PollType, PollOnce
    <3> QED
      BY <3>5, <3>6, <3>8, <3>9, <3>10, Zenon DEF PollInv
  <2>2. ASSUME PollAt(t, "prepare"), UNCHANGED <<pl_flag, pl_takes>>,
               pl_thr' = [pl_thr EXCEPT ![t].pc = "test", ![t].woken = FALSE]
        PROVE  PollInv'
    <3>1. PICK c \in PollCall : c = [pl_thr[t] EXCEPT !.pc = "test", !.woken = FALSE]
      BY <1>0, Zenon DEF PollCall
    <3>2. pl_thr' = [pl_thr EXCEPT ![t] = c] /\ c.pc = "test" /\ c.call \in Flags
      BY <1>0, <2>2, <3>1, ZenonT(40) DEF PollCall, PollAt
    <3> QED
      BY <1>1, <2>2, <3>2, PollOwnStep, Zenon
  <2>3. ASSUME PollAt(t, "test"), ~pl_flag[pl_thr[t].call], PollGoto(t, "sleep"),
               UNCHANGED <<pl_flag, pl_takes>>
        PROVE  PollInv'
    <3>1. PICK c \in PollCall : c = [pl_thr[t] EXCEPT !.pc = "sleep"]
      BY <1>0, Zenon DEF PollCall
    <3>2. /\ pl_thr' = [pl_thr EXCEPT ![t] = c] /\ c.pc = "sleep"
          /\ c.call = pl_thr[t].call /\ c.call \in Flags
      BY <1>0, <2>3, <3>1, Zenon DEF PollCall, PollAt, PollGoto
    <3>3. \A f \in Flags : c.call \in {f, "poll"} => ~pl_flag[f]
      BY <2>3, <3>2, Zenon DEF Flags
    <3> QED
      BY <1>1, <2>3, <3>2, <3>3, PollOwnStep, Zenon
  <2> QED
    BY <1>0, <1>3, <1>4, <1>6, <2>1, <2>2, <2>3, Zenon DEF take_flag, PollAt
<1>7. ASSUME PollLock(t) \/ PollCopy(t)
      PROVE  PollInv'
  <2>1. UNCHANGED <<pl_flag, pl_takes>>
    BY <1>7, Zenon DEF PollLock, PollCopy
  <2> QED
    BY <1>0, <1>3, <1>4, <1>7, <2>1, Zenon DEF PollLock, PollCopy, PollAt
<1>8. ASSUME poll_poll(t)
      PROVE  PollInv'
  <2>0. UNCHANGED <<pl_flag, pl_takes>>
    BY <1>8, Zenon DEF poll_poll
  <2>1. ASSUME PollAt(t, "look"), \A f \in Flags : ~pl_flag[f], PollGoto(t, "poll_sleep")
        PROVE  PollInv'
    <3>1. PICK c \in PollCall : c = [pl_thr[t] EXCEPT !.pc = "poll_sleep"]
      BY <1>0, Zenon DEF PollCall
    <3>2. /\ pl_thr' = [pl_thr EXCEPT ![t] = c] /\ c.pc = "poll_sleep" /\ c.call = "poll"
      BY <1>0, <2>1, <3>1, Zenon DEF PollCall, PollAt, PollGoto
    <3> QED
      BY <1>1, <2>0, <2>1, <3>2, PollOwnStep, Zenon
  <2>2. ASSUME PollAt(t, "poll_sleep"),
               pl_thr' = [pl_thr EXCEPT ![t].pc = "look", ![t].woken = FALSE]
        PROVE  PollInv'
    <3>1. PICK c \in PollCall : c = [pl_thr[t] EXCEPT !.pc = "look", !.woken = FALSE]
      BY <1>0, Zenon DEF PollCall
    <3>2. pl_thr' = [pl_thr EXCEPT ![t] = c] /\ c.pc = "look" /\ c.call = "poll"
      BY <1>0, <2>2, <3>1, Zenon DEF PollCall, PollAt
    <3> QED
      BY <1>1, <2>0, <3>2, PollOwnStep, Zenon
  <2> QED
    BY <1>3, <1>8, <2>0, <2>1, <2>2, Zenon DEF poll_poll
<1> QED
  BY <1>5, <1>6, <1>7, <1>8, Zenon DEF poll_read, poll_write

\* Loading and unloading keep the invariant: the timer is started after the
\* structure is there, and shut down before it is freed.
LEMMA PollModuleStep ==
  ASSUME PollInv, poll_m_init \/ poll_m_exit
  PROVE  PollInv'
<1>1. UNCHANGED <<pl_flag, pl_thr, pl_sets, pl_takes>> /\ pl_timer'.pc = pl_timer.pc
  BY Zenon DEF poll_m_init, poll_m_exit, PollInv, PollType, PollTimer
<1>2. PollType' /\ PollPlaces' /\ PollWoken' /\ PollOnce'
  BY <1>1, Zenon DEF PollInv, PollType, PollTimer, PollPlaces, PollWoken, Asleep, PollOnce,
              poll_m_init, poll_m_exit
<1>3. PollPhases' /\ PollThere'
  BY <1>1, Zenon DEF PollInv, PollType, PollTimer, PollPhases, PollThere, poll_m_init,
     poll_m_exit
<1> QED
  BY <1>2, <1>3, Zenon DEF PollInv

\* Whoever sleeps although its flag is set is being woken by timer_fn, every setting
\* of a flag lets one call past it at most, and the timer never outlives the structure
\* (FlagServed), for any number of threads, expirations and calls.
THEOREM SleepersServed == PollSpec => []FlagServed
<1>1. ASSUME PollInv, [PollNext]_pollVars
      PROVE  PollInv'
  <2>1. CASE UNCHANGED pollVars
    BY <1>1, <2>1, Zenon DEF pollVars, PollInv, PollType, PollPlaces, PollPhases, PollWoken,
       Asleep,
                      PollOnce, PollThere
  <2>2. CASE PollNext
    BY <1>1, <2>1, <2>2, PollTimerStep, PollCallStep, PollModuleStep, Zenon
    DEF PollNext, PollFinished
  <2> QED
    BY <1>1, <2>1, <2>2, Zenon
<1>2. PollInv => FlagServed
  <2>1. SUFFICES ASSUME PollInv
                 PROVE  \A t \in PollThreads, f \in Flags :
                          Asleep(t, f) =>
                            pl_timer.pc = IF f = "rd" THEN "wake_rd" ELSE "wake_wr"
    BY Zenon DEF FlagServed, PollInv, Asleep, PollOnce, PollThere
  <2> QED
    BY <2>1, Zenon DEF PollInv, PollWoken, Flags
<1> QED
  BY <1>1, <1>2, PollStarts, PTL DEF PollSpec
=============================================================================
