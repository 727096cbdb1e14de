-------------------------------- MODULE Pipe --------------------------------
(***************************************************************************)
(* examples/08_pipe_simple_sleep and examples/09_pipe_advanced_sleep: a    *)
(* character device that holds one message.  A reader sleeps until there   *)
(* is data, a writer until the last message has been read.  The two        *)
(* drivers share everything but the way a process goes to sleep, so this   *)
(* module has the steps they share and, after them, the two ways.          *)
(*                                                                         *)
(* Each thread runs one call at a time; pc[p] is where it is in pipe_read()*)
(* or pipe_write():                                                        *)
(*   idle     outside the driver                                           *)
(*   lock     in mutex_lock_interruptible()                                *)
(*   check    holding the mutex, at the while condition                    *)
(*   fast     (08) wait_event's first test of the condition, not queued    *)
(*   prepare  before prepare_to_wait()                                     *)
(*   test     queued, before the lockless test of the condition            *)
(*   intr     (08) the same, but a signal kept it off the queue            *)
(*   sched    in schedule()                                                *)
(*   finish   before finish_wait()                                         *)
(*   copy     holding the mutex, condition met                             *)
(*   wake     holding the mutex, before wake_up_interruptible()            *)
(*   unlock   holding the mutex, before the final mutex_unlock()           *)
(***************************************************************************)
EXTENDS Naturals, Sequences

CONSTANTS Readers,    \* threads that call read()
          Writers,    \* threads that call write()
          Byte,       \* the values of a byte
          NUL,        \* the byte kzalloc() leaves
          BUFF_SIZE,  \* size of the device's buffer
          MaxCount,   \* bound: the most bytes a read() asks for
          Message,    \* bound: the bytes a write() may carry
          Nonblock,   \* bound: the values of O_NONBLOCK callers use
          None        \* no owner of the mutex

ASSUME PipeAssumption ==
    /\ Readers \cap Writers = {}
    /\ None \notin Readers \cup Writers
    /\ NUL \in Byte
    /\ BUFF_SIZE \in Nat \ {0}
    /\ MaxCount \in Nat
    /\ Message \subseteq Seq(Byte)
    /\ Nonblock \subseteq BOOLEAN

Threads == Readers \cup Writers

VARIABLES mutex,     \* dev->mutex: its owner, or None
          buff,      \* dev->buff
          buff_len,  \* dev->buff_len: bytes written into buff
          rd_pos,    \* dev->rd_pos: bytes of buff already read
          queued,    \* threads with an entry on dev->rd_queue or wr_queue
          state,     \* the task state of each thread
          signal,    \* signal_pending() of each thread
          pc,        \* where each thread is
          count,     \* bytes a read() asked for
          ubuf,      \* the user's buffer of each call
          nonblock   \* O_NONBLOCK of the file of each call

dev == <<mutex, buff, buff_len, rd_pos>>
sched == <<queued, state>>
call == <<count, ubuf, nonblock>>
vars == <<dev, sched, signal, pc, call>>

PC == {"idle", "lock", "check", "fast", "prepare", "test", "intr", "sched",
       "finish", "copy", "wake", "unlock"}

Locked == {"check", "copy", "wake", "unlock"}

Init ==
    /\ mutex = None
    /\ buff = [i \in 0..BUFF_SIZE - 1 |-> NUL]
    /\ buff_len = 0
    /\ rd_pos = 0
    /\ queued = {}
    /\ state = [p \in Threads |-> "RUNNING"]
    /\ signal = [p \in Threads |-> FALSE]
    /\ pc = [p \in Threads |-> "idle"]
    /\ count = [p \in Threads |-> 0]
    /\ ubuf = [p \in Threads |-> <<>>]
    /\ nonblock = [p \in Threads |-> FALSE]

-----------------------------------------------------------------------------
(* Steps both drivers share. *)

Goto(p, to) == pc' = [pc EXCEPT ![p] = to]

\* The system call returns: its arguments are gone, a pending signal is
\* delivered.  What a read() was given stays with the user, in ubuf.
Return(p) ==
    /\ Goto(p, "idle")
    /\ signal' = [signal EXCEPT ![p] = FALSE]
    /\ count' = [count EXCEPT ![p] = 0]
    /\ nonblock' = [nonblock EXCEPT ![p] = FALSE]
    /\ ubuf' = IF p \in Readers THEN ubuf ELSE [ubuf EXCEPT ![p] = <<>>]

\* The call goes on.
Continue(p, to) == Goto(p, to) /\ UNCHANGED <<signal, call>>

rd_queue == queued \cap Readers
wr_queue == queued \cap Writers

\* The while condition of pipe_read() and of pipe_write().
MustWait(p) == IF p \in Readers THEN buff_len = 0 ELSE buff_len # 0

\* The user calls read() on the device; each call opens with its own flags.
CallRead(r, n, nb) ==
    /\ pc[r] = "idle"
    /\ count' = [count EXCEPT ![r] = n]
    /\ ubuf' = [ubuf EXCEPT ![r] = <<>>]
    /\ nonblock' = [nonblock EXCEPT ![r] = nb]
    /\ Goto(r, "lock")
    /\ UNCHANGED <<dev, sched, signal>>

\* The user calls write() with the bytes d.
CallWrite(w, d, nb) ==
    /\ pc[w] = "idle"
    /\ ubuf' = [ubuf EXCEPT ![w] = d]
    /\ nonblock' = [nonblock EXCEPT ![w] = nb]
    /\ Goto(w, "lock")
    /\ UNCHANGED <<dev, sched, signal, count>>

\* A signal wakes an interruptible sleeper, on whatever queue it is.
Signal(p) ==
    /\ pc[p] # "idle"
    /\ ~signal[p]
    /\ signal' = [signal EXCEPT ![p] = TRUE]
    /\ state' = [state EXCEPT ![p] = "RUNNING"]
    /\ UNCHANGED <<dev, queued, pc, call>>

\* mutex_lock_interruptible(): a free mutex is taken even if a signal is
\* pending; a wait for it is interrupted, -ERESTARTSYS.
Lock(p) ==
    /\ pc[p] = "lock"
    /\ \/ /\ mutex = None
          /\ mutex' = p
          /\ Continue(p, "check")
       \/ /\ mutex # None
          /\ signal[p]
          /\ Return(p)
          /\ UNCHANGED mutex
    /\ UNCHANGED <<buff, buff_len, rd_pos, sched>>

\* The while loop's head: unlock before sleeping; -EAGAIN with O_NONBLOCK.
Check(p, sleep) ==
    /\ pc[p] = "check"
    /\ \/ /\ ~MustWait(p)
          /\ Continue(p, "copy")
          /\ UNCHANGED mutex
       \/ /\ MustWait(p)
          /\ mutex' = None
          /\ IF nonblock[p] THEN Return(p) ELSE Continue(p, sleep)
    /\ UNCHANGED <<buff, buff_len, rd_pos, sched>>

\* Mutant: the last reader wakes nobody.
ReadCopyNoWake(r) ==
    LET n == IF count[r] < buff_len - rd_pos THEN count[r]
                                             ELSE buff_len - rd_pos
        last == rd_pos + n >= buff_len
    IN  /\ pc[r] = "copy"
        /\ ubuf' = [ubuf EXCEPT ![r] = [i \in 1..n |-> buff[rd_pos + i - 1]]]
        /\ buff_len' = IF last THEN 0 ELSE buff_len
        /\ rd_pos' = IF last THEN 0 ELSE rd_pos + n
        /\ Goto(r, "unlock")
        /\ UNCHANGED <<mutex, buff, sched, signal, count, nonblock>>

\* copy_to_user() succeeds; the reader that takes the last byte empties the
\* buffer and goes on to wake the writers.
ReadCopy(r) ==
    LET n == IF count[r] < buff_len - rd_pos THEN count[r]
                                             ELSE buff_len - rd_pos
        pos == rd_pos + n
    IN  /\ pc[r] = "copy"
        /\ ubuf' = [ubuf EXCEPT ![r] = [i \in 1..n |-> buff[rd_pos + i - 1]]]
        /\ IF pos >= buff_len
           THEN /\ buff_len' = 0
                /\ rd_pos' = 0
                /\ Goto(r, "wake")
           ELSE /\ rd_pos' = pos
                /\ Goto(r, "unlock")
                /\ UNCHANGED buff_len
        /\ UNCHANGED <<mutex, buff, sched, signal, count, nonblock>>

\* copy_to_user() faults, -EFAULT: nothing is consumed.
ReadFault(r) ==
    /\ pc[r] = "copy"
    /\ count[r] > 0
    /\ Continue(r, "unlock")
    /\ UNCHANGED <<dev, sched>>

\* The first n bytes of d over the front of the buffer.
Overwrite(d, n) ==
    [i \in 0..BUFF_SIZE - 1 |-> IF i < n THEN d[i + 1] ELSE buff[i]]

\* What a write moves: its own length, at most the buffer's.
WriteLen(w) == IF Len(ubuf[w]) < BUFF_SIZE THEN Len(ubuf[w]) ELSE BUFF_SIZE

\* copy_from_user() succeeds; a write of no bytes wakes nobody.
WriteCopy(w) ==
    LET n == WriteLen(w)
    IN  /\ pc[w] = "copy"
        /\ buff' = Overwrite(ubuf[w], n)
        /\ IF n > 0
           THEN /\ buff_len' = n
                /\ rd_pos' = 0
                /\ Goto(w, "wake")
           ELSE /\ Goto(w, "unlock")
                /\ UNCHANGED <<buff_len, rd_pos>>
        /\ UNCHANGED <<mutex, sched, signal, call>>

\* Mutant: buff_len is set although the copy failed.
WriteFaultLen(w) ==
    /\ pc[w] = "copy"
    /\ WriteLen(w) > 0
    /\ buff' = Overwrite(ubuf[w], WriteLen(w) - 1)
    /\ buff_len' = WriteLen(w)
    /\ Continue(w, "unlock")
    /\ UNCHANGED <<mutex, rd_pos, sched>>

\* copy_from_user() faults after k bytes, -EFAULT: the buffer is dirty, but
\* buff_len still says it is empty.
WriteFault(w) ==
    /\ pc[w] = "copy"
    /\ \E k \in 0..WriteLen(w) : k < WriteLen(w) /\ buff' = Overwrite(ubuf[w], k)
    /\ Continue(w, "unlock")
    /\ UNCHANGED <<mutex, buff_len, rd_pos, sched>>

\* wake_up_interruptible() on queue q: every entry's task is set running; an
\* entry whose task was asleep is removed (autoremove_wake_function).
wake_up_interruptible(q) ==
    /\ state' = [p \in Threads |-> IF p \in q THEN "RUNNING" ELSE state[p]]
    /\ queued' = queued \ {p \in q : state[p] = "INTERRUPTIBLE"}

Wake(p) ==
    /\ pc[p] = "wake"
    /\ wake_up_interruptible(IF p \in Readers THEN wr_queue ELSE rd_queue)
    /\ Continue(p, "unlock")
    /\ UNCHANGED dev

Unlock(p) ==
    /\ pc[p] = "unlock"
    /\ mutex' = None
    /\ Return(p)
    /\ UNCHANGED <<buff, buff_len, rd_pos, sched>>

-----------------------------------------------------------------------------
(* 09_pipe_advanced_sleep: the steps of going to sleep spelled out. *)

\* Mutant: schedule() without testing the condition again.
PrepareNoTest(p) ==
    /\ pc[p] = "prepare"
    /\ queued' = queued \cup {p}
    /\ state' = [state EXCEPT ![p] = "INTERRUPTIBLE"]
    /\ Continue(p, "sched")
    /\ UNCHANGED dev

\* prepare_to_wait(): join the queue, then TASK_INTERRUPTIBLE.
Prepare(p) ==
    /\ pc[p] = "prepare"
    /\ queued' = queued \cup {p}
    /\ state' = [state EXCEPT ![p] = "INTERRUPTIBLE"]
    /\ Continue(p, "test")
    /\ UNCHANGED dev

\* READ_ONCE(dev->buff_len), without the mutex.
Test(p) ==
    /\ pc[p] = "test"
    /\ Continue(p, IF MustWait(p) THEN "sched" ELSE "finish")
    /\ UNCHANGED <<dev, sched>>

\* schedule() returns to a task that is running or has a signal pending.
Schedule(p) ==
    /\ pc[p] = "sched"
    /\ state[p] = "RUNNING" \/ signal[p]
    /\ state' = [state EXCEPT ![p] = "RUNNING"]
    /\ Continue(p, "finish")
    /\ UNCHANGED <<dev, queued>>

\* Mutant: if instead of while, the condition not tested under the mutex.
FinishNoLoop(p) ==
    /\ pc[p] = "finish"
    /\ mutex = None
    /\ mutex' = p
    /\ queued' = queued \ {p}
    /\ state' = [state EXCEPT ![p] = "RUNNING"]
    /\ Continue(p, "copy")
    /\ UNCHANGED <<buff, buff_len, rd_pos>>

\* finish_wait(), then signal_pending(): -ERESTARTSYS, or lock again.
Finish(p) ==
    /\ pc[p] = "finish"
    /\ queued' = queued \ {p}
    /\ state' = [state EXCEPT ![p] = "RUNNING"]
    /\ IF signal[p] THEN Return(p) ELSE Continue(p, "lock")
    /\ UNCHANGED dev

AdvancedSleep(p) == Prepare(p) \/ Test(p) \/ Schedule(p) \/ Finish(p)

pipe_read(r) ==
    \/ Lock(r) \/ Check(r, "prepare") \/ AdvancedSleep(r)
    \/ ReadCopy(r) \/ ReadFault(r) \/ Wake(r) \/ Unlock(r)

pipe_write(w) ==
    \/ Lock(w) \/ Check(w, "prepare") \/ AdvancedSleep(w)
    \/ WriteCopy(w) \/ WriteFault(w) \/ Wake(w) \/ Unlock(w)

-----------------------------------------------------------------------------
(* 08_pipe_simple_sleep: wait_event_interruptible(). *)

\* The macro tests the condition once before it touches the queue.
WaitEvent(p) ==
    /\ pc[p] = "fast"
    /\ Continue(p, IF MustWait(p) THEN "prepare" ELSE "lock")
    /\ UNCHANGED <<dev, sched>>

\* prepare_to_wait_event(): with a signal pending the entry is taken off the
\* queue and the state is left alone; else as prepare_to_wait().
PrepareEvent(p) ==
    /\ pc[p] = "prepare"
    /\ IF signal[p]
       THEN /\ queued' = queued \ {p}
            /\ Continue(p, "intr")
            /\ UNCHANGED state
       ELSE /\ queued' = queued \cup {p}
            /\ state' = [state EXCEPT ![p] = "INTERRUPTIBLE"]
            /\ Continue(p, "test")
    /\ UNCHANGED dev

\* The condition ends the wait with 0, even after a signal; else a signal
\* that prepare_to_wait_event() saw ends it with -ERESTARTSYS.
TestEvent(p) ==
    /\ pc[p] \in {"test", "intr"}
    /\ \/ /\ ~MustWait(p)
          /\ Continue(p, "finish")
       \/ /\ MustWait(p)
          /\ IF pc[p] = "intr" THEN Return(p) ELSE Continue(p, "sched")
    /\ UNCHANGED <<dev, sched>>

\* Back to prepare_to_wait_event() for another round.
ScheduleEvent(p) ==
    /\ pc[p] = "sched"
    /\ state[p] = "RUNNING" \/ signal[p]
    /\ state' = [state EXCEPT ![p] = "RUNNING"]
    /\ Continue(p, "prepare")
    /\ UNCHANGED <<dev, queued>>

\* finish_wait(); wait_event_interruptible() returned 0.
FinishEvent(p) ==
    /\ pc[p] = "finish"
    /\ queued' = queued \ {p}
    /\ state' = [state EXCEPT ![p] = "RUNNING"]
    /\ Continue(p, "lock")
    /\ UNCHANGED dev

SimpleSleep(p) ==
    \/ WaitEvent(p) \/ PrepareEvent(p) \/ TestEvent(p) \/ ScheduleEvent(p)
    \/ FinishEvent(p)

pipe_read_simple(r) ==
    \/ Lock(r) \/ Check(r, "fast") \/ SimpleSleep(r)
    \/ ReadCopy(r) \/ ReadFault(r) \/ Wake(r) \/ Unlock(r)

pipe_write_simple(w) ==
    \/ Lock(w) \/ Check(w, "fast") \/ SimpleSleep(w)
    \/ WriteCopy(w) \/ WriteFault(w) \/ Wake(w) \/ Unlock(w)

-----------------------------------------------------------------------------
(* The two systems: any threads on one device, and signals at any time. *)

User ==
    \/ \E r \in Readers, n \in 0..MaxCount, nb \in Nonblock : CallRead(r, n, nb)
    \/ \E w \in Writers, d \in Message, nb \in Nonblock : CallWrite(w, d, nb)
    \/ \E p \in Threads : Signal(p)

NextAdvanced ==
    \/ User
    \/ \E r \in Readers : pipe_read(r)
    \/ \E w \in Writers : pipe_write(w)

NextSimple ==
    \/ User
    \/ \E r \in Readers : pipe_read_simple(r)
    \/ \E w \in Writers : pipe_write_simple(w)

SpecAdvanced == Init /\ [][NextAdvanced]_vars
SpecSimple == Init /\ [][NextSimple]_vars

\* The scheduler runs a runnable thread, and a mutex is handed to a waiter
\* that keeps losing it.  Users owe nothing: they may never call.
FairAdvanced ==
    /\ SpecAdvanced
    /\ \A r \in Readers : WF_vars(pipe_read(r)) /\ SF_vars(Lock(r))
    /\ \A w \in Writers : WF_vars(pipe_write(w)) /\ SF_vars(Lock(w))

FairSimple ==
    /\ SpecSimple
    /\ \A r \in Readers : WF_vars(pipe_read_simple(r)) /\ SF_vars(Lock(r))
    /\ \A w \in Writers : WF_vars(pipe_write_simple(w)) /\ SF_vars(Lock(w))

-----------------------------------------------------------------------------
(* Properties. *)

\* Every variable has a value of its kind; the lengths stay in the buffer.
TypeOK ==
    /\ mutex \in Threads \cup {None}
    /\ buff \in [0..BUFF_SIZE - 1 -> Byte]
    /\ buff_len \in 0..BUFF_SIZE
    /\ rd_pos \in 0..BUFF_SIZE
    /\ queued \in SUBSET Threads
    /\ state \in [Threads -> {"RUNNING", "INTERRUPTIBLE"}]
    /\ signal \in [Threads -> BOOLEAN]
    /\ pc \in [Threads -> PC]
    /\ count \in [Threads -> 0..MaxCount]
    /\ ubuf \in [Threads -> Seq(Byte)]
    /\ nonblock \in [Threads -> BOOLEAN]

Opposite(p, q) == (p \in Readers) # (q \in Readers)

\* No wake-up is lost: a thread that is really asleep although it no longer
\* has to wait is about to be woken by a thread of the other side, which
\* holds the mutex just before its wake_up_interruptible().  This is what
\* the comment in pipe_read() argues for prepare_to_wait() before the test.
NoLostWakeup ==
    \A p \in Threads :
        pc[p] = "sched" /\ state[p] = "INTERRUPTIBLE" /\ ~MustWait(p)
        => \E q \in Threads : Opposite(p, q) /\ pc[q] = "wake"

\* The mutex protects the buffer: at most one thread is between taking it
\* and giving it back, on every path, the interrupted ones included.
MutualExclusion ==
    \A p, q \in Threads : pc[p] \in Locked /\ pc[q] \in Locked => p = q

\* There is something to read, or both positions are back at the start.
PositionsFit == rd_pos < buff_len \/ (rd_pos = 0 /\ buff_len = 0)

\* Unread bytes always lie inside what was written: the unsigned
\* buff_len - rd_pos in pipe_read() never wraps and never reads stale bytes.
\* And a read() about to copy has a byte to copy, whoever else was woken with
\* it: it never returns 0, the end of the file, for want of data.
PositionInBuffer ==
    /\ PositionsFit
    /\ \A r \in Readers : pc[r] = "copy" => rd_pos < buff_len

\* The channel of PipeSpec, read off the device and the calls in progress.
Pending(p) == pc[p] \notin {"idle", "wake", "unlock"}

Chan == [i \in 1..(buff_len - rd_pos) |-> buff[rd_pos + i - 1]]
Offers == [w \in Writers |-> IF Pending(w) THEN ubuf[w] ELSE <<>>]
Asks == [r \in Readers |-> IF Pending(r) THEN count[r] ELSE 0]
Given == [r \in Readers |-> ubuf[r]]

Abstract ==
    INSTANCE PipeSpec WITH
        chan <- Chan, offer <- Offers, ask <- Asks, got <- Given

\* The driver implements the one-message channel: each byte accepted is
\* delivered once and in order, whichever way its threads sleep, and a call
\* that fails with -EAGAIN, -EFAULT or -ERESTARTSYS moves nothing.
ImplementsPipe == Abstract!Spec

\* A call that no longer has to wait is served, a read of a buffer that was
\* filled as well as a write to one that was drained: it returns, unless
\* another thread changes the buffer first.
CallServed ==
    \A p \in Threads :
        pc[p] # "idle" /\ ~MustWait(p) ~> pc[p] = "idle" \/ MustWait(p)
=============================================================================
