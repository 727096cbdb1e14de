------------------------------- MODULE Deferred -------------------------------
(***************************************************************************)
(* examples/13_jit and examples/14_jiq: reads that defer their output to a *)
(* timer or to a work item, which queues itself again until there is       *)
(* enough, and wait for it.  Every read of jitimer and jitasklet has data  *)
(* of its own, freed before it returns; the reads of the jiq files share   *)
(* one buffer, under a mutex, and each file has an object of its own to    *)
(* queue.  A line stands for the read it was printed for.                  *)
(***************************************************************************)
EXTENDS Integers, Sequences, FiniteSets

CONSTANTS
  DeferThreads,
  LOOPS,   \* JIT_ASYNC_LOOPS
  LINES,   \* the lines the buffer of jiq has room for
  MaxReads \* bound: reads

ASSUME DeferredAssumption == LOOPS \in Nat \ {0} /\ LINES \in Nat /\ LINES > 2 /\ MaxReads \in Nat

VARIABLES
  dq_lock, \* jiq: dev->lock, "free" or its holder
  dq_obj,  \* per timer or work item: queued, where its function is, and for which read
  dq_buf,  \* per buffer: allocated, its lines, complete
  dq_thr,  \* per thread: pc, file, object and read of its call; was woken; saw it complete
  dq_mod,  \* jiq: the module, and how many of its files there are
  dq_reads

dqVars == <<dq_lock, dq_obj, dq_buf, dq_thr, dq_mod, dq_reads>>

jiq_files == <<"jiqwq", "jiqwqdelay", "jiqtimer", "jiqtasklet">>
Present(n) == {jiq_files[i] : i \in 1..n} \* the files once n are created
Objects == Present(Len(jiq_files)) \cup DeferThreads
BufOf(o) == IF o \in DeferThreads THEN o ELSE "jiq"

\* A thread is none of the names used beside threads.
ASSUME DeferNames ==
  DeferThreads \cap (Present(Len(jiq_files)) \cup {"free", "none", "jiq"}) = {}

NoBuf == [live |-> FALSE, lines |-> <<>>, done |-> FALSE]
DeferIdle == [pc |-> "idle", file |-> "none", obj |-> "none", read |-> 0, woken |-> FALSE,
              ok |-> FALSE]

DeferInit ==
  /\ dq_lock = "free"
  /\ dq_obj = [o \in Objects |-> [queued |-> FALSE, pc |-> "idle", read |-> 0]]
  /\ dq_buf = [b \in DeferThreads \cup {"jiq"} |-> NoBuf]
  /\ dq_thr = [t \in DeferThreads |-> DeferIdle]
  /\ dq_mod = [phase |-> "none", files |-> 0] /\ dq_reads = 0

DeferAt(t, pc) == dq_thr[t].pc = pc
DeferGoto(t, pc) == dq_thr' = [dq_thr EXCEPT ![t].pc = pc]

-------------------------------------------------------------------------------
(* The deferred functions, each in one instance at a time.                 *)

DeferRun(o) ==
  /\ dq_obj[o].queued /\ dq_obj[o].pc = "idle"
  /\ dq_obj' = [dq_obj EXCEPT ![o].queued = FALSE, ![o].pc = "record"]
  /\ UNCHANGED <<dq_lock, dq_buf, dq_thr, dq_mod, dq_reads>>

\* A line is appended to buffer b for object o.
jit_record(b, o) == dq_buf' = [dq_buf EXCEPT ![b].lines = Append(@, dq_obj[o].read)]

\* The functions of jit; loops is LOOPS + 1 less the lines.
JitLoop(t) ==
  /\ dq_obj[t].pc = "record"
  /\ jit_record(t, t)
  /\ dq_obj' = [dq_obj EXCEPT ![t].pc =
                  IF Len(dq_buf[t].lines) < LOOPS THEN "requeue" ELSE "done"]
  /\ UNCHANGED <<dq_lock, dq_thr, dq_mod, dq_reads>>

jit_timer_fn(t) == dq_thr[t].file = "jitimer" /\ JitLoop(t)
jit_bh_fn(t) == dq_thr[t].file = "jitasklet" /\ JitLoop(t)

\* The buffer of jiq is complete when it has no room for another line.
jiq_print(f, next) ==
  /\ dq_obj[f].pc = "record"
  /\ jit_record("jiq", f)
  /\ dq_obj' = [dq_obj EXCEPT ![f].pc =
                  IF Len(dq_buf["jiq"].lines) + 1 >= LINES THEN "done" ELSE next]
  /\ UNCHANGED <<dq_lock, dq_thr, dq_mod, dq_reads>>

jiq_print_wq == jiq_print("jiqwq", "requeue")
jiq_print_wq_delayed == jiq_print("jiqwqdelay", "requeue")
jiq_timedout == jiq_print("jiqtimer", "done")
jiq_print_bh == jiq_print("jiqtasklet", "requeue")

Requeue(o) ==
  /\ dq_obj[o].pc = "requeue"
  /\ dq_obj' = [dq_obj EXCEPT ![o].queued = TRUE, ![o].pc = "idle"]
  /\ UNCHANGED <<dq_lock, dq_buf, dq_thr, dq_mod, dq_reads>>

\* The buffer is published, and then the readers that wait for it woken.
jiq_done(o) ==
  /\ \/ /\ dq_obj[o].pc = "done"
        /\ dq_buf' = [dq_buf EXCEPT ![BufOf(o)].done = TRUE]
        /\ dq_obj' = [dq_obj EXCEPT ![o].pc = "wake"]
        /\ UNCHANGED dq_thr
     \/ /\ dq_obj[o].pc = "wake"
        /\ dq_thr' = [t \in DeferThreads |->
                        IF dq_thr[t].obj # "none" /\ BufOf(dq_thr[t].obj) = BufOf(o)
                        THEN [dq_thr[t] EXCEPT !.woken = TRUE] ELSE dq_thr[t]]
        /\ dq_obj' = [dq_obj EXCEPT ![o].pc = "idle"]
        /\ UNCHANGED dq_buf
  /\ UNCHANGED <<dq_lock, dq_mod, dq_reads>>

-------------------------------------------------------------------------------
(* A read.                                                                 *)

Begin(t, file, o, pc) ==
  /\ DeferAt(t, "idle") /\ dq_reads < MaxReads
  /\ dq_reads' = dq_reads + 1
  /\ dq_thr' = [dq_thr EXCEPT ![t] = [pc |-> pc, file |-> file, obj |-> o,
                                      read |-> dq_reads', woken |-> FALSE, ok |-> FALSE]]
  /\ UNCHANGED <<dq_lock, dq_obj, dq_mod>>

\* Data with its first line; without memory the read fails here.
jit_data_alloc(t) ==
  dq_buf' = [dq_buf EXCEPT ![t] = [live |-> TRUE, lines |-> <<dq_reads'>>, done |-> FALSE]]

jit_timer(t) == Begin(t, "jitimer", t, "queue") /\ jit_data_alloc(t)
jit_bh(t) == Begin(t, "jitasklet", t, "queue") /\ jit_data_alloc(t)

JiqRead(t, f) ==
  /\ f \in Present(dq_mod.files)
  /\ Begin(t, f, f, "lock")
  /\ UNCHANGED dq_buf

jiq_read_wq(t) == JiqRead(t, "jiqwq")
jiq_read_wq_delayed(t) == JiqRead(t, "jiqwqdelay")
jiq_read_run_timer(t) == JiqRead(t, "jiqtimer")
jiq_read_bh(t) == JiqRead(t, "jiqtasklet")

\* A signal may end the wait for the mutex.  jiqtimer prints its first line itself.
jiq_reset(t) ==
  /\ DeferAt(t, "lock")
  /\ \/ /\ dq_lock = "free" /\ dq_lock' = t
        /\ dq_buf' = [dq_buf EXCEPT !["jiq"] =
             [live |-> TRUE, done |-> FALSE,
              lines |-> IF dq_thr[t].obj = "jiqtimer" THEN <<dq_thr[t].read>> ELSE <<>>]]
        /\ DeferGoto(t, "queue")
     \/ /\ dq_lock # "free"
        /\ dq_thr' = [dq_thr EXCEPT ![t] = DeferIdle]
        /\ UNCHANGED <<dq_lock, dq_buf>>
  /\ UNCHANGED <<dq_obj, dq_mod, dq_reads>>

\* Mutant: the condition is tested before the reader is on the wait queue.
TestFirst == [queue |-> "test", test |-> "prepare", prepare |-> "sleep", sleep |-> "test"]

\* The wait loop, written by hand in jiq_read_wq, wait_event_interruptible elsewhere.
WaitOrder == [queue |-> "prepare", prepare |-> "test", test |-> "sleep", sleep |-> "prepare"]

Queue(t) ==
  /\ DeferAt(t, "queue")
  /\ dq_obj' = [dq_obj EXCEPT ![dq_thr[t].obj].queued = TRUE,
                              ![dq_thr[t].obj].read = dq_thr[t].read]
  /\ DeferGoto(t, WaitOrder.queue)
  /\ UNCHANGED <<dq_lock, dq_buf, dq_mod, dq_reads>>

\* jiq_read_wq stops its work before it shows the buffer, the others afterwards.
ShowOrder(t) == IF dq_thr[t].file = "jiqwq"
                THEN [done |-> "stop", stop |-> "show", show |-> "end"]
                ELSE [done |-> "show", show |-> "stop", stop |-> "end"]

DeferWait(t) ==
  /\ \/ /\ DeferAt(t, "prepare")
        /\ dq_thr' = [dq_thr EXCEPT ![t].pc = WaitOrder.prepare, ![t].woken = FALSE]
     \/ /\ DeferAt(t, "test")
        /\ \/ /\ dq_buf[BufOf(dq_thr[t].obj)].done
              /\ dq_thr' = [dq_thr EXCEPT ![t].ok = TRUE, ![t].pc = ShowOrder(t).done]
           \/ /\ ~dq_buf[BufOf(dq_thr[t].obj)].done
              /\ DeferGoto(t, WaitOrder.test) \/ DeferGoto(t, "stop") \* a signal
     \/ /\ DeferAt(t, "sleep") \* woken, or a signal
        /\ DeferGoto(t, WaitOrder.sleep)
  /\ UNCHANGED <<dq_lock, dq_obj, dq_buf, dq_mod, dq_reads>>

Show(t) ==
  /\ DeferAt(t, "show")
  /\ DeferGoto(t, ShowOrder(t).show)
  /\ UNCHANGED <<dq_lock, dq_obj, dq_buf, dq_mod, dq_reads>>

\* Mutant: the function is not waited for.
CancelNoWait(o) == TRUE

\* cancel_work_sync, cancel_delayed_work_sync, timer_delete_sync, disable_work_sync and
\* timer_shutdown_sync wait for the function; what it queued again is cancelled.
CancelSync(o) == dq_obj[o].pc = "idle"

Stop(t) ==
  /\ DeferAt(t, "stop") /\ CancelSync(dq_thr[t].obj)
  /\ dq_obj' = [dq_obj EXCEPT ![dq_thr[t].obj].queued = FALSE]
  /\ DeferGoto(t, IF dq_thr[t].ok THEN ShowOrder(t).stop ELSE "end")
  /\ UNCHANGED <<dq_lock, dq_buf, dq_mod, dq_reads>>

jit_data_free(t) == dq_buf' = [dq_buf EXCEPT ![t] = NoBuf]

End(t) ==
  /\ DeferAt(t, "end")
  /\ dq_thr' = [dq_thr EXCEPT ![t] = DeferIdle]
  /\ \/ dq_thr[t].obj = t /\ jit_data_free(t) /\ UNCHANGED dq_lock
     \/ dq_thr[t].obj # t /\ dq_lock' = "free" /\ UNCHANGED dq_buf
  /\ UNCHANGED <<dq_obj, dq_mod, dq_reads>>

-------------------------------------------------------------------------------
(* The module jiq.                                                         *)

\* The files appear one after the other; when one fails the others are removed.
jiq_m_init ==
  /\ \/ /\ dq_mod.phase = "none"
        /\ dq_mod' = [phase |-> "init", files |-> 0]
        /\ dq_buf' = [dq_buf EXCEPT !["jiq"].live = TRUE]
     \/ /\ dq_mod.phase = "init"
        /\ dq_mod' \in {[dq_mod EXCEPT !.phase = "undo"],
                        [phase |-> IF dq_mod.files = Len(jiq_files) - 1 THEN "up" ELSE "init",
                         files |-> dq_mod.files + 1]}
        /\ UNCHANGED dq_buf
  /\ UNCHANGED <<dq_lock, dq_obj, dq_thr, dq_reads>>

\* remove_proc_entry waits for the reads in progress.
remove_files ==
  /\ dq_mod.phase \in {"up", "exit", "undo"} /\ dq_mod.files > 0
  /\ \A t \in DeferThreads : dq_thr[t].file # jiq_files[dq_mod.files]
  /\ dq_mod' = [phase |-> IF dq_mod.phase = "up" THEN "exit" ELSE dq_mod.phase,
                files |-> dq_mod.files - 1]
  /\ UNCHANGED <<dq_lock, dq_obj, dq_buf, dq_thr, dq_reads>>

\* m_exit cancels everything again, the error path of m_init does not.
jiq_m_exit ==
  /\ dq_mod.phase \in {"exit", "undo"} /\ dq_mod.files = 0
  /\ dq_mod' = [dq_mod EXCEPT !.phase = "gone"]
  /\ \/ dq_mod.phase = "undo" /\ UNCHANGED dq_obj
     \/ /\ dq_mod.phase = "exit"
        /\ \A f \in Present(Len(jiq_files)) : CancelSync(f)
        /\ dq_obj' = [o \in Objects |-> IF o \in Present(Len(jiq_files))
                                        THEN [dq_obj[o] EXCEPT !.queued = FALSE] ELSE dq_obj[o]]
  /\ dq_buf' = [dq_buf EXCEPT !["jiq"] = NoBuf]
  /\ UNCHANGED <<dq_lock, dq_thr, dq_reads>>

DeferFinished ==
  /\ dq_mod.phase = "gone" /\ \A t \in DeferThreads : DeferAt(t, "idle")
  /\ UNCHANGED dqVars

DeferNext ==
  \/ \E o \in Objects : DeferRun(o) \/ Requeue(o) \/ jiq_done(o)
  \/ jiq_print_wq \/ jiq_print_wq_delayed \/ jiq_timedout \/ jiq_print_bh
  \/ \E t \in DeferThreads :
       \/ jit_timer(t) \/ jit_bh(t) \/ jit_timer_fn(t) \/ jit_bh_fn(t)
       \/ jiq_read_wq(t) \/ jiq_read_wq_delayed(t) \/ jiq_read_run_timer(t) \/ jiq_read_bh(t)
       \/ jiq_reset(t) \/ Queue(t) \/ DeferWait(t) \/ Show(t) \/ Stop(t) \/ End(t)
  \/ jiq_m_init \/ remove_files \/ jiq_m_exit \/ DeferFinished

DeferSpec == DeferInit /\ [][DeferNext]_dqVars

-------------------------------------------------------------------------------
\* A reader asleep on a buffer that is complete has been or is being woken: it does
\* not take a signal to end the read.
SleeperWoken ==
  \A t \in DeferThreads :
    DeferAt(t, "sleep") /\ ~dq_thr[t].woken /\ dq_buf[BufOf(dq_thr[t].obj)].done =>
      \E o \in Objects : BufOf(o) = BufOf(dq_thr[t].obj) /\ dq_obj[o].pc = "wake"

\* A timer or work item that is queued or running belongs to a read in progress, whose
\* buffer is still there; and what a read shows is the whole of its own output, even
\* when the read before it was ended by a signal.
OutputOwned ==
  /\ \A o \in Objects :
       dq_obj[o].queued \/ dq_obj[o].pc # "idle" =>
         /\ dq_buf[BufOf(o)].live
         /\ \E t \in DeferThreads : dq_thr[t].obj = o /\ dq_thr[t].read = dq_obj[o].read
  /\ \A t \in DeferThreads : DeferAt(t, "show") =>
       LET n == CASE dq_thr[t].obj = t -> LOOPS + 1
                  [] dq_thr[t].file = "jiqtimer" -> 2
                  [] OTHER -> LINES
       IN  dq_buf[BufOf(dq_thr[t].obj)].lines = [i \in 1..n |-> dq_thr[t].read]
===============================================================================
