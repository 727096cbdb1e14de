--------------------------------- MODULE Poll ---------------------------------
(***************************************************************************)
(* examples/10_poll: a timer makes the device readable, and every other    *)
(* time writable; a read or a write takes the flag, sleeping until it is   *)
(* set, and then accesses the message under the mutex; poll only looks.    *)
(* The message itself is left out.                                         *)
(***************************************************************************)
EXTENDS Integers, FiniteSets

CONSTANTS
  PollThreads,
  MaxTicks,   \* bound: how often the timer expires
  MaxPolls    \* bound: calls

ASSUME PollAssumption == MaxTicks \in Nat /\ MaxPolls \in Nat

VARIABLES
  pl_mod,   \* "none", "init" before the timer is started, "up", "exit", "gone"
  pl_live,  \* poll_dev is allocated
  pl_flag,  \* can_rd and can_wr
  pl_timer, \* armed, where timer_fn is, and timer_counter
  pl_lock,  \* the mutex: "free" or its owner
  pl_thr,   \* per thread: pc, call, O_NONBLOCK, woken
  pl_sets, pl_takes, \* history: how often each flag was set and taken
  pl_polls

pollVars == <<pl_mod, pl_live, pl_flag, pl_timer, pl_lock, pl_thr, pl_sets, pl_takes, pl_polls>>

Flags == {"rd", "wr"}
PollIdle == [pc |-> "idle", call |-> "none", nb |-> FALSE, woken |-> FALSE]

PollInit ==
  /\ pl_mod = "none" /\ pl_live = FALSE
  /\ pl_flag = [f \in Flags |-> FALSE]
  /\ pl_timer = [armed |-> FALSE, pc |-> "idle", counter |-> 0]
  /\ pl_lock = "free" /\ pl_thr = [t \in PollThreads |-> PollIdle]
  /\ pl_sets = [f \in Flags |-> 0] /\ pl_takes = [f \in Flags |-> 0] /\ pl_polls = 0

\* Files appear before the timer is started; a failure leaves nothing.
poll_m_init ==
  /\ \/ /\ pl_mod = "none" /\ pl_mod' \in {"init", "gone"}
        /\ pl_live' = (pl_mod' = "init")
        /\ UNCHANGED pl_timer
     \/ /\ pl_mod = "init" /\ pl_mod' = "up"
        /\ pl_timer' = [pl_timer EXCEPT !.armed = TRUE]
        /\ UNCHANGED pl_live
  /\ UNCHANGED <<pl_flag, pl_lock, pl_thr, pl_sets, pl_takes, pl_polls>>

\* timer_shutdown_sync waits for timer_fn and keeps it from re-arming the timer.
poll_m_exit ==
  /\ \/ /\ pl_mod = "up" /\ \A t \in PollThreads : pl_thr[t].pc = "idle"
        /\ pl_mod' = "exit"
        /\ UNCHANGED <<pl_timer, pl_live>>
     \/ /\ pl_mod = "exit" /\ pl_timer.pc = "idle"
        /\ pl_timer' = [pl_timer EXCEPT !.armed = FALSE]
        /\ pl_live' = FALSE /\ pl_mod' = "gone"
  /\ UNCHANGED <<pl_flag, pl_lock, pl_thr, pl_sets, pl_takes, pl_polls>>

-------------------------------------------------------------------------------
(* The timer.                                                              *)

\* Mutant: the sleepers are woken before the flag is set.
WakeFirst(odd) ==
  [idle |-> "wake_rd", wake_rd |-> "set_rd", set_rd |-> IF odd THEN "wake_wr" ELSE "rearm",
   wake_wr |-> "set_wr", set_wr |-> "rearm"]

\* The order of timer_fn; the writers' part when timer_counter is odd.
TimerOrder(odd) ==
  [idle |-> "set_rd", set_rd |-> "wake_rd", wake_rd |-> IF odd THEN "set_wr" ELSE "rearm",
   set_wr |-> "wake_wr", wake_wr |-> "rearm"]

\* atomic_set.
SetFlag(f) ==
  /\ pl_flag' = [pl_flag EXCEPT ![f] = TRUE]
  /\ pl_sets' = [pl_sets EXCEPT ![f] = @ + 1]
  /\ UNCHANGED pl_thr

\* wake_up_interruptible: a poll is on both wait queues.
WakeQueue(f) ==
  /\ pl_thr' = [t \in PollThreads |-> IF pl_thr[t].call \in {f, "poll"}
                                      THEN [pl_thr[t] EXCEPT !.woken = TRUE] ELSE pl_thr[t]]
  /\ UNCHANGED <<pl_flag, pl_sets>>

timer_fn ==
  LET next == TimerOrder(pl_timer.counter % 2 = 1) IN
  /\ \/ /\ pl_timer.armed /\ pl_timer.pc = "idle" /\ pl_timer.counter < MaxTicks
        /\ pl_timer' = [armed |-> FALSE, pc |-> next.idle, counter |-> pl_timer.counter + 1]
        /\ UNCHANGED <<pl_flag, pl_sets, pl_thr>>
     \/ /\ pl_timer.pc \in {"set_rd", "wake_rd", "set_wr", "wake_wr"}
        /\ CASE pl_timer.pc = "set_rd" -> SetFlag("rd")
             [] pl_timer.pc = "set_wr" -> SetFlag("wr")
             [] pl_timer.pc = "wake_rd" -> WakeQueue("rd")
             [] pl_timer.pc = "wake_wr" -> WakeQueue("wr")
        /\ pl_timer' = [pl_timer EXCEPT !.pc = next[pl_timer.pc]]
     \/ /\ pl_timer.pc = "rearm"
        /\ pl_timer' = [pl_timer EXCEPT !.pc = "idle", !.armed = TRUE]
        /\ UNCHANGED <<pl_flag, pl_sets, pl_thr>>
  /\ UNCHANGED <<pl_mod, pl_live, pl_lock, pl_takes, pl_polls>>

-------------------------------------------------------------------------------
(* Calls.                                                                  *)

PollAt(t, pc) == pl_thr[t].pc = pc
PollGoto(t, pc) == pl_thr' = [pl_thr EXCEPT ![t].pc = pc]
PollReturn(t) == pl_thr' = [pl_thr EXCEPT ![t] = PollIdle]

StartCall(t) ==
  /\ pl_mod \in {"init", "up"} /\ PollAt(t, "idle") /\ pl_polls < MaxPolls
  /\ \E call \in Flags \cup {"poll"}, nb \in BOOLEAN :
       pl_thr' = [pl_thr EXCEPT ![t] = [pc |-> IF call = "poll" THEN "look" ELSE "take",
                                        call |-> call, nb |-> nb, woken |-> FALSE]]
  /\ pl_polls' = pl_polls + 1
  /\ UNCHANGED <<pl_mod, pl_live, pl_flag, pl_timer, pl_lock, pl_sets, pl_takes>>

\* atomic_xchg; when the flag is not set, wait_event_interruptible, or EAGAIN.
take_flag(t) ==
  LET f == pl_thr[t].call IN
  /\ \/ /\ PollAt(t, "take") /\ pl_flag[f]
        /\ pl_flag' = [pl_flag EXCEPT ![f] = FALSE]
        /\ pl_takes' = [pl_takes EXCEPT ![f] = @ + 1]
        /\ PollGoto(t, "lock")
     \/ /\ PollAt(t, "take") /\ ~pl_flag[f]
        /\ IF pl_thr[t].nb THEN PollReturn(t) ELSE PollGoto(t, "prepare")
        /\ UNCHANGED <<pl_flag, pl_takes>>
     \/ /\ PollAt(t, "prepare")
        /\ pl_thr' = [pl_thr EXCEPT ![t].pc = "test", ![t].woken = FALSE]
        /\ UNCHANGED <<pl_flag, pl_takes>>
     \/ /\ PollAt(t, "test")
        /\ IF pl_flag[f] THEN PollGoto(t, "take") ELSE PollGoto(t, "sleep") \/ PollReturn(t)
        /\ UNCHANGED <<pl_flag, pl_takes>>
     \/ /\ PollAt(t, "sleep") /\ PollGoto(t, "prepare") \* woken, or a signal
        /\ UNCHANGED <<pl_flag, pl_takes>>
  /\ UNCHANGED <<pl_mod, pl_live, pl_timer, pl_lock, pl_sets, pl_polls>>

\* The mutex, or a signal while it is held: the flag taken is lost then.
PollLock(t) ==
  /\ PollAt(t, "lock")
  /\ \/ pl_lock = "free" /\ pl_lock' = t /\ PollGoto(t, "copy")
     \/ pl_lock # "free" /\ PollReturn(t) /\ UNCHANGED pl_lock
  /\ UNCHANGED <<pl_mod, pl_live, pl_flag, pl_timer, pl_sets, pl_takes, pl_polls>>

\* The copy, successful or not, and the unlock.
PollCopy(t) ==
  /\ PollAt(t, "copy") /\ pl_lock' = "free" /\ PollReturn(t)
  /\ UNCHANGED <<pl_mod, pl_live, pl_flag, pl_timer, pl_sets, pl_takes, pl_polls>>

poll_read(t) == pl_thr[t].call = "rd" /\ (take_flag(t) \/ PollLock(t) \/ PollCopy(t))
poll_write(t) == pl_thr[t].call = "wr" /\ (take_flag(t) \/ PollLock(t) \/ PollCopy(t))

\* Called again when the sleep of poll(2) ends, until something is ready.
poll_poll(t) ==
  /\ \/ /\ PollAt(t, "look")
        /\ IF \E f \in Flags : pl_flag[f] THEN PollReturn(t)
           ELSE PollGoto(t, "poll_sleep") \/ PollReturn(t)
     \/ /\ PollAt(t, "poll_sleep") /\ pl_thr[t].woken
        /\ pl_thr' = [pl_thr EXCEPT ![t].pc = "look", ![t].woken = FALSE]
     \/ PollAt(t, "poll_sleep") /\ PollReturn(t) \* a signal or the timeout
  /\ UNCHANGED <<pl_mod, pl_live, pl_flag, pl_timer, pl_lock, pl_sets, pl_takes, pl_polls>>

PollFinished == pl_mod = "gone" /\ UNCHANGED pollVars

PollNext ==
  \/ poll_m_init \/ poll_m_exit \/ timer_fn \/ PollFinished
  \/ \E t \in PollThreads : StartCall(t) \/ poll_read(t) \/ poll_write(t) \/ poll_poll(t)

PollSpec == PollInit /\ [][PollNext]_pollVars

-------------------------------------------------------------------------------
\* Whoever sleeps although a flag it waits for is set has been or is being woken by
\* timer_fn; every time a flag is set one call at most gets past it; and the timer
\* is armed or running only while the device structure is there.
FlagServed ==
  /\ \A t \in PollThreads, f \in Flags :
       /\ pl_thr[t].pc \in {"sleep", "poll_sleep"} /\ pl_thr[t].call \in {f, "poll"}
       /\ pl_flag[f] /\ ~pl_thr[t].woken
       => pl_timer.pc = IF f = "rd" THEN "wake_rd" ELSE "wake_wr"
  /\ \A f \in Flags : pl_takes[f] + (IF pl_flag[f] THEN 1 ELSE 0) <= pl_sets[f]
  /\ pl_timer.armed \/ pl_timer.pc # "idle" => pl_live
===============================================================================
