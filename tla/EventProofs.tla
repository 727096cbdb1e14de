---------------------------- MODULE EventProofs -----------------------------
(***************************************************************************)
(* Proofs about the drivers that finish their work in another context: the *)
(* timers and work items of 13_jit and 14_jiq (module Deferred), and the   *)
(* interrupt handlers of 26_msi_interrupt (module MsiInterrupt).           *)
(***************************************************************************)
EXTENDS Deferred, MsiInterrupt, TLAPS

(***************************************************************************)
(* 13_jit and 14_jiq.  A timer or work item that is active belongs to one  *)
(* read, the one that may use its buffer: a read of jit by the buffer, one *)
(* of jiq by the mutex.  How many lines the buffer has follows from where  *)
(* the read and its function are.                                          *)
(***************************************************************************)
Jiq == {"jiqwq", "jiqwqdelay", "jiqtimer", "jiqtasklet"}

DeferCall ==
  [pc : {"idle", "lock", "queue", "prepare", "test", "sleep", "show", "stop", "end"},
   file : Jiq \cup {"jitimer", "jitasklet", "none"}, obj : Objects \cup {"none"},
   read : Nat, woken : BOOLEAN, ok : BOOLEAN]
DeferObject == [queued : BOOLEAN, pc : {"idle", "record", "requeue", "done", "wake"}, read : Nat]
DeferBuffer == [live : BOOLEAN, lines : Seq(Nat), done : BOOLEAN]

DeferType ==
  /\ dq_obj \in [Objects -> DeferObject]
  /\ dq_buf \in [DeferThreads \cup {"jiq"} -> DeferBuffer]
  /\ dq_thr \in [DeferThreads -> DeferCall]
  /\ dq_mod \in [phase : {"none", "init", "undo", "up", "exit", "gone"}, files : 0..4]
  /\ dq_reads \in Nat

DeferModule ==
  /\ dq_mod.phase \in {"none", "gone"} => dq_mod.files = 0
  /\ dq_mod.phase = "init" => dq_mod.files < 4

\* The object of a call: its own for jit, that of a file that is there for jiq.
CallFits(t, c, files) ==
  /\ c.pc = "idle" => c.obj = "none" /\ c.file = "none"
  /\ c.pc = "lock" => ~c.ok
  /\ c.pc # "idle" => \/ c.obj = t /\ c.file \in {"jitimer", "jitasklet"} /\ c.pc # "lock"
                      \/ c.obj = c.file /\ c.obj \in Present(files)

Busy(c) == c.pc \notin {"idle", "lock"}
Asked(c) == c.pc \in {"prepare", "test", "sleep", "show", "stop"}
Active(o) == o.queued \/ o.pc # "idle"

DeferPlaces ==
  \A t \in DeferThreads :
    /\ CallFits(t, dq_thr[t], dq_mod.files)
    /\ Busy(dq_thr[t]) /\ dq_thr[t].obj # t => dq_lock = t

DeferOwned ==
  \A o \in Objects :
    /\ Active(dq_obj[o]) =>
         \E t \in DeferThreads :
           Asked(dq_thr[t]) /\ dq_thr[t].obj = o /\ dq_thr[t].read = dq_obj[o].read
    /\ dq_obj[o].queued => dq_obj[o].pc = "idle"

\* The lines of a complete buffer.
Whole(t, c) == CASE c.obj = t -> LOOPS + 1
                 [] c.file = "jiqtimer" -> 2
                 [] OTHER -> LINES

\* What holds of a call c of thread t that has its buffer b, and of its object o.
ReadFits(t, c, o, b) ==
  /\ b.live
  /\ \A i \in 1..Len(b.lines) : b.lines[i] = c.read
  /\ c.file = "jiqtimer" => Len(b.lines) >= 1
  /\ c.pc = "queue" \/ o.queued \/ o.pc \in {"record", "requeue"} =>
       Len(b.lines) < Whole(t, c) /\ ~b.done
  /\ o.pc \in {"done", "wake"} \/ b.done => Len(b.lines) = Whole(t, c)
  /\ c.pc = "show" => c.ok
  /\ c.pc = "show" /\ c.file = "jiqwq" => ~Active(o)
  /\ c.ok => b.done

DeferReads ==
  \A t \in DeferThreads :
    Busy(dq_thr[t]) =>
      ReadFits(t, dq_thr[t], dq_obj[dq_thr[t].obj], dq_buf[BufOf(dq_thr[t].obj)])

DeferInv ==
  DeferType /\ DeferModule /\ DeferPlaces /\ DeferOwned /\ DeferReads /\ SleeperWoken

\* The names of the files.
LEMMA JiqNames ==
  /\ Len(jiq_files) = 4 /\ Present(4) = Jiq /\ Objects = Jiq \cup DeferThreads
  /\ Present(0) = {}
  /\ \A n \in 0..4 : Present(n) \subseteq Jiq
  /\ \A n \in 0..3 : Present(n) \subseteq Present(n + 1)
  /\ \A n \in 1..4 : Present(n) \subseteq Present(n - 1) \cup {jiq_files[n]}
  /\ \A t \in DeferThreads : t \notin Jiq \cup {"free", "none", "jiq"}
<1>1. /\ DOMAIN jiq_files = 1..4 /\ jiq_files[1] = "jiqwq" /\ jiq_files[2] = "jiqwqdelay"
      /\ jiq_files[3] = "jiqtimer" /\ jiq_files[4] = "jiqtasklet"
  BY DEF jiq_files
<1>2. 1..4 = {1, 2, 3, 4}
  OBVIOUS
<1>3. Len(jiq_files) = 4 /\ Present(4) = Jiq
  BY <1>1, <1>2, Zenon DEF jiq_files, Present, Jiq
<1>4. \A i \in 1..4 : jiq_files[i] \in Jiq
  BY <1>1, <1>2, Zenon DEF Jiq
<1>5. \A n \in 0..4 : Present(n) \subseteq Jiq
  BY <1>4 DEF Present
<1>6. \A n \in 0..3 : Present(n) \subseteq Present(n + 1)
  BY DEF Present
<1>7. \A n \in 1..4 : Present(n) \subseteq Present(n - 1) \cup {jiq_files[n]}
  BY DEF Present
<1>8. Present(0) = {}
  BY DEF Present
<1> QED
  BY <1>3, <1>5, <1>6, <1>7, <1>8, DeferNames, Zenon DEF Objects

\* A call and its parts.
LEMMA DeferParts ==
  ASSUME DeferInv, NEW t \in DeferThreads
  PROVE  /\ dq_thr[t] \in DeferCall /\ CallFits(t, dq_thr[t], dq_mod.files)
         /\ dq_thr[t].pc # "idle" =>
              /\ dq_thr[t].obj \in Objects /\ dq_obj[dq_thr[t].obj] \in DeferObject
              /\ \/ dq_thr[t].obj = t /\ BufOf(dq_thr[t].obj) = t
                 \/ dq_thr[t].obj \in Jiq /\ BufOf(dq_thr[t].obj) = "jiq" /\ dq_thr[t].obj # t
              /\ BufOf(dq_thr[t].obj) \in DeferThreads \cup {"jiq"}
              /\ dq_buf[BufOf(dq_thr[t].obj)] \in DeferBuffer
<1>1. dq_thr[t] \in DeferCall /\ CallFits(t, dq_thr[t], dq_mod.files)
  BY Zenon DEF DeferInv, DeferType, DeferPlaces
<1>2. dq_mod.files \in 0..4
  BY Zenon DEF DeferInv, DeferType
<1>3. ASSUME dq_thr[t].pc # "idle"
      PROVE  /\ dq_thr[t].obj \in Objects
             /\ \/ dq_thr[t].obj = t /\ BufOf(dq_thr[t].obj) = t
                \/ dq_thr[t].obj \in Jiq /\ BufOf(dq_thr[t].obj) = "jiq" /\ dq_thr[t].obj # t
  BY <1>1, <1>2, <1>3, JiqNames DEF CallFits, BufOf
<1> QED
  BY <1>1, <1>3, Zenon DEF DeferInv, DeferType

\* An active object works for the one call that has its buffer.
LEMMA Serves ==
  ASSUME DeferInv, NEW t \in DeferThreads, NEW o \in Objects,
         Busy(dq_thr[t]), Active(dq_obj[o]), BufOf(o) = BufOf(dq_thr[t].obj)
  PROVE  dq_thr[t].obj = o /\ Asked(dq_thr[t]) /\ dq_thr[t].read = dq_obj[o].read
<1>1. PICK u \in DeferThreads :
        Asked(dq_thr[u]) /\ dq_thr[u].obj = o /\ dq_thr[u].read = dq_obj[o].read
  BY Zenon DEF DeferInv, DeferOwned
<1>2. /\ dq_thr[t].pc # "idle" /\ dq_thr[u].pc # "idle" /\ Busy(dq_thr[u])
  BY <1>1, Zenon DEF Busy, Asked
<1>3. /\ dq_thr[t].obj # t => dq_lock = t
      /\ dq_thr[u].obj # u => dq_lock = u
  BY <1>2, Zenon DEF DeferInv, DeferPlaces
<1>4. t = u
  BY <1>1, <1>2, <1>3, DeferParts, JiqNames, Zenon DEF BufOf
<1> QED
  BY <1>1, <1>4, Zenon

\* A step of object o that keeps what holds of the call it works for keeps what is
\* known of all calls.
LEMMA ObjectStep ==
  ASSUME DeferInv, NEW o \in Objects, Active(dq_obj[o]),
         NEW p \in DeferObject, p.read = dq_obj[o].read, p.queued => p.pc = "idle",
         NEW b \in DeferBuffer,
         dq_obj' = [dq_obj EXCEPT ![o] = p],
         dq_buf' = [dq_buf EXCEPT ![BufOf(o)] = b],
         dq_thr' \in [DeferThreads -> DeferCall],
         \A t \in DeferThreads :
           /\ dq_thr'[t].pc = dq_thr[t].pc /\ dq_thr'[t].file = dq_thr[t].file
           /\ dq_thr'[t].obj = dq_thr[t].obj /\ dq_thr'[t].read = dq_thr[t].read
           /\ dq_thr'[t].ok = dq_thr[t].ok,
         UNCHANGED <<dq_lock, dq_mod, dq_reads>>,
         \A t \in DeferThreads :
           Asked(dq_thr[t]) /\ dq_thr[t].obj = o /\ dq_thr[t].read = dq_obj[o].read =>
             ReadFits(t, dq_thr[t], p, b)
  PROVE  DeferType' /\ DeferModule' /\ DeferPlaces' /\ DeferOwned' /\ DeferReads'
<1>1. DeferType' /\ DeferModule'
  BY Zenon DEF DeferInv, DeferType, DeferModule
<1>2. DeferPlaces'
  BY DEF DeferInv, DeferPlaces, CallFits, Busy
<1>3. \A q \in Objects : dq_obj'[q] = IF q = o THEN p ELSE dq_obj[q]
  BY Zenon DEF DeferInv, DeferType
<1>4. DeferOwned'
  <2>1. SUFFICES ASSUME NEW q \in Objects
                 PROVE  /\ Active(dq_obj'[q]) =>
                             \E t \in DeferThreads :
                               /\ Asked(dq_thr'[t]) /\ dq_thr'[t].obj = q
                               /\ dq_thr'[t].read = dq_obj'[q].read
                        /\ dq_obj'[q].queued => dq_obj'[q].pc = "idle"
    BY Zenon DEF DeferOwned
  <2>2. Active(dq_obj'[q]) => Active(dq_obj[q]) /\ dq_obj'[q].read = dq_obj[q].read
    BY <1>3, Zenon
  <2>3. dq_obj'[q].queued => dq_obj'[q].pc = "idle"
    BY <1>3 DEF DeferInv, DeferOwned
  <2>4. ASSUME Active(dq_obj'[q])
        PROVE  \E t \in DeferThreads :
                 /\ Asked(dq_thr'[t]) /\ dq_thr'[t].obj = q
                 /\ dq_thr'[t].read = dq_obj'[q].read
    <3>1. PICK t \in DeferThreads :
            Asked(dq_thr[t]) /\ dq_thr[t].obj = q /\ dq_thr[t].read = dq_obj[q].read
      BY <2>2, <2>4, Zenon DEF DeferInv, DeferOwned
    <3> QED
      BY <2>2, <2>4, <3>1, ZenonT(40) DEF Asked
  <2> QED
    BY <2>3, <2>4, Zenon
<1>5. DeferReads'
  <2>1. SUFFICES ASSUME NEW t \in DeferThreads, Busy(dq_thr[t])
                 PROVE  ReadFits(t, dq_thr[t], dq_obj'[dq_thr[t].obj],
                                 dq_buf'[BufOf(dq_thr[t].obj)])
    BY DEF DeferReads, ReadFits, Whole, Busy
  <2>2. dq_thr[t].pc # "idle"
    BY <2>1, Zenon DEF Busy
  <2>3. CASE BufOf(dq_thr[t].obj) = BufOf(o)
    <3>1. dq_thr[t].obj = o /\ Asked(dq_thr[t]) /\ dq_thr[t].read = dq_obj[o].read
      BY <2>1, <2>3, Serves, Zenon
    <3>2. dq_buf'[BufOf(o)] = b
      BY <2>2, <2>3, DeferParts, Zenon DEF DeferInv, DeferType
    <3> QED
      BY <1>3, <2>3, <3>1, <3>2
  <2>4. CASE BufOf(dq_thr[t].obj) # BufOf(o)
    <3>1. /\ dq_obj'[dq_thr[t].obj] = dq_obj[dq_thr[t].obj]
          /\ dq_buf'[BufOf(dq_thr[t].obj)] = dq_buf[BufOf(dq_thr[t].obj)]
      BY <1>3, <2>2, <2>4, DeferParts DEF DeferInv, DeferType
    <3> QED
      BY <2>1, <3>1, Zenon DEF DeferInv, DeferReads
  <2> QED
    BY <2>3, <2>4, Zenon
<1> QED
  BY <1>1, <1>2, <1>4, <1>5, Zenon

\* One more line of the same read.
LEMMA Longer ==
  ASSUME NEW s \in Seq(Nat), NEW x \in Nat, \A i \in 1..Len(s) : s[i] = x
  PROVE  /\ Append(s, x) \in Seq(Nat) /\ Len(Append(s, x)) = Len(s) + 1
         /\ \A i \in 1..(Len(s) + 1) : Append(s, x)[i] = x
<1>1. /\ Append(s, x) \in Seq(Nat) /\ Len(Append(s, x)) = Len(s) + 1
      /\ \A i \in 1..Len(s) : Append(s, x)[i] = s[i]
      /\ Append(s, x)[Len(s) + 1] = x
  OBVIOUS
<1>2. \A i \in 1..(Len(s) + 1) : i \in 1..Len(s) \/ i = Len(s) + 1
  OBVIOUS
<1> QED
  BY <1>1, <1>2, Zenon

\* Sleepers are not forgotten while nothing is published or woken.
LEMMA SleepersKept ==
  ASSUME DeferInv, dq_thr' = dq_thr,
         \A c \in DeferThreads \cup {"jiq"} : dq_buf'[c].done => dq_buf[c].done,
         \A o \in Objects : dq_obj[o].pc = "wake" => dq_obj'[o].pc = "wake"
  PROVE  SleeperWoken'
<1>1. SUFFICES ASSUME NEW t \in DeferThreads, dq_thr[t].pc = "sleep", ~dq_thr[t].woken,
                      dq_buf'[BufOf(dq_thr[t].obj)].done
               PROVE  \E o \in Objects :
                        BufOf(o) = BufOf(dq_thr[t].obj) /\ dq_obj'[o].pc = "wake"
  BY Zenon DEF SleeperWoken, DeferAt
<1>2. dq_buf[BufOf(dq_thr[t].obj)].done
  BY <1>1, DeferParts, Zenon
<1> QED
  BY <1>1, <1>2, Zenon DEF DeferInv, SleeperWoken, DeferAt

\* The object and the buffer of the call it works for.
LEMMA OwnerFits ==
  ASSUME DeferInv, NEW o \in Objects, Active(dq_obj[o])
  PROVE  /\ dq_obj[o] \in DeferObject
         /\ BufOf(o) \in DeferThreads \cup {"jiq"} /\ dq_buf[BufOf(o)] \in DeferBuffer
         /\ \A t \in DeferThreads : Asked(dq_thr[t]) /\ dq_thr[t].obj = o =>
              /\ ReadFits(t, dq_thr[t], dq_obj[o], dq_buf[BufOf(o)])
              /\ dq_thr[t].read = dq_obj[o].read
<1>1. BufOf(o) \in DeferThreads \cup {"jiq"}
  BY Zenon DEF BufOf
<1>2. dq_obj[o] \in DeferObject /\ dq_buf[BufOf(o)] \in DeferBuffer
  BY <1>1, Zenon DEF DeferInv, DeferType
<1>3. ASSUME NEW t \in DeferThreads, Asked(dq_thr[t]), dq_thr[t].obj = o
      PROVE  /\ ReadFits(t, dq_thr[t], dq_obj[o], dq_buf[BufOf(o)])
             /\ dq_thr[t].read = dq_obj[o].read
  <2>1. Busy(dq_thr[t])
    BY <1>3, Zenon DEF Busy, Asked
  <2>2. dq_thr[t].read = dq_obj[o].read
    BY <1>3, <2>1, Serves, Zenon
  <2> QED
    BY <1>3, <2>1, <2>2, Zenon DEF DeferInv, DeferReads
<1> QED
  BY <1>1, <1>2, <1>3, Zenon

\* The steps that only move an object keep the invariant.
LEMMA DeferMoves ==
  ASSUME DeferInv, NEW o \in Objects, DeferRun(o) \/ Requeue(o)
  PROVE  DeferInv'
<1>1. Active(dq_obj[o]) /\ dq_obj[o].pc # "wake"
  BY Zenon DEF DeferRun, Requeue, Active
<1>2. /\ dq_obj[o] \in DeferObject
      /\ BufOf(o) \in DeferThreads \cup {"jiq"} /\ dq_buf[BufOf(o)] \in DeferBuffer
  BY <1>1, OwnerFits, Zenon
<1>3. UNCHANGED <<dq_lock, dq_buf, dq_thr, dq_mod, dq_reads>>
  BY Zenon DEF DeferRun, Requeue
<1>4. PICK p \in DeferObject :
        /\ dq_obj' = [dq_obj EXCEPT ![o] = p] /\ p.read = dq_obj[o].read
        /\ p.queued => p.pc = "idle"
        /\ p.queued \/ p.pc = "record"
        /\ p.pc \in {"idle", "record"}
        /\ dq_obj[o].queued \/ dq_obj[o].pc = "requeue"
  <2>1. CASE DeferRun(o)
    <3>1. PICK p \in DeferObject : p = [dq_obj[o] EXCEPT !.queued = FALSE, !.pc = "record"]
      BY <1>2, Zenon DEF DeferObject
    <3>2. ~p.queued /\ p.pc = "record" /\ p.read = dq_obj[o].read
      BY <1>2, <3>1, Zenon DEF DeferObject
    <3>3. dq_obj' = [dq_obj EXCEPT ![o] = p]
      BY <2>1, <3>1, Zenon DEF DeferRun, DeferInv, DeferType
    <3> QED
      BY <2>1, <3>2, <3>3, Zenon DEF DeferRun
  <2>2. CASE Requeue(o)
    <3>1. PICK p \in DeferObject : p = [dq_obj[o] EXCEPT !.queued = TRUE, !.pc = "idle"]
      BY <1>2, Zenon DEF DeferObject
    <3>2. p.queued /\ p.pc = "idle" /\ p.read = dq_obj[o].read
      BY <1>2, <3>1, Zenon DEF DeferObject
    <3>3. dq_obj' = [dq_obj EXCEPT ![o] = p]
      BY <2>2, <3>1, Zenon DEF Requeue, DeferInv, DeferType
    <3> QED
      BY <2>2, <3>2, <3>3, Zenon DEF Requeue
  <2> QED
    BY <2>1, <2>2, Zenon
<1>5. dq_buf' = [dq_buf EXCEPT ![BufOf(o)] = dq_buf[BufOf(o)]]
  BY <1>2, <1>3, Zenon DEF DeferInv, DeferType
<1>6. ASSUME NEW t \in DeferThreads, Asked(dq_thr[t]), dq_thr[t].obj = o
      PROVE  ReadFits(t, dq_thr[t], p, dq_buf[BufOf(o)])
  <2>1. ReadFits(t, dq_thr[t], dq_obj[o], dq_buf[BufOf(o)])
    BY <1>1, <1>6, OwnerFits, Zenon
  <2> QED
    BY <1>1, <1>4, <2>1, Zenon DEF ReadFits, Active
<1>7. DeferType' /\ DeferModule' /\ DeferPlaces' /\ DeferOwned' /\ DeferReads'
  <2>1. dq_thr' \in [DeferThreads -> DeferCall]
    BY <1>3, Zenon DEF DeferInv, DeferType
  <2> QED
    BY <1>1, <1>2, <1>3, <1>4, <1>5, <1>6, <2>1, ObjectStep, ZenonT(40)
<1>8. SleeperWoken'
  BY <1>1, <1>3, <1>4, SleepersKept, Zenon DEF DeferInv, DeferType
<1> QED
  BY <1>7, <1>8, Zenon DEF DeferInv

\* With one more line the buffer of object o is as full as pc says.
Fills(o, pc) ==
  \A t \in DeferThreads : Asked(dq_thr[t]) /\ dq_thr[t].obj = o =>
    /\ pc = "requeue" => Len(dq_buf[BufOf(o)].lines) + 1 < Whole(t, dq_thr[t])
    /\ pc = "done" => Len(dq_buf[BufOf(o)].lines) + 1 = Whole(t, dq_thr[t])

\* A line recorded for object o, which then goes to pc, keeps the invariant.
LEMMA DeferRecord ==
  ASSUME DeferInv, NEW o \in Objects, dq_obj[o].pc = "record",
         NEW pc \in {"requeue", "done"},
         jit_record(BufOf(o), o), dq_obj' = [dq_obj EXCEPT ![o].pc = pc],
         UNCHANGED <<dq_lock, dq_thr, dq_mod, dq_reads>>, Fills(o, pc)
  PROVE  DeferInv'
<1>1. Active(dq_obj[o])
  BY Zenon DEF Active
<1>2. /\ dq_obj[o] \in DeferObject
      /\ BufOf(o) \in DeferThreads \cup {"jiq"} /\ dq_buf[BufOf(o)] \in DeferBuffer
  BY <1>1, OwnerFits, Zenon
<1>3. PICK p \in DeferObject : p = [dq_obj[o] EXCEPT !.pc = pc]
  BY <1>2, Zenon DEF DeferObject
<1>4. /\ p.pc = pc /\ p.read = dq_obj[o].read /\ p.queued = dq_obj[o].queued
      /\ dq_obj' = [dq_obj EXCEPT ![o] = p]
  BY <1>2, <1>3, Zenon DEF DeferInv, DeferType, DeferObject
<1>5. ~dq_obj[o].queued
  BY Zenon DEF DeferInv, DeferOwned
<1>6. /\ dq_buf[BufOf(o)].lines \in Seq(Nat) /\ dq_obj[o].read \in Nat
      /\ Append(dq_buf[BufOf(o)].lines, dq_obj[o].read) \in Seq(Nat)
  BY <1>2 DEF DeferBuffer, DeferObject
<1>7. PICK b \in DeferBuffer :
        b = [dq_buf[BufOf(o)] EXCEPT !.lines = Append(dq_buf[BufOf(o)].lines, dq_obj[o].read)]
  BY <1>2, <1>6, Zenon DEF DeferBuffer
<1>8. /\ b.lines = Append(dq_buf[BufOf(o)].lines, dq_obj[o].read)
      /\ b.live = dq_buf[BufOf(o)].live /\ b.done = dq_buf[BufOf(o)].done
  BY <1>2, <1>7, Zenon DEF DeferBuffer
<1>9. dq_buf' = [dq_buf EXCEPT ![BufOf(o)] = b]
  BY <1>2, <1>7, Zenon DEF jit_record, DeferInv, DeferType
<1>10. ASSUME NEW t \in DeferThreads, Asked(dq_thr[t]), dq_thr[t].obj = o
       PROVE  ReadFits(t, dq_thr[t], p, b)
  <2>1. /\ ReadFits(t, dq_thr[t], dq_obj[o], dq_buf[BufOf(o)])
        /\ dq_thr[t].read = dq_obj[o].read
    BY <1>1, <1>10, OwnerFits, Zenon
  <2>2. \A i \in 1..Len(dq_buf[BufOf(o)].lines) :
          dq_buf[BufOf(o)].lines[i] = dq_obj[o].read
    BY <2>1, Zenon DEF ReadFits
  <2>3. /\ Len(b.lines) = Len(dq_buf[BufOf(o)].lines) + 1
        /\ \A i \in 1..Len(b.lines) : b.lines[i] = dq_thr[t].read
    BY <1>6, <1>8, <2>1, <2>2, Longer
  <2>4. b.live /\ ~b.done /\ ~p.queued /\ p.pc \in {"requeue", "done"}
    BY <1>4, <1>5, <1>8, <2>1, Zenon DEF ReadFits
  <2>5. /\ dq_thr[t].pc # "queue" /\ (dq_thr[t].pc = "show" => dq_thr[t].ok) /\ ~dq_thr[t].ok
    BY <1>8, <1>10, <2>1, <2>4, Zenon DEF ReadFits, Asked
  <2>6. /\ p.pc = "requeue" => Len(b.lines) < Whole(t, dq_thr[t])
        /\ p.pc = "done" => Len(b.lines) = Whole(t, dq_thr[t])
    BY <1>4, <1>10, <2>3 DEF Fills
  <2>7. Len(b.lines) >= 1
    BY <1>6, <2>3
  <2> QED
    BY <2>3, <2>4, <2>5, <2>6, <2>7, Zenon DEF ReadFits
<1>11. DeferType' /\ DeferModule' /\ DeferPlaces' /\ DeferOwned' /\ DeferReads'
  <2>1. dq_thr' \in [DeferThreads -> DeferCall]
    BY Zenon DEF DeferInv, DeferType
  <2> QED
    BY <1>1, <1>4, <1>5, <1>9, <1>10, <2>1, ObjectStep, Zenon
<1>12. SleeperWoken'
  <2>1. \A c \in DeferThreads \cup {"jiq"} : dq_buf'[c].done => dq_buf[c].done
    BY <1>8, <1>9, Zenon DEF DeferInv, DeferType
  <2>2. \A q \in Objects : dq_obj[q].pc = "wake" => dq_obj'[q].pc = "wake"
    BY <1>4, Zenon DEF DeferInv, DeferType
  <2> QED
    BY <2>1, <2>2, SleepersKept, Zenon
<1> QED
  BY <1>11, <1>12, Zenon DEF DeferInv

\* The functions of jit and of jiq keep the invariant.
LEMMA DeferPrints ==
  ASSUME DeferInv,
         \/ \E t \in DeferThreads : jit_timer_fn(t) \/ jit_bh_fn(t)
         \/ jiq_print_wq \/ jiq_print_wq_delayed \/ jiq_timedout \/ jiq_print_bh
  PROVE  DeferInv'
<1>1. ASSUME NEW t \in DeferThreads, JitLoop(t)
      PROVE  DeferInv'
  <2>1. t \in Objects /\ BufOf(t) = t
    BY Zenon DEF Objects, BufOf
  <2>2. PICK pc \in {"requeue", "done"} :
          /\ pc = IF Len(dq_buf[t].lines) < LOOPS THEN "requeue" ELSE "done"
          /\ dq_obj' = [dq_obj EXCEPT ![t].pc = pc]
    BY <1>1, Zenon DEF JitLoop
  <2>3. dq_obj[t].pc = "record" /\ jit_record(BufOf(t), t)
        /\ UNCHANGED <<dq_lock, dq_thr, dq_mod, dq_reads>>
    BY <1>1, <2>1, Zenon DEF JitLoop
  <2>4. ASSUME NEW u \in DeferThreads, Asked(dq_thr[u]), dq_thr[u].obj = t
        PROVE  /\ pc = "requeue" => Len(dq_buf[BufOf(t)].lines) + 1 < Whole(u, dq_thr[u])
               /\ pc = "done" => Len(dq_buf[BufOf(t)].lines) + 1 = Whole(u, dq_thr[u])
    <3>1. u = t
      BY <2>4, DeferParts, JiqNames, Zenon DEF Asked
    <3>2. Whole(u, dq_thr[u]) = LOOPS + 1
      <4>1. dq_thr[u].file \in {"jitimer", "jitasklet"}
        BY <2>4, <3>1, DeferParts, JiqNames, Zenon DEF CallFits, Asked, DeferInv, DeferType
      <4> QED
        BY <2>4, <3>1, <4>1, Zenon DEF Whole
    <3>3. ReadFits(u, dq_thr[u], dq_obj[t], dq_buf[BufOf(t)]) /\ dq_buf[BufOf(t)] \in DeferBuffer
      BY <2>1, <2>3, <2>4, OwnerFits, Zenon DEF Active
    <3>4. Len(dq_buf[t].lines) < LOOPS + 1
      BY <2>1, <2>3, <3>2, <3>3, Zenon DEF ReadFits
    <3>5. Len(dq_buf[t].lines) \in Nat
      BY <2>1, <3>3 DEF DeferBuffer
    <3> QED
      BY <2>1, <2>2, <3>2, <3>4, <3>5, DeferredAssumption
  <2>5. Fills(t, pc)
    BY <2>4, Zenon DEF Fills
  <2> QED
    BY <2>1, <2>2, <2>3, <2>5, DeferRecord, Zenon
<1>2. ASSUME NEW f \in Jiq, NEW next \in {"requeue", "done"}, jiq_print(f, next),
             next = "done" <=> f = "jiqtimer"
      PROVE  DeferInv'
  <2>1. f \in Objects /\ BufOf(f) = "jiq"
    BY JiqNames, Zenon DEF BufOf
  <2>2. PICK pc \in {"requeue", "done"} :
          /\ pc = IF Len(dq_buf["jiq"].lines) + 1 >= LINES THEN "done" ELSE next
          /\ dq_obj' = [dq_obj EXCEPT ![f].pc = pc]
    BY <1>2, Zenon DEF jiq_print
  <2>3. dq_obj[f].pc = "record" /\ jit_record(BufOf(f), f)
        /\ UNCHANGED <<dq_lock, dq_thr, dq_mod, dq_reads>>
    BY <1>2, <2>1, Zenon DEF jiq_print
  <2>4. ASSUME NEW u \in DeferThreads, Asked(dq_thr[u]), dq_thr[u].obj = f
        PROVE  /\ pc = "requeue" => Len(dq_buf[BufOf(f)].lines) + 1 < Whole(u, dq_thr[u])
               /\ pc = "done" => Len(dq_buf[BufOf(f)].lines) + 1 = Whole(u, dq_thr[u])
    <3>1. dq_thr[u].obj # u /\ dq_thr[u].file = f
      BY <2>4, DeferParts, JiqNames DEF Asked, CallFits
    <3>2. Whole(u, dq_thr[u]) = IF f = "jiqtimer" THEN 2 ELSE LINES
      BY <3>1, Zenon DEF Whole
    <3>3. ReadFits(u, dq_thr[u], dq_obj[f], dq_buf[BufOf(f)]) /\ dq_buf[BufOf(f)] \in DeferBuffer
      BY <2>1, <2>3, <2>4, OwnerFits, Zenon DEF Active
    <3>4. /\ Len(dq_buf["jiq"].lines) < Whole(u, dq_thr[u])
          /\ f = "jiqtimer" => Len(dq_buf["jiq"].lines) >= 1
      BY <2>1, <2>3, <3>1, <3>3, Zenon DEF ReadFits
    <3>5. Len(dq_buf["jiq"].lines) \in Nat
      BY <2>1, <3>3 DEF DeferBuffer
    <3> QED
      BY <1>2, <2>1, <2>2, <3>2, <3>4, <3>5, DeferredAssumption
  <2>5. Fills(f, pc)
    BY <2>4, Zenon DEF Fills
  <2>6. f \in Objects /\ dq_obj' = [dq_obj EXCEPT ![f].pc = pc]
    BY <2>1, <2>2, Zenon
  <2> QED
    BY <2>3, <2>5, <2>6, DeferRecord, Zenon
<1> QED
  BY <1>1, <1>2, Zenon DEF jit_timer_fn, jit_bh_fn, jiq_print_wq, jiq_print_wq_delayed,
     jiq_timedout,
                    jiq_print_bh, Jiq

\* Publishing a buffer and waking its readers keep the invariant.
LEMMA DeferDone ==
  ASSUME DeferInv, NEW o \in Objects, jiq_done(o)
  PROVE  DeferInv'
<1>1. Active(dq_obj[o])
  BY Zenon DEF jiq_done, Active
<1>2. /\ dq_obj[o] \in DeferObject
      /\ BufOf(o) \in DeferThreads \cup {"jiq"} /\ dq_buf[BufOf(o)] \in DeferBuffer
  BY <1>1, OwnerFits, Zenon
<1>3. UNCHANGED <<dq_lock, dq_mod, dq_reads>>
  BY Zenon DEF jiq_done
<1>4. ~dq_obj[o].queued
  BY Zenon DEF jiq_done, DeferInv, DeferOwned
<1>5. CASE /\ dq_obj[o].pc = "done"
           /\ dq_buf' = [dq_buf EXCEPT ![BufOf(o)].done = TRUE]
           /\ dq_obj' = [dq_obj EXCEPT ![o].pc = "wake"]
           /\ UNCHANGED dq_thr
  <2>1. PICK p \in DeferObject : p = [dq_obj[o] EXCEPT !.pc = "wake"]
    BY <1>2, Zenon DEF DeferObject
  <2>2. PICK b \in DeferBuffer : b = [dq_buf[BufOf(o)] EXCEPT !.done = TRUE]
    BY <1>2, Zenon DEF DeferBuffer
  <2>3. /\ p.pc = "wake" /\ p.read = dq_obj[o].read /\ ~p.queued
        /\ dq_obj' = [dq_obj EXCEPT ![o] = p]
    BY <1>2, <1>4, <1>5, <2>1, Zenon DEF DeferInv, DeferType, DeferObject
  <2>4. /\ b.done /\ b.lines = dq_buf[BufOf(o)].lines /\ b.live = dq_buf[BufOf(o)].live
        /\ dq_buf' = [dq_buf EXCEPT ![BufOf(o)] = b]
    BY <1>2, <1>5, <2>2, Zenon DEF DeferInv, DeferType, DeferBuffer
  <2>5. ASSUME NEW t \in DeferThreads, Asked(dq_thr[t]), dq_thr[t].obj = o
        PROVE  ReadFits(t, dq_thr[t], p, b)
    <3>1. ReadFits(t, dq_thr[t], dq_obj[o], dq_buf[BufOf(o)])
      BY <1>1, <2>5, OwnerFits, Zenon
    <3>2. dq_thr[t].pc # "queue"
      BY <2>5, Zenon DEF Asked
    <3> QED
      BY <1>5, <2>3, <2>4, <3>1, <3>2 DEF ReadFits, Active
  <2>6. DeferType' /\ DeferModule' /\ DeferPlaces' /\ DeferOwned' /\ DeferReads'
    <3>1. dq_thr' \in [DeferThreads -> DeferCall]
      BY <1>5, Zenon DEF DeferInv, DeferType
    <3> QED
      BY <1>1, <1>3, <1>5, <2>3, <2>4, <2>5, <3>1, ObjectStep, Zenon
  <2>7. SleeperWoken'
    <3>1. SUFFICES ASSUME NEW t \in DeferThreads, dq_thr[t].pc = "sleep", ~dq_thr[t].woken,
                          dq_buf'[BufOf(dq_thr[t].obj)].done
                   PROVE  \E q \in Objects :
                            BufOf(q) = BufOf(dq_thr[t].obj) /\ dq_obj'[q].pc = "wake"
      BY <1>5, Zenon DEF SleeperWoken, DeferAt
    <3>2. CASE BufOf(dq_thr[t].obj) = BufOf(o)
      BY <2>3, <3>2, Zenon DEF DeferInv, DeferType
    <3>3. CASE BufOf(dq_thr[t].obj) # BufOf(o)
      <4>1. dq_buf[BufOf(dq_thr[t].obj)].done
        BY <2>4, <3>1, <3>3, DeferParts, Zenon DEF DeferInv, DeferType
      <4>2. PICK q \in Objects : BufOf(q) = BufOf(dq_thr[t].obj) /\ dq_obj[q].pc = "wake"
        BY <3>1, <4>1, Zenon DEF DeferInv, SleeperWoken, DeferAt
      <4> QED
        BY <2>3, <3>3, <4>2, Zenon DEF DeferInv, DeferType
    <3> QED
      BY <3>2, <3>3, Zenon
  <2> QED
    BY <2>6, <2>7, Zenon DEF DeferInv
<1>6. CASE /\ dq_obj[o].pc = "wake"
           /\ dq_thr' = [t \in DeferThreads |->
                           IF dq_thr[t].obj # "none" /\ BufOf(dq_thr[t].obj) = BufOf(o)
                           THEN [dq_thr[t] EXCEPT !.woken = TRUE] ELSE dq_thr[t]]
           /\ dq_obj' = [dq_obj EXCEPT ![o].pc = "idle"]
           /\ UNCHANGED dq_buf
  <2>1. PICK p \in DeferObject : p = [dq_obj[o] EXCEPT !.pc = "idle"]
    BY <1>2, Zenon DEF DeferObject
  <2>2. /\ p.pc = "idle" /\ p.read = dq_obj[o].read /\ ~p.queued
        /\ dq_obj' = [dq_obj EXCEPT ![o] = p]
    BY <1>2, <1>4, <1>6, <2>1, Zenon DEF DeferInv, DeferType, DeferObject
  <2>3. dq_buf' = [dq_buf EXCEPT ![BufOf(o)] = dq_buf[BufOf(o)]]
    BY <1>2, <1>6, Zenon DEF DeferInv, DeferType
  <2>4. ASSUME NEW t \in DeferThreads
        PROVE  /\ dq_thr'[t] \in DeferCall
               /\ dq_thr'[t].pc = dq_thr[t].pc /\ dq_thr'[t].file = dq_thr[t].file
               /\ dq_thr'[t].obj = dq_thr[t].obj /\ dq_thr'[t].read = dq_thr[t].read
               /\ dq_thr'[t].ok = dq_thr[t].ok
    <3>1. dq_thr[t] \in DeferCall
      BY DeferParts, Zenon
    <3>2. dq_thr'[t] \in {dq_thr[t], [dq_thr[t] EXCEPT !.woken = TRUE]}
      BY <1>6, Zenon
    <3> QED
      BY <3>1, <3>2, Zenon DEF DeferCall
  <2>5. dq_thr' \in [DeferThreads -> DeferCall]
    BY <1>6, <2>4, Zenon
  <2>6. ASSUME NEW t \in DeferThreads, Asked(dq_thr[t]), dq_thr[t].obj = o
        PROVE  ReadFits(t, dq_thr[t], p, dq_buf[BufOf(o)])
    <3>1. ReadFits(t, dq_thr[t], dq_obj[o], dq_buf[BufOf(o)])
      BY <1>1, <2>6, OwnerFits, Zenon
    <3>2. dq_thr[t].pc # "queue"
      BY <2>6, Zenon DEF Asked
    <3> QED
      BY <1>6, <2>2, <3>1, <3>2, Zenon DEF ReadFits, Active
  <2>7. DeferType' /\ DeferModule' /\ DeferPlaces' /\ DeferOwned' /\ DeferReads'
    <3>1. \A t \in DeferThreads :
            /\ dq_thr'[t].pc = dq_thr[t].pc /\ dq_thr'[t].file = dq_thr[t].file
            /\ dq_thr'[t].obj = dq_thr[t].obj /\ dq_thr'[t].read = dq_thr[t].read
            /\ dq_thr'[t].ok = dq_thr[t].ok
      BY <2>4, Zenon
    <3>2. \A t \in DeferThreads : Asked(dq_thr[t]) /\ dq_thr[t].obj = o =>
            ReadFits(t, dq_thr[t], p, dq_buf[BufOf(o)])
      BY <2>6, Zenon
    <3>3. p.queued => p.pc = "idle"
      BY <2>2, Zenon
    <3> QED
      BY <1>1, <1>2, <1>3, <2>2, <2>3, <2>5, <3>1, <3>2, <3>3, ObjectStep, ZenonT(40)
  <2>8. SleeperWoken'
    <3>1. SUFFICES ASSUME NEW t \in DeferThreads, dq_thr'[t].pc = "sleep", ~dq_thr'[t].woken,
                          dq_buf[BufOf(dq_thr[t].obj)].done
                   PROVE  \E q \in Objects :
                            BufOf(q) = BufOf(dq_thr[t].obj) /\ dq_obj'[q].pc = "wake"
      BY <1>6, <2>4 DEF SleeperWoken, DeferAt
    <3>2. dq_thr[t].pc = "sleep" /\ dq_thr[t] \in DeferCall /\ dq_thr[t].obj \in Objects
      BY <2>4, <3>1, DeferParts, Zenon
    <3>3. dq_thr[t].obj # "none"
      BY <3>2, JiqNames, Zenon DEF Jiq
    <3>4. BufOf(dq_thr[t].obj) # BufOf(o) /\ dq_thr'[t] = dq_thr[t]
      BY <1>6, <3>1, <3>2, <3>3, Zenon DEF DeferCall
    <3>5. PICK q \in Objects : BufOf(q) = BufOf(dq_thr[t].obj) /\ dq_obj[q].pc = "wake"
      BY <3>1, <3>4, Zenon DEF DeferInv, SleeperWoken, DeferAt
    <3> QED
      BY <2>2, <3>4, <3>5, Zenon DEF DeferInv, DeferType
  <2> QED
    BY <2>7, <2>8, Zenon DEF DeferInv
<1> QED
  BY <1>5, <1>6, Zenon DEF jiq_done

\* No two calls that have their buffers share one, or an object.
LEMMA Apart ==
  ASSUME DeferInv, NEW t \in DeferThreads, NEW u \in DeferThreads, u # t,
         Busy(dq_thr[t]), Busy(dq_thr[u])
  PROVE  dq_thr[u].obj # dq_thr[t].obj /\ BufOf(dq_thr[u].obj) # BufOf(dq_thr[t].obj)
<1>1. \/ dq_thr[t].obj = t /\ BufOf(dq_thr[t].obj) = t
      \/ dq_thr[t].obj \in Jiq /\ BufOf(dq_thr[t].obj) = "jiq" /\ dq_lock = t
  BY DeferParts, Zenon DEF Busy, DeferInv, DeferPlaces
<1>2. \/ dq_thr[u].obj = u /\ BufOf(dq_thr[u].obj) = u
      \/ dq_thr[u].obj \in Jiq /\ BufOf(dq_thr[u].obj) = "jiq" /\ dq_lock = u
  BY DeferParts, Zenon DEF Busy, DeferInv, DeferPlaces
<1> QED
  BY <1>1, <1>2, JiqNames

\* What a step of thread t leaves alone: the objects and buffers of the other calls,
\* the mutex when one of them has it, and how far every function is.
OthersKept(t) ==
  /\ \A u \in DeferThreads \ {t} : Busy(dq_thr[u]) =>
       /\ dq_obj'[dq_thr[u].obj] = dq_obj[dq_thr[u].obj]
       /\ dq_buf'[BufOf(dq_thr[u].obj)] = dq_buf[BufOf(dq_thr[u].obj)]
       /\ dq_thr[u].obj # u => dq_lock' = dq_lock
  /\ \A o \in Objects : dq_obj'[o].pc = dq_obj[o].pc

\* What is active after a step of thread t, whose call is c then, has an owner: c, or
\* the call of another thread that it had before.
StillOwned(t, c) ==
  \A o \in Objects : Active(dq_obj'[o]) =>
    \/ Asked(c) /\ c.obj = o /\ c.read = dq_obj'[o].read
    \/ /\ Active(dq_obj[o]) /\ dq_obj'[o].read = dq_obj[o].read
       /\ Asked(dq_thr[t]) => dq_thr[t].obj # o

\* A step of a thread keeps the invariant when its call fits afterwards.
LEMMA ThreadStep ==
  ASSUME DeferInv, NEW t \in DeferThreads, NEW c \in DeferCall,
         dq_thr' = [dq_thr EXCEPT ![t] = c],
         dq_obj' \in [Objects -> DeferObject],
         dq_buf' \in [DeferThreads \cup {"jiq"} -> DeferBuffer],
         dq_reads' \in Nat, dq_mod' = dq_mod,
         CallFits(t, c, dq_mod.files),
         Busy(c) /\ c.obj # t => dq_lock' = t,
         Busy(c) => ReadFits(t, c, dq_obj'[c.obj], dq_buf'[BufOf(c.obj)]),
         c.pc = "sleep" => ~dq_buf'[BufOf(c.obj)].done,
         \A o \in Objects : dq_obj'[o].queued => dq_obj'[o].pc = "idle",
         OthersKept(t), StillOwned(t, c)
  PROVE  DeferInv'
<1>1. dq_thr'[t] = c /\ \A u \in DeferThreads \ {t} : dq_thr'[u] = dq_thr[u]
  BY Zenon DEF DeferInv, DeferType
<1>2. DeferType' /\ DeferModule'
  BY Zenon DEF DeferInv, DeferType, DeferModule
<1>3. DeferPlaces'
  <2>1. ASSUME NEW u \in DeferThreads
        PROVE  /\ CallFits(u, dq_thr'[u], dq_mod.files)
               /\ Busy(dq_thr'[u]) /\ dq_thr'[u].obj # u => dq_lock' = u
    <3>1. CASE u = t
      BY <1>1, <3>1, Zenon
    <3>2. CASE u # t
      BY <1>1, <3>2, Zenon DEF DeferInv, DeferPlaces, OthersKept
    <3> QED
      BY <3>1, <3>2, Zenon
  <2> QED
    BY <2>1, Zenon DEF DeferPlaces, CallFits, Busy
<1>4. DeferOwned'
  <2>1. ASSUME NEW o \in Objects, Active(dq_obj'[o])
        PROVE  \E u \in DeferThreads :
                 Asked(dq_thr'[u]) /\ dq_thr'[u].obj = o /\ dq_thr'[u].read = dq_obj'[o].read
    <3>1. CASE Asked(c) /\ c.obj = o /\ c.read = dq_obj'[o].read
      BY <1>1, <3>1, Zenon
    <3>2. CASE /\ Active(dq_obj[o]) /\ dq_obj'[o].read = dq_obj[o].read
               /\ Asked(dq_thr[t]) => dq_thr[t].obj # o
      <4>1. PICK u \in DeferThreads :
              Asked(dq_thr[u]) /\ dq_thr[u].obj = o /\ dq_thr[u].read = dq_obj[o].read
        BY <3>2, Zenon DEF DeferInv, DeferOwned
      <4> QED
        BY <1>1, <3>2, <4>1, Zenon
    <3> QED
      BY <2>1, <3>1, <3>2, Zenon DEF StillOwned
  <2> QED
    BY <2>1, Zenon DEF DeferOwned, Active, Asked
<1>5. DeferReads'
  <2>1. ASSUME NEW u \in DeferThreads, Busy(dq_thr'[u])
        PROVE  ReadFits(u, dq_thr'[u], dq_obj'[dq_thr'[u].obj], dq_buf'[BufOf(dq_thr'[u].obj)])
    <3>1. CASE u = t
      BY <1>1, <2>1, <3>1, Zenon
    <3>2. CASE u # t
      BY <1>1, <2>1, <3>2 DEF DeferInv, DeferReads, OthersKept
    <3> QED
      BY <3>1, <3>2, Zenon
  <2> QED
    BY <2>1, Zenon DEF DeferReads, ReadFits, Busy, BufOf, Whole, Active
<1>6. SleeperWoken'
  <2>1. SUFFICES ASSUME NEW u \in DeferThreads, dq_thr'[u].pc = "sleep", ~dq_thr'[u].woken,
                        dq_buf'[BufOf(dq_thr'[u].obj)].done
                 PROVE  \E o \in Objects :
                          BufOf(o) = BufOf(dq_thr'[u].obj) /\ dq_obj'[o].pc = "wake"
    BY Zenon DEF SleeperWoken, DeferAt, BufOf
  <2>2. u # t
    BY <1>1, <2>1, ZenonT(40)
  <2>3. Busy(dq_thr[u]) /\ dq_thr'[u] = dq_thr[u]
    BY <1>1, <2>1, <2>2, Zenon DEF Busy
  <2>4. dq_buf[BufOf(dq_thr[u].obj)].done
    BY <2>1, <2>2, <2>3 DEF OthersKept
  <2>5. PICK o \in Objects : BufOf(o) = BufOf(dq_thr[u].obj) /\ dq_obj[o].pc = "wake"
    BY <2>1, <2>3, <2>4 DEF DeferInv, SleeperWoken, DeferAt
  <2> QED
    BY <2>3, <2>5, Zenon DEF OthersKept
<1> QED
  BY <1>2, <1>3, <1>4, <1>5, <1>6, Zenon DEF DeferInv

\* The object of a thread that has no call of its own is not active.
LEMMA NoneActive ==
  ASSUME DeferInv, NEW t \in DeferThreads, NEW o \in Objects,
         \/ o = t /\ ~Asked(dq_thr[t])
         \/ o \in Jiq /\ \A u \in DeferThreads : Asked(dq_thr[u]) => dq_thr[u].obj # o
  PROVE  ~Active(dq_obj[o])
<1> SUFFICES ASSUME Active(dq_obj[o])
             PROVE  FALSE
  BY Zenon
<1>1. PICK u \in DeferThreads : Asked(dq_thr[u]) /\ dq_thr[u].obj = o
  BY Zenon DEF DeferInv, DeferOwned
<1>2. dq_thr[u].obj = u \/ dq_thr[u].obj \in Jiq
  BY <1>1, DeferParts, Zenon DEF Asked
<1> QED
  BY <1>1, <1>2, JiqNames

\* A read begins, and the data of a read of jit is allocated with its first line.
LEMMA DeferBegins ==
  ASSUME DeferInv, NEW t \in DeferThreads,
         \/ jit_timer(t) \/ jit_bh(t)
         \/ jiq_read_wq(t) \/ jiq_read_wq_delayed(t) \/ jiq_read_run_timer(t) \/ jiq_read_bh(t)
  PROVE  DeferInv'
<1>1. dq_reads \in Nat /\ dq_reads + 1 \in Nat /\ dq_mod.files \in 0..4
  BY DEF DeferInv, DeferType
<1>2. t \in Objects /\ BufOf(t) = t
  BY Zenon DEF Objects, BufOf
<1>3. ASSUME NEW file \in {"jitimer", "jitasklet"}, Begin(t, file, t, "queue"), jit_data_alloc(t)
      PROVE  DeferInv'
  <2>1. PICK r \in Nat : r = dq_reads + 1 /\ dq_reads' = r
    BY <1>1, <1>3, Zenon DEF Begin
  <2>2. PICK c \in DeferCall : c = [pc |-> "queue", file |-> file, obj |-> t, read |-> r,
                                    woken |-> FALSE, ok |-> FALSE]
    BY <1>2, <2>1, Zenon DEF DeferCall
  <2>3. dq_thr' = [dq_thr EXCEPT ![t] = c] /\ dq_thr[t].pc = "idle"
        /\ UNCHANGED <<dq_lock, dq_obj, dq_mod>>
    BY <1>3, <2>1, <2>2, Zenon DEF Begin, DeferAt
  <2>4. /\ c.pc = "queue" /\ c.file = file /\ c.obj = t /\ c.read = r /\ ~c.ok
    BY <2>2, Zenon
  <2>5. PICK b \in DeferBuffer : b = [live |-> TRUE, lines |-> <<r>>, done |-> FALSE]
    <3>1. <<r>> \in Seq(Nat)
      OBVIOUS
    <3> QED
      BY <3>1, Zenon DEF DeferBuffer
  <2>6. dq_buf' = [dq_buf EXCEPT ![t] = b]
    BY <1>3, <2>1, <2>5, Zenon DEF jit_data_alloc
  <2>7. /\ b.live /\ ~b.done /\ Len(b.lines) = 1 /\ \A i \in 1..Len(b.lines) : b.lines[i] = r
    BY <2>5
  <2>8. ~Active(dq_obj[t])
    BY <1>2, <2>3, NoneActive, Zenon DEF Asked
  <2>9. CallFits(t, c, dq_mod.files) /\ Busy(c) /\ Whole(t, c) = LOOPS + 1
    BY <2>4, Zenon DEF CallFits, Busy, Whole
  <2>10. ReadFits(t, c, dq_obj'[c.obj], dq_buf'[BufOf(c.obj)])
    <3>1. dq_obj'[c.obj] = dq_obj[t] /\ dq_buf'[BufOf(c.obj)] = b
      BY <1>2, <2>3, <2>4, <2>6, Zenon DEF DeferInv, DeferType
    <3>2. ReadFits(t, c, dq_obj[t], b)
      <4>1. /\ c.pc = "queue" /\ ~c.ok /\ c.file # "jiqtimer"
            /\ dq_obj[t].pc = "idle" /\ ~dq_obj[t].queued
        BY <2>4, <2>8, Zenon DEF Active
      <4>2. Len(b.lines) < LOOPS + 1
        BY <2>7, DeferredAssumption
      <4> QED
        BY <2>4, <2>7, <2>9, <4>1, <4>2 DEF ReadFits
    <3> QED
      BY <3>1, <3>2, Zenon
  <2>11. OthersKept(t)
    <3>1. ASSUME NEW u \in DeferThreads \ {t}, Busy(dq_thr[u])
          PROVE  BufOf(dq_thr[u].obj) # t
      BY <3>1, DeferParts, JiqNames, Zenon DEF Busy
    <3> QED
      BY <2>3, <2>6, <3>1 DEF OthersKept, DeferInv, DeferType
  <2>12. StillOwned(t, c)
    BY <2>3, Zenon DEF StillOwned, Asked
  <2>13. /\ dq_obj' \in [Objects -> DeferObject]
         /\ dq_buf' \in [DeferThreads \cup {"jiq"} -> DeferBuffer]
         /\ dq_reads' \in Nat /\ dq_mod' = dq_mod
         /\ \A o \in Objects : dq_obj'[o].queued => dq_obj'[o].pc = "idle"
    BY <2>1, <2>3, <2>6, Zenon DEF DeferInv, DeferType, DeferOwned
  <2> QED
    BY <2>3, <2>4, <2>9, <2>10, <2>11, <2>12, <2>13, ThreadStep, Zenon
<1>4. ASSUME NEW f \in Jiq, JiqRead(t, f)
      PROVE  DeferInv'
  <2>1. PICK r \in Nat : r = dq_reads + 1 /\ dq_reads' = r
    BY <1>1, <1>4, Zenon DEF JiqRead, Begin
  <2>2. PICK c \in DeferCall : c = [pc |-> "lock", file |-> f, obj |-> f, read |-> r,
                                    woken |-> FALSE, ok |-> FALSE]
    BY <2>1, JiqNames, Zenon DEF DeferCall
  <2>3. dq_thr' = [dq_thr EXCEPT ![t] = c] /\ dq_thr[t].pc = "idle"
        /\ UNCHANGED <<dq_lock, dq_obj, dq_mod, dq_buf>>
    BY <1>4, <2>1, <2>2, Zenon DEF JiqRead, Begin, DeferAt
  <2>4. /\ c.pc = "lock" /\ c.file = f /\ c.obj = f /\ ~c.ok /\ ~Busy(c)
    BY <2>2, Zenon DEF Busy
  <2>5. CallFits(t, c, dq_mod.files)
    BY <1>4, <2>4, Zenon DEF CallFits, JiqRead
  <2>6. OthersKept(t) /\ StillOwned(t, c)
    BY <2>3, Zenon DEF OthersKept, StillOwned, Asked
  <2>7. /\ dq_obj' \in [Objects -> DeferObject]
        /\ dq_buf' \in [DeferThreads \cup {"jiq"} -> DeferBuffer]
        /\ dq_reads' \in Nat /\ dq_mod' = dq_mod
        /\ \A o \in Objects : dq_obj'[o].queued => dq_obj'[o].pc = "idle"
    BY <2>1, <2>3, Zenon DEF DeferInv, DeferType, DeferOwned
  <2> QED
    BY <2>3, <2>4, <2>5, <2>6, <2>7, ThreadStep, Zenon
<1> QED
  BY <1>3, <1>4, Zenon DEF jit_timer, jit_bh, jiq_read_wq, jiq_read_wq_delayed,
     jiq_read_run_timer,
                    jiq_read_bh, Jiq

\* Taking the mutex of jiq, or giving up for a signal.
LEMMA DeferResets ==
  ASSUME DeferInv, NEW t \in DeferThreads, jiq_reset(t)
  PROVE  DeferInv'
<1>1. dq_thr[t].pc = "lock" /\ UNCHANGED <<dq_obj, dq_mod, dq_reads>>
  BY Zenon DEF jiq_reset, DeferAt
<1>2. /\ dq_thr[t] \in DeferCall /\ dq_thr[t].obj = dq_thr[t].file /\ dq_thr[t].obj \in Jiq
      /\ dq_thr[t].obj \in Objects /\ BufOf(dq_thr[t].obj) = "jiq" /\ dq_thr[t].obj # t
      /\ ~dq_thr[t].ok /\ dq_thr[t].obj \in Present(dq_mod.files)
  <2>1. dq_thr[t] \in DeferCall /\ CallFits(t, dq_thr[t], dq_mod.files)
    BY DeferParts, Zenon
  <2>2. /\ dq_thr[t].obj = dq_thr[t].file /\ dq_thr[t].obj \in Present(dq_mod.files)
        /\ ~dq_thr[t].ok
    BY <1>1, <2>1, Zenon DEF CallFits
  <2>3. dq_mod.files \in 0..4
    BY Zenon DEF DeferInv, DeferType
  <2>4. dq_thr[t].obj \in Jiq
    BY <2>2, <2>3, JiqNames, Zenon
  <2> QED
    BY <2>1, <2>2, <2>4, JiqNames DEF BufOf
<1>3. /\ dq_obj' \in [Objects -> DeferObject] /\ dq_reads' \in Nat /\ dq_mod' = dq_mod
      /\ \A o \in Objects : dq_obj'[o].queued => dq_obj'[o].pc = "idle"
  BY <1>1, Zenon DEF DeferInv, DeferType, DeferOwned
<1>4. CASE /\ dq_lock = "free" /\ dq_lock' = t
           /\ dq_buf' = [dq_buf EXCEPT !["jiq"] =
                [live |-> TRUE, done |-> FALSE,
                 lines |-> IF dq_thr[t].obj = "jiqtimer" THEN <<dq_thr[t].read>> ELSE <<>>]]
           /\ DeferGoto(t, "queue")
  <2>1. PICK c \in DeferCall : c = [dq_thr[t] EXCEPT !.pc = "queue"]
    BY <1>2, Zenon DEF DeferCall
  <2>2. /\ c.pc = "queue" /\ c.file = dq_thr[t].file /\ c.obj = dq_thr[t].obj
        /\ c.read = dq_thr[t].read /\ ~c.ok /\ dq_thr' = [dq_thr EXCEPT ![t] = c]
    BY <1>2, <1>4, <2>1, Zenon DEF DeferCall, DeferGoto
  <2>3. PICK r \in Nat : r = dq_thr[t].read
    BY <1>2, Zenon DEF DeferCall
  <2>4. PICK l \in {<<r>>, <<>>} : l = IF dq_thr[t].obj = "jiqtimer" THEN <<r>> ELSE <<>>
    BY Zenon
  <2>5. l \in Seq(Nat) /\ (\A i \in 1..Len(l) : l[i] = r) /\ Len(l) = IF c.obj = "jiqtimer" THEN 1 ELSE 0
    BY <2>2, <2>3, <2>4
  <2>6. PICK b \in DeferBuffer : b = [live |-> TRUE, done |-> FALSE, lines |-> l]
    BY <2>5, Zenon DEF DeferBuffer
  <2>7. b.live /\ ~b.done /\ b.lines = l /\ dq_buf' = [dq_buf EXCEPT !["jiq"] = b]
    BY <1>4, <2>3, <2>4, <2>6, Zenon
  <2>8. \A u \in DeferThreads : Busy(dq_thr[u]) => dq_thr[u].obj = u
    BY <1>4, JiqNames, Zenon DEF DeferInv, DeferPlaces
  <2>9. ~Active(dq_obj[c.obj])
    BY <1>2, <2>2, <2>8, NoneActive, JiqNames DEF Asked, Busy
  <2>10. CallFits(t, c, dq_mod.files) /\ Busy(c)
         /\ Whole(t, c) = IF c.obj = "jiqtimer" THEN 2 ELSE LINES
    BY <1>2, <2>2, Zenon DEF CallFits, Busy, Whole
  <2>11. ReadFits(t, c, dq_obj'[c.obj], dq_buf'[BufOf(c.obj)])
    <3>1. dq_obj'[c.obj] = dq_obj[c.obj] /\ dq_buf'[BufOf(c.obj)] = b
      BY <1>1, <1>2, <2>2, <2>7, Zenon DEF DeferInv, DeferType
    <3>2. c.file = c.obj /\ c.read = r
      BY <1>2, <2>2, <2>3, Zenon
    <3>3. Len(b.lines) < Whole(t, c) /\ (c.file = "jiqtimer" => Len(b.lines) >= 1)
      <4>1. CASE c.obj = "jiqtimer"
        <5>1. Len(b.lines) = 1 /\ Whole(t, c) = 2
          BY <2>5, <2>7, <2>10, <4>1, Zenon
        <5> QED
          BY <5>1
      <4>2. CASE c.obj # "jiqtimer"
        BY <2>5, <2>7, <2>10, <3>2, <4>2, DeferredAssumption
      <4> QED
        BY <4>1, <4>2, Zenon
    <3>4. ReadFits(t, c, dq_obj[c.obj], b)
      BY <2>2, <2>5, <2>7, <2>9, <3>2, <3>3, ZenonT(40) DEF ReadFits, Active
    <3> QED
      BY <3>1, <3>4, Zenon
  <2>12. OthersKept(t)
    <3>1. ASSUME NEW u \in DeferThreads \ {t}, Busy(dq_thr[u])
          PROVE  BufOf(dq_thr[u].obj) # "jiq" /\ dq_thr[u].obj = u
      BY <2>8, <3>1, JiqNames DEF BufOf
    <3> QED
      BY <1>1, <2>7, <3>1 DEF OthersKept, DeferInv, DeferType
  <2>13. StillOwned(t, c)
    BY <1>1, Zenon DEF StillOwned, Asked
  <2>14. dq_buf' \in [DeferThreads \cup {"jiq"} -> DeferBuffer]
    BY <2>7, Zenon DEF DeferInv, DeferType
  <2> QED
    BY <1>3, <1>4, <2>2, <2>10, <2>11, <2>12, <2>13, <2>14, ThreadStep, Zenon
<1>5. CASE dq_thr' = [dq_thr EXCEPT ![t] = DeferIdle] /\ UNCHANGED <<dq_lock, dq_buf>>
  <2>1. DeferIdle \in DeferCall /\ CallFits(t, DeferIdle, dq_mod.files) /\ ~Busy(DeferIdle)
        /\ DeferIdle.pc # "sleep"
    BY Zenon DEF DeferIdle, DeferCall, CallFits, Busy
  <2>2. OthersKept(t) /\ StillOwned(t, DeferIdle)
    BY <1>1, <1>5, Zenon DEF OthersKept, StillOwned, Asked
  <2>3. dq_buf' \in [DeferThreads \cup {"jiq"} -> DeferBuffer]
    BY <1>5, Zenon DEF DeferInv, DeferType
  <2> QED
    BY <1>3, <1>5, <2>1, <2>2, <2>3, ThreadStep, Zenon
<1> QED
  BY <1>4, <1>5, Zenon DEF jiq_reset

\* A call that has its buffer, and only goes from one place to another.
LEMMA CallMoves ==
  ASSUME DeferInv, NEW t \in DeferThreads, Busy(dq_thr[t]), NEW c \in DeferCall, Busy(c),
         dq_thr' = [dq_thr EXCEPT ![t] = c],
         c.obj = dq_thr[t].obj, c.file = dq_thr[t].file, c.read = dq_thr[t].read,
         UNCHANGED <<dq_lock, dq_obj, dq_buf, dq_mod, dq_reads>>,
         ReadFits(t, c, dq_obj[c.obj], dq_buf[BufOf(c.obj)]),
         c.pc = "sleep" => ~dq_buf[BufOf(c.obj)].done,
         Active(dq_obj[c.obj]) => Asked(c)
  PROVE  DeferInv'
<1>1. CallFits(t, c, dq_mod.files)
  BY DeferParts DEF CallFits, Busy
<1>2. c.obj # t => dq_lock' = t
  BY Zenon DEF DeferInv, DeferPlaces
<1>3. StillOwned(t, c)
  <2>1. ASSUME NEW o \in Objects, Active(dq_obj[o])
        PROVE  \/ Asked(c) /\ c.obj = o /\ c.read = dq_obj[o].read
               \/ dq_thr[t].obj # o
    BY <2>1, Serves, Zenon
  <2> QED
    BY <2>1, Zenon DEF StillOwned
<1>4. /\ dq_obj' \in [Objects -> DeferObject]
      /\ dq_buf' \in [DeferThreads \cup {"jiq"} -> DeferBuffer]
      /\ dq_reads' \in Nat /\ dq_mod' = dq_mod
      /\ \A o \in Objects : dq_obj'[o].queued => dq_obj'[o].pc = "idle"
  BY Zenon DEF DeferInv, DeferType, DeferOwned
<1>5. OthersKept(t)
  BY Zenon DEF OthersKept
<1> QED
  BY <1>1, <1>2, <1>3, <1>4, <1>5, ThreadStep, ZenonT(40)

\* The wait loop keeps the invariant.
LEMMA DeferWaits ==
  ASSUME DeferInv, NEW t \in DeferThreads, DeferWait(t)
  PROVE  DeferInv'
<1> DEFINE x == dq_thr[t]   o == dq_obj[x.obj]   b == dq_buf[BufOf(x.obj)]
<1>1. x \in DeferCall /\ x.pc \in {"prepare", "test", "sleep"} /\ Busy(x) /\ Asked(x)
  BY DeferParts, Zenon DEF DeferWait, DeferAt, Busy, Asked
<1>2. ReadFits(t, x, o, b)
  BY <1>1, Zenon DEF DeferInv, DeferReads
<1>3. UNCHANGED <<dq_lock, dq_obj, dq_buf, dq_mod, dq_reads>>
  BY Zenon DEF DeferWait
<1>4. ASSUME NEW c \in DeferCall, dq_thr' = [dq_thr EXCEPT ![t] = c],
             c.obj = x.obj, c.file = x.file, c.read = x.read, Asked(c),
             c.pc = "sleep" => ~b.done, c.pc = "show" => c.ok /\ c.file # "jiqwq",
             c.ok => x.ok \/ b.done
      PROVE  DeferInv'
  <2>1. ReadFits(t, c, o, b)
    BY <1>1, <1>2, <1>4, Zenon DEF ReadFits, Whole, Asked
  <2>2. Busy(c)
    BY <1>4, Zenon DEF Asked, Busy
  <2> QED
    BY <1>1, <1>3, <1>4, <2>1, <2>2, CallMoves, Zenon
<1>5. ASSUME NEW pc \in {"prepare", "sleep", "stop"}, DeferGoto(t, pc), pc = "sleep" => ~b.done
      PROVE  DeferInv'
  <2>1. PICK c \in DeferCall : c = [x EXCEPT !.pc = pc]
    BY <1>1, Zenon DEF DeferCall
  <2>2. /\ c.pc = pc /\ c.obj = x.obj /\ c.file = x.file /\ c.read = x.read /\ c.ok = x.ok
        /\ dq_thr' = [dq_thr EXCEPT ![t] = c]
    BY <1>1, <1>5, <2>1, Zenon DEF DeferCall, DeferGoto
  <2> QED
    BY <1>4, <1>5, <2>2, Zenon DEF Asked
<1>6. CASE dq_thr' = [dq_thr EXCEPT ![t].pc = WaitOrder.prepare, ![t].woken = FALSE]
  <2>1. PICK c \in DeferCall : c = [x EXCEPT !.pc = "test", !.woken = FALSE]
    BY <1>1, Zenon DEF DeferCall
  <2>2. /\ c.pc = "test" /\ c.obj = x.obj /\ c.file = x.file /\ c.read = x.read /\ c.ok = x.ok
    BY <1>1, <2>1 DEF DeferCall
  <2>3. dq_thr' = [dq_thr EXCEPT ![t] = c]
    BY <1>6, <2>1, Zenon DEF WaitOrder, DeferInv, DeferType
  <2> QED
    BY <1>4, <2>2, <2>3, Zenon DEF Asked
<1>7. CASE b.done /\ dq_thr' = [dq_thr EXCEPT ![t].ok = TRUE, ![t].pc = ShowOrder(t).done]
  <2>1. PICK pc \in {"show", "stop"} : pc = ShowOrder(t).done /\ (pc = "show" => x.file # "jiqwq")
    BY Zenon DEF ShowOrder
  <2>2. PICK c \in DeferCall : c = [x EXCEPT !.ok = TRUE, !.pc = pc]
    BY <1>1, Zenon DEF DeferCall
  <2>3. /\ c.pc = pc /\ c.obj = x.obj /\ c.file = x.file /\ c.read = x.read /\ c.ok
    BY <1>1, <2>2 DEF DeferCall
  <2>4. dq_thr' = [dq_thr EXCEPT ![t] = c]
    BY <1>7, <2>1, <2>2, Zenon DEF DeferInv, DeferType
  <2> QED
    BY <1>4, <1>7, <2>1, <2>3, <2>4, Zenon DEF Asked
<1> QED
  BY <1>5, <1>6, <1>7, Zenon DEF DeferWait, WaitOrder

\* Queueing the object, which was not active, keeps the invariant.
LEMMA DeferQueues ==
  ASSUME DeferInv, NEW t \in DeferThreads, Queue(t)
  PROVE  DeferInv'
<1> DEFINE x == dq_thr[t]   o == dq_obj[x.obj]   b == dq_buf[BufOf(x.obj)]
<1>1. /\ x \in DeferCall /\ x.pc = "queue" /\ Busy(x) /\ ~Asked(x)
      /\ x.obj \in Objects /\ o \in DeferObject
  BY DeferParts, Zenon DEF Queue, DeferAt, Busy, Asked
<1>2. ReadFits(t, x, o, b) /\ ~Active(o)
  BY <1>1, Serves, Zenon DEF DeferInv, DeferReads
<1>3. PICK c \in DeferCall : c = [x EXCEPT !.pc = "prepare"]
  BY <1>1, Zenon DEF DeferCall
<1>4. /\ c.pc = "prepare" /\ c.obj = x.obj /\ c.file = x.file /\ c.read = x.read /\ c.ok = x.ok
      /\ dq_thr' = [dq_thr EXCEPT ![t] = c]
  BY <1>1, <1>3, Zenon DEF DeferCall, Queue, DeferGoto, WaitOrder
<1>5. PICK p \in DeferObject : p = [o EXCEPT !.queued = TRUE, !.read = x.read]
  BY <1>1, Zenon DEF DeferObject, DeferCall
<1>6. /\ p.queued /\ p.pc = "idle" /\ p.read = x.read /\ o.pc = "idle"
  BY <1>1, <1>2, <1>5, Zenon DEF DeferObject, Active
<1>7. dq_obj' = [dq_obj EXCEPT ![x.obj] = p]
  BY <1>1, <1>5, Zenon DEF Queue, DeferInv, DeferType
<1>8. UNCHANGED <<dq_lock, dq_buf, dq_mod, dq_reads>>
  BY Zenon DEF Queue
<1>9. CallFits(t, c, dq_mod.files) /\ Busy(c) /\ Asked(c) /\ (c.obj # t => dq_lock' = t)
  <2>1. CallFits(t, x, dq_mod.files) /\ (x.obj # t => dq_lock = t)
    BY <1>1, Zenon DEF DeferInv, DeferPlaces
  <2> QED
    BY <1>1, <1>4, <1>8, <2>1, Zenon DEF CallFits, Busy, Asked
<1>10. ReadFits(t, c, dq_obj'[c.obj], dq_buf'[BufOf(c.obj)])
  <2>1. ReadFits(t, c, p, b)
    BY <1>1, <1>2, <1>4, <1>6, Zenon DEF ReadFits, Whole
  <2>2. dq_obj'[c.obj] = p /\ dq_buf'[BufOf(c.obj)] = b
    BY <1>1, <1>4, <1>7, <1>8, Zenon DEF DeferInv, DeferType
  <2> QED
    BY <2>1, <2>2, Zenon
<1>11. OthersKept(t)
  <2>1. \A u \in DeferThreads \ {t} : Busy(dq_thr[u]) => dq_thr[u].obj # x.obj
    BY <1>1, Apart, Zenon
  <2>2. dq_obj'[x.obj] = p /\ \A v \in Objects \ {x.obj} : dq_obj'[v] = dq_obj[v]
    BY <1>1, <1>7, Zenon DEF DeferInv, DeferType
  <2>3. \A u \in DeferThreads : Busy(dq_thr[u]) => dq_thr[u].obj \in Objects
    BY DeferParts, Zenon DEF Busy
  <2>4. \A u \in DeferThreads \ {t} :
          Busy(dq_thr[u]) => dq_obj'[dq_thr[u].obj] = dq_obj[dq_thr[u].obj]
    BY <2>1, <2>2, <2>3, Zenon
  <2>5. \A v \in Objects : dq_obj'[v].pc = dq_obj[v].pc
    BY <1>6, <2>2, Zenon
  <2> QED
    BY <1>8, <2>4, <2>5, Zenon DEF OthersKept
<1>12. StillOwned(t, c)
  BY <1>1, <1>4, <1>6, <1>7, <1>9, Zenon DEF StillOwned, DeferInv, DeferType
<1>13. /\ dq_obj' \in [Objects -> DeferObject]
       /\ dq_buf' \in [DeferThreads \cup {"jiq"} -> DeferBuffer]
       /\ dq_reads' \in Nat /\ dq_mod' = dq_mod
       /\ \A q \in Objects : dq_obj'[q].queued => dq_obj'[q].pc = "idle"
  BY <1>1, <1>6, <1>7, <1>8, ZenonT(40) DEF DeferInv, DeferType, DeferOwned
<1> QED
  BY <1>4, <1>9, <1>10, <1>11, <1>12, <1>13, ThreadStep, Zenon

\* Showing the buffer keeps the invariant: a read that ends without stopping its
\* object has stopped it before.
LEMMA DeferShows ==
  ASSUME DeferInv, NEW t \in DeferThreads, Show(t)
  PROVE  DeferInv'
<1> DEFINE x == dq_thr[t]   o == dq_obj[x.obj]   b == dq_buf[BufOf(x.obj)]
<1>1. x \in DeferCall /\ x.pc = "show" /\ Busy(x)
  BY DeferParts, Zenon DEF Show, DeferAt, Busy
<1>2. ReadFits(t, x, o, b)
  BY <1>1, Zenon DEF DeferInv, DeferReads
<1>3. PICK pc \in {"stop", "end"} : pc = ShowOrder(t).show /\ (pc = "end" => x.file = "jiqwq")
  BY Zenon DEF ShowOrder
<1>4. PICK c \in DeferCall : c = [x EXCEPT !.pc = pc]
  BY <1>1, Zenon DEF DeferCall
<1>5. /\ c.pc = pc /\ c.obj = x.obj /\ c.file = x.file /\ c.read = x.read /\ c.ok = x.ok
      /\ dq_thr' = [dq_thr EXCEPT ![t] = c]
  BY <1>1, <1>3, <1>4 DEF DeferCall, Show, DeferGoto
<1>6. ReadFits(t, c, o, b) /\ Busy(c) /\ (Active(o) => Asked(c))
  BY <1>1, <1>2, <1>3, <1>5, Zenon DEF ReadFits, Whole, Busy, Asked
<1>7. UNCHANGED <<dq_lock, dq_obj, dq_buf, dq_mod, dq_reads>>
  BY Zenon DEF Show
<1> QED
  BY <1>1, <1>3, <1>5, <1>6, <1>7, CallMoves, Zenon

\* Stopping the object keeps the invariant: it is not active afterwards.
LEMMA DeferStops ==
  ASSUME DeferInv, NEW t \in DeferThreads, Stop(t)
  PROVE  DeferInv'
<1> DEFINE x == dq_thr[t]   o == dq_obj[x.obj]   b == dq_buf[BufOf(x.obj)]
<1>1. /\ x \in DeferCall /\ x.pc = "stop" /\ Busy(x)
      /\ x.obj \in Objects /\ o \in DeferObject /\ o.pc = "idle"
  BY DeferParts, Zenon DEF Stop, CancelSync, DeferAt, Busy
<1>2. ReadFits(t, x, o, b)
  BY <1>1, Zenon DEF DeferInv, DeferReads
<1>3. PICK pc \in {"show", "end"} : /\ pc = IF x.ok THEN ShowOrder(t).stop ELSE "end"
                                    /\ pc = "show" => x.ok
  BY Zenon DEF ShowOrder
<1>4. PICK c \in DeferCall : c = [x EXCEPT !.pc = pc]
  BY <1>1, Zenon DEF DeferCall
<1>5. /\ c.pc = pc /\ c.obj = x.obj /\ c.file = x.file /\ c.read = x.read /\ c.ok = x.ok
      /\ dq_thr' = [dq_thr EXCEPT ![t] = c]
  BY <1>1, <1>3, <1>4 DEF DeferCall, Stop, DeferGoto
<1>6. PICK p \in DeferObject : p = [o EXCEPT !.queued = FALSE]
  BY <1>1, Zenon DEF DeferObject
<1>7. ~p.queued /\ p.pc = "idle" /\ ~Active(p)
  BY <1>1, <1>6, Zenon DEF DeferObject, Active
<1>8. dq_obj' = [dq_obj EXCEPT ![x.obj] = p]
  BY <1>1, <1>6, Zenon DEF Stop, DeferInv, DeferType
<1>9. UNCHANGED <<dq_lock, dq_buf, dq_mod, dq_reads>>
  BY Zenon DEF Stop
<1>10. CallFits(t, c, dq_mod.files) /\ Busy(c) /\ c.pc # "sleep" /\ (c.obj # t => dq_lock' = t)
  <2>1. CallFits(t, x, dq_mod.files) /\ (x.obj # t => dq_lock = t)
    BY <1>1, Zenon DEF DeferInv, DeferPlaces
  <2> QED
    BY <1>1, <1>3, <1>5, <1>9, <2>1, Zenon DEF CallFits, Busy
<1>11. ReadFits(t, c, dq_obj'[c.obj], dq_buf'[BufOf(c.obj)])
  <2>1. ReadFits(t, c, p, b)
    BY <1>1, <1>2, <1>3, <1>5, <1>7, Zenon DEF ReadFits, Whole
  <2>2. dq_obj'[c.obj] = p /\ dq_buf'[BufOf(c.obj)] = b
    BY <1>1, <1>5, <1>8, <1>9, Zenon DEF DeferInv, DeferType
  <2> QED
    BY <2>1, <2>2, Zenon
<1>12. OthersKept(t)
  <2>1. \A u \in DeferThreads \ {t} : Busy(dq_thr[u]) => dq_thr[u].obj # x.obj
    BY <1>1, Apart, Zenon
  <2> QED
    BY <1>1, <1>7, <1>8, <1>9, <2>1 DEF OthersKept, DeferInv, DeferType
<1>13. StillOwned(t, c)
  BY <1>1, <1>7, <1>8, Zenon DEF StillOwned, DeferInv, DeferType
<1>14. /\ dq_obj' \in [Objects -> DeferObject]
       /\ dq_buf' \in [DeferThreads \cup {"jiq"} -> DeferBuffer]
       /\ dq_reads' \in Nat /\ dq_mod' = dq_mod
       /\ \A q \in Objects : dq_obj'[q].queued => dq_obj'[q].pc = "idle"
  BY <1>1, <1>7, <1>8, <1>9 DEF DeferInv, DeferType, DeferOwned
<1> QED
  BY <1>5, <1>10, <1>11, <1>12, <1>13, <1>14, ThreadStep, Zenon

\* The end of a read, which frees its data or the mutex, keeps the invariant.
LEMMA DeferEnds ==
  ASSUME DeferInv, NEW t \in DeferThreads, End(t)
  PROVE  DeferInv'
<1>1. Busy(dq_thr[t]) /\ ~Asked(dq_thr[t]) /\ dq_thr[t].pc # "idle"
  BY Zenon DEF End, DeferAt, Busy, Asked
<1>2. dq_thr' = [dq_thr EXCEPT ![t] = DeferIdle] /\ UNCHANGED <<dq_obj, dq_mod, dq_reads>>
  BY Zenon DEF End
<1>3. DeferIdle \in DeferCall /\ CallFits(t, DeferIdle, dq_mod.files) /\ ~Busy(DeferIdle)
      /\ DeferIdle.pc # "sleep"
  BY Zenon DEF DeferIdle, DeferCall, CallFits, Busy
<1>4. StillOwned(t, DeferIdle)
  BY <1>1, <1>2, Zenon DEF StillOwned
<1>5. /\ dq_obj' \in [Objects -> DeferObject] /\ dq_reads' \in Nat /\ dq_mod' = dq_mod
      /\ \A o \in Objects : dq_obj'[o].queued => dq_obj'[o].pc = "idle"
  BY <1>2, Zenon DEF DeferInv, DeferType, DeferOwned
<1>6. NoBuf \in DeferBuffer
  BY DEF NoBuf, DeferBuffer
<1>7. dq_buf' \in [DeferThreads \cup {"jiq"} -> DeferBuffer]
  BY <1>6, Zenon DEF End, jit_data_free, DeferInv, DeferType
<1>8. OthersKept(t)
  <2>1. ASSUME NEW u \in DeferThreads \ {t}, Busy(dq_thr[u])
        PROVE  /\ dq_buf'[BufOf(dq_thr[u].obj)] = dq_buf[BufOf(dq_thr[u].obj)]
               /\ dq_thr[u].obj # u => dq_lock' = dq_lock
    <3>1. CASE dq_thr[t].obj = t /\ jit_data_free(t) /\ UNCHANGED dq_lock
      <4>1. BufOf(dq_thr[t].obj) = t /\ BufOf(dq_thr[u].obj) # t
        BY <1>1, <2>1, <3>1, DeferParts, Apart, Zenon
      <4>2. BufOf(dq_thr[u].obj) \in DeferThreads \cup {"jiq"}
        BY <2>1, DeferParts, Zenon DEF Busy
      <4> QED
        BY <3>1, <4>1, <4>2, Zenon DEF jit_data_free, DeferInv, DeferType
    <3>2. CASE dq_thr[t].obj # t /\ dq_lock' = "free" /\ UNCHANGED dq_buf
      <4>1. dq_lock = t /\ (dq_thr[u].obj # u => dq_lock = u)
        BY <1>1, <2>1, <3>2, Zenon DEF DeferInv, DeferPlaces
      <4> QED
        BY <3>2, <4>1, Zenon
    <3> QED
      BY <3>1, <3>2, Zenon DEF End
  <2> QED
    BY <1>2, <2>1, Zenon DEF OthersKept
<1> QED
  BY <1>2, <1>3, <1>4, <1>5, <1>7, <1>8, ThreadStep, Zenon

\* A step of the module that leaves the calls alone keeps the invariant.
LEMMA DeferModuleKeeps ==
  ASSUME DeferInv, UNCHANGED <<dq_lock, dq_obj, dq_thr, dq_reads>>,
         NEW m \in [phase : {"none", "init", "undo", "up", "exit", "gone"}, files : 0..4],
         dq_mod' = m,
         m.phase \in {"none", "gone"} => m.files = 0,
         m.phase = "init" => m.files < 4,
         \A t \in DeferThreads : CallFits(t, dq_thr[t], m.files),
         NEW b \in DeferBuffer, b.done => dq_buf["jiq"].done,
         dq_buf' = [dq_buf EXCEPT !["jiq"] = b],
         b = dq_buf["jiq"] \/ dq_mod.files = 0
  PROVE  DeferInv'
<1>1. DeferType' /\ DeferModule'
  BY Zenon DEF DeferInv, DeferType, DeferModule
<1>2. DeferPlaces' /\ DeferOwned'
  BY ZenonT(40) DEF DeferInv, DeferPlaces, DeferOwned
<1>3. ASSUME NEW t \in DeferThreads, Busy(dq_thr[t])
      PROVE  dq_buf'[BufOf(dq_thr[t].obj)] = dq_buf[BufOf(dq_thr[t].obj)]
  <2>1. CASE dq_mod.files = 0
    <3>1. CallFits(t, dq_thr[t], 0)
      BY <2>1, Zenon DEF DeferInv, DeferPlaces
    <3>2. dq_thr[t].obj = t
      BY <1>3, <3>1, JiqNames, Zenon DEF CallFits, Busy
    <3>3. BufOf(dq_thr[t].obj) = t /\ t # "jiq"
      BY <3>2, JiqNames DEF BufOf
    <3> QED
      BY <3>3, Zenon DEF DeferInv, DeferType
  <2>2. CASE b = dq_buf["jiq"]
    BY <2>2, Zenon DEF DeferInv, DeferType
  <2> QED
    BY <2>1, <2>2, Zenon
<1>4. DeferReads'
  BY <1>3, Zenon DEF DeferInv, DeferReads
<1>5. SleeperWoken'
  <2>1. \A c \in DeferThreads \cup {"jiq"} : dq_buf'[c].done => dq_buf[c].done
    BY Zenon DEF DeferInv, DeferType
  <2> QED
    BY <2>1, SleepersKept, Zenon
<1> QED
  BY <1>1, <1>2, <1>4, <1>5, Zenon DEF DeferInv

\* The steps of the module jiq keep the invariant: remove_files leaves a file to the
\* reads in progress, and when there is no file there is no read.
LEMMA DeferModuleSteps ==
  ASSUME DeferInv, jiq_m_init \/ remove_files \/ jiq_m_exit
  PROVE  DeferInv'
<1> DEFINE Mods == [phase : {"none", "init", "undo", "up", "exit", "gone"}, files : 0..4]
<1>1. /\ dq_mod \in Mods /\ dq_mod.files \in 0..4 /\ dq_buf["jiq"] \in DeferBuffer
      /\ dq_buf = [dq_buf EXCEPT !["jiq"] = dq_buf["jiq"]]
  BY Zenon DEF DeferInv, DeferType
<1>2. \A t \in DeferThreads : CallFits(t, dq_thr[t], dq_mod.files)
  BY Zenon DEF DeferInv, DeferPlaces
<1>3. PICK n \in 0..4 : n = dq_mod.files
  BY <1>1, Zenon
<1>4. CASE jiq_m_init /\ dq_mod.phase = "none"
  <2>1. PICK m \in Mods : m = [phase |-> "init", files |-> 0]
    <3>1. 0 \in 0..4
      OBVIOUS
    <3> QED
      BY <3>1, Zenon
  <2>2. PICK b \in DeferBuffer : b = [dq_buf["jiq"] EXCEPT !.live = TRUE]
    BY <1>1, Zenon DEF DeferBuffer
  <2>3. m.phase = "init" /\ m.files = 0 /\ b.done = dq_buf["jiq"].done
    BY <1>1, <2>1, <2>2, Zenon DEF DeferBuffer
  <2>4. /\ dq_mod' = m /\ dq_buf' = [dq_buf EXCEPT !["jiq"] = b]
        /\ UNCHANGED <<dq_lock, dq_obj, dq_thr, dq_reads>>
    BY <1>4, <2>1, <2>2, Zenon DEF jiq_m_init
  <2>5. dq_mod.files = 0
    BY <1>4, Zenon DEF DeferInv, DeferModule
  <2>6. /\ m.phase \in {"none", "gone"} => m.files = 0
        /\ m.phase = "init" => m.files < 4
        /\ \A t \in DeferThreads : CallFits(t, dq_thr[t], m.files)
    BY <1>2, <2>3, <2>5
  <2> QED
    BY <2>3, <2>4, <2>5, <2>6, DeferModuleKeeps, Zenon
<1>5. CASE jiq_m_init /\ dq_mod.phase = "init"
  <2>1. n < 4
    BY <1>3, <1>5, Zenon DEF DeferInv, DeferModule
  <2>2. PICK m \in Mods : /\ m = dq_mod'
                          /\ m.phase # "none" /\ m.phase # "gone"
                          /\ m.phase = "init" => m.files < 4
                          /\ m.files \in {n, n + 1}
    <3>1. CASE dq_mod' = [dq_mod EXCEPT !.phase = "undo"]
      BY <1>1, <1>3, <3>1
    <3>2. CASE dq_mod' = [phase |-> IF dq_mod.files = Len(jiq_files) - 1 THEN "up" ELSE "init",
                          files |-> dq_mod.files + 1]
      <4>1. CASE n = 3
        BY <1>3, <3>2, <4>1, JiqNames
      <4>2. CASE n # 3
        BY <1>3, <2>1, <3>2, <4>2, JiqNames
      <4> QED
        BY <4>1, <4>2, Zenon
    <3> QED
      BY <1>5, <3>1, <3>2, Zenon DEF jiq_m_init
  <2>3. Present(n) \subseteq Present(m.files)
    BY <2>1, <2>2, JiqNames
  <2>4. \A t \in DeferThreads : CallFits(t, dq_thr[t], m.files)
    BY <1>2, <1>3, <2>3, Zenon DEF CallFits
  <2>5. UNCHANGED <<dq_lock, dq_obj, dq_thr, dq_reads>> /\ dq_buf' = dq_buf
    BY <1>5, Zenon DEF jiq_m_init
  <2>6. dq_buf' = [dq_buf EXCEPT !["jiq"] = dq_buf["jiq"]]
    BY <1>1, <2>5, Zenon
  <2> QED
    BY <1>1, <2>2, <2>4, <2>5, <2>6, DeferModuleKeeps, Zenon
<1>6. CASE remove_files
  <2>1. /\ dq_mod.phase \in {"up", "exit", "undo"} /\ n \in 1..4
        /\ \A t \in DeferThreads : dq_thr[t].file # jiq_files[n]
        /\ UNCHANGED <<dq_lock, dq_obj, dq_thr, dq_reads>> /\ dq_buf' = dq_buf
    BY <1>3, <1>6 DEF remove_files
  <2>2. PICK m \in Mods : /\ m = dq_mod' /\ m.files = n - 1
                          /\ m.phase \in {"exit", "undo"}
    <3>1. PICK ph \in {"exit", "undo"} :
            ph = IF dq_mod.phase = "up" THEN "exit" ELSE dq_mod.phase
      BY <2>1, Zenon
    <3>2. n - 1 \in 0..4
      BY <2>1
    <3>3. dq_mod' = [phase |-> ph, files |-> n - 1]
      BY <1>3, <1>6, <3>1, Zenon DEF remove_files
    <3> QED
      BY <3>2, <3>3
  <2>3. Present(n) \subseteq Present(m.files) \cup {jiq_files[n]}
    BY <2>1, <2>2, JiqNames, Zenon
  <2>4. \A t \in DeferThreads : CallFits(t, dq_thr[t], m.files)
    BY <1>2, <1>3, <2>1, <2>3, Zenon DEF CallFits
  <2>5. dq_buf' = [dq_buf EXCEPT !["jiq"] = dq_buf["jiq"]]
    BY <1>1, <2>1, Zenon
  <2> QED
    BY <1>1, <2>1, <2>2, <2>4, <2>5, DeferModuleKeeps, ZenonT(40)
<1>7. CASE jiq_m_exit
  <2>1. PICK m \in Mods : m = [dq_mod EXCEPT !.phase = "gone"]
    BY <1>1, Zenon
  <2>2. m = dq_mod' /\ m.files = dq_mod.files /\ m.phase = "gone" /\ dq_mod.files = 0
    BY <1>1, <1>7, <2>1, Zenon DEF jiq_m_exit
  <2>3. NoBuf \in DeferBuffer /\ ~NoBuf.done
    BY DEF NoBuf, DeferBuffer
  <2>4. UNCHANGED <<dq_lock, dq_thr, dq_reads>> /\ dq_buf' = [dq_buf EXCEPT !["jiq"] = NoBuf]
    BY <1>7, Zenon DEF jiq_m_exit
  <2>5. \A t \in DeferThreads : Busy(dq_thr[t]) => dq_thr[t].obj = t
    BY <1>2, <2>2, JiqNames, Zenon DEF CallFits, Busy
  <2>6. dq_obj' = dq_obj
    <3>1. ASSUME NEW f \in Jiq
          PROVE  ~dq_obj[f].queued /\ dq_obj[f] \in DeferObject
      <4>1. f \in Objects /\ dq_obj[f] \in DeferObject
        BY JiqNames, Zenon DEF DeferInv, DeferType
      <4>2. \A u \in DeferThreads : Asked(dq_thr[u]) => dq_thr[u].obj # f
        BY <2>5, JiqNames DEF Asked, Busy
      <4>3. CASE DeferThreads = {}
        BY <4>1, <4>3, Zenon DEF DeferInv, DeferOwned, Active
      <4>4. CASE DeferThreads # {}
        BY <4>1, <4>2, <4>4, NoneActive, Zenon DEF Active
      <4> QED
        BY <4>1, <4>3, <4>4, Zenon
    <3>2. \A f \in Jiq : [dq_obj[f] EXCEPT !.queued = FALSE] = dq_obj[f]
      BY <3>1, Zenon DEF DeferObject
    <3>3. CASE dq_obj' = [q \in Objects |-> IF q \in Jiq THEN [dq_obj[q] EXCEPT !.queued = FALSE]
                                                         ELSE dq_obj[q]]
      BY <3>2, <3>3, Zenon DEF DeferInv, DeferType
    <3> QED
      BY <1>7, <3>3, JiqNames DEF jiq_m_exit
  <2>7. \A t \in DeferThreads : CallFits(t, dq_thr[t], m.files)
    BY <1>2, <2>2, Zenon
  <2> QED
    BY <2>2, <2>3, <2>4, <2>6, <2>7, DeferModuleKeeps, Zenon
<1> QED
  BY <1>4, <1>5, <1>6, <1>7, Zenon DEF jiq_m_init

\* The invariant holds initially.
LEMMA DeferStarts == DeferInit => DeferInv
<1> SUFFICES ASSUME DeferInit
             PROVE  DeferInv
  BY Zenon
<1>1. /\ \A t \in DeferThreads : dq_thr[t] = DeferIdle
      /\ \A o \in Objects : ~dq_obj[o].queued /\ dq_obj[o].pc = "idle"
      /\ dq_mod.phase = "none" /\ dq_mod.files = 0
  BY Zenon DEF DeferInit
<1>2. NoBuf \in DeferBuffer /\ DeferIdle \in DeferCall
  BY DEF NoBuf, DeferBuffer, DeferIdle, DeferCall
<1>3. [queued |-> FALSE, pc |-> "idle", read |-> 0] \in DeferObject
  BY Zenon DEF DeferObject
<1>4. DeferType /\ DeferModule
  BY <1>1, <1>2, <1>3 DEF DeferInit, DeferType, DeferModule
<1>5. DeferIdle.pc = "idle" /\ DeferIdle.obj = "none" /\ DeferIdle.file = "none"
  BY Zenon DEF DeferIdle
<1>6. DeferPlaces /\ DeferReads /\ SleeperWoken
  BY <1>1, <1>5, Zenon DEF DeferPlaces, DeferReads, SleeperWoken, CallFits, Busy, DeferAt
<1>7. DeferOwned
  BY <1>1, Zenon DEF DeferOwned, Active
<1> QED
  BY <1>4, <1>6, <1>7, Zenon DEF DeferInv

\* Every step keeps the invariant.
LEMMA DeferSteps ==
  ASSUME DeferInv, [DeferNext]_dqVars
  PROVE  DeferInv'
<1>1. CASE UNCHANGED dqVars
  <2>1. UNCHANGED <<dq_lock, dq_obj, dq_buf, dq_thr, dq_mod, dq_reads>>
    BY <1>1, Zenon DEF dqVars
  <2>2. DeferType' /\ DeferModule'
    BY <2>1, Zenon DEF DeferInv, DeferType, DeferModule
  <2>3. DeferPlaces'
    BY <2>1, Zenon DEF DeferInv, DeferPlaces
  <2>4. DeferOwned'
    BY <2>1, Zenon DEF DeferInv, DeferOwned
  <2>5. DeferReads'
    BY <2>1, Zenon DEF DeferInv, DeferReads
  <2>6. SleeperWoken'
    BY <2>1, Zenon DEF DeferInv, SleeperWoken, DeferAt
  <2> QED
    BY <2>2, <2>3, <2>4, <2>5, <2>6, Zenon DEF DeferInv
<1>2. CASE \E o \in Objects : DeferRun(o) \/ Requeue(o) \/ jiq_done(o)
  BY <1>2, DeferMoves, DeferDone, Zenon
<1>3. CASE jiq_print_wq \/ jiq_print_wq_delayed \/ jiq_timedout \/ jiq_print_bh
  BY <1>3, DeferPrints
<1>4. ASSUME NEW t \in DeferThreads,
             \/ jit_timer(t) \/ jit_bh(t) \/ jit_timer_fn(t) \/ jit_bh_fn(t)
             \/ jiq_read_wq(t) \/ jiq_read_wq_delayed(t) \/ jiq_read_run_timer(t) \/ jiq_read_bh(t)
             \/ jiq_reset(t) \/ Queue(t) \/ DeferWait(t) \/ Show(t) \/ Stop(t) \/ End(t)
      PROVE  DeferInv'
  <2>1. CASE jit_timer_fn(t) \/ jit_bh_fn(t)
    BY <2>1, DeferPrints, Zenon
  <2> QED
    BY <1>4, <2>1, DeferBegins, DeferResets, DeferQueues, DeferWaits, DeferShows, DeferStops,
       DeferEnds
<1>5. CASE jiq_m_init \/ remove_files \/ jiq_m_exit
  BY <1>5, DeferModuleSteps, Zenon
<1> QED
  BY <1>1, <1>2, <1>3, <1>4, <1>5, Zenon DEF DeferNext, DeferFinished

\* For any number of threads, reads and lines, a reader asleep on a complete buffer
\* has been or is being woken (jiq_done publishes before it wakes, and the wait loop
\* queues itself before it tests).
THEOREM DeferredWake == DeferSpec => []SleeperWoken
<1>1. DeferInv => SleeperWoken
  BY Zenon DEF DeferInv
<1> QED
  BY <1>1, DeferStarts, DeferSteps, PTL DEF DeferSpec

\* For any number of threads, reads and lines, a timer or work item that is queued or
\* running belongs to a read in progress, and a read shows the whole of its own output.
THEOREM DeferredOutput == DeferSpec => []OutputOwned
<1>1. ASSUME DeferInv
      PROVE  OutputOwned
  <2>1. ASSUME NEW o \in Objects, Active(dq_obj[o])
        PROVE  /\ dq_buf[BufOf(o)].live
               /\ \E t \in DeferThreads : dq_thr[t].obj = o /\ dq_thr[t].read = dq_obj[o].read
    <3>1. PICK t \in DeferThreads :
            Asked(dq_thr[t]) /\ dq_thr[t].obj = o /\ dq_thr[t].read = dq_obj[o].read
      BY <1>1, <2>1, Zenon DEF DeferInv, DeferOwned
    <3>2. ReadFits(t, dq_thr[t], dq_obj[o], dq_buf[BufOf(o)])
      BY <1>1, <2>1, <3>1, OwnerFits, Zenon
    <3>3. dq_buf[BufOf(o)].live
      BY <3>2, Zenon DEF ReadFits
    <3> QED
      BY <3>1, <3>3, Zenon
  <2>2. ASSUME NEW t \in DeferThreads, dq_thr[t].pc = "show"
        PROVE  dq_buf[BufOf(dq_thr[t].obj)].lines = [i \in 1..Whole(t, dq_thr[t]) |-> dq_thr[t].read]
    <3> DEFINE b == dq_buf[BufOf(dq_thr[t].obj)]
    <3>1. ReadFits(t, dq_thr[t], dq_obj[dq_thr[t].obj], b)
      BY <1>1, <2>2, Zenon DEF DeferInv, DeferReads, Busy
    <3>2. PICK s \in Seq(Nat) : s = b.lines
      BY <1>1, <2>2, DeferParts, Zenon DEF DeferBuffer
    <3>3. /\ Len(s) = Whole(t, dq_thr[t]) /\ \A i \in 1..Len(s) : s[i] = dq_thr[t].read
      BY <2>2, <3>1, <3>2, Zenon DEF ReadFits
    <3>4. s = [i \in 1..Len(s) |-> s[i]]
      OBVIOUS
    <3> QED
      BY <3>2, <3>3, <3>4, Zenon
  <2> QED
    BY <2>1, <2>2, Zenon DEF OutputOwned, Active, Whole, DeferAt
<1> QED
  BY <1>1, DeferStarts, DeferSteps, PTL DEF DeferSpec

-------------------------------------------------------------------------------
(***************************************************************************)
(* 26_msi_interrupt: for any of the three ways to interrupt, any number of *)
(* raises and any INT_STATUS bits left set by an earlier driver.           *)
(***************************************************************************)
\* What the device has signalled is what is pending, and INTA# follows it.
Signalled ==
    /\ irq_sent = int_status \cap int_mask
    /\ line <=> mode = "INTX" /\ irq_sent # {}

\* How far msi_probe and msi_remove have come.
Phase ==
    /\ int_mask = IF rpc \in {"bound", "quiesce"} THEN INT_ALL ELSE {}
    /\ rpc \in {"mask", "clear"} =>
        nirq = 0 /\ \A b \in INT_ALL : raised[b] = 0 /\ count[b] = 0
    /\ rpc \in {"mask", "clear", "request", "unmask"} => msgs = {}
    /\ rpc \in {"request", "unmask"} => int_status = {}
    /\ rpc = "request" => nirq < nvec
    /\ rpc \in {"unmask", "bound", "quiesce"} => nirq = nvec

\* What a handler is going to clear is its own vector's and still set: no
\* other handler clears it first, and with MSI-X a message stands for a bit
\* that is set and that no handler is about to clear.
Hands ==
    /\ \A v \in Vectors :
        /\ hpc[v] = "read" => mode # "MSIX"
        /\ hpc[v] \in {"ack", "count"} => \A b \in hstat[v] : Vector(b) = v
        /\ hpc[v] = "ack" => hstat[v] \subseteq int_status
    /\ mode = "MSIX" =>
        \A b \in INT_ALL :
            /\ Vector(b) \in msgs => b \in int_status /\ hpc[Vector(b)] # "ack"
            /\ hpc[Vector(b)] = "ack" => b \in hstat[Vector(b)]

IInv ==
    /\ TypeOK
    /\ Signalled
    /\ Phase
    /\ Hands
    /\ CountedOnce
    /\ NotSwallowed
    /\ QuietRemove

\* A register write leaves the interrupt registers of their types and
\* Signalled true.
LEMMA UpdateIrq ==
    ASSUME IrqTypeOK, NEW s \in SUBSET INT_ALL, NEW m \in SUBSET INT_ALL,
           ldd_pcie_update_irq(s, m)
    PROVE  IrqTypeOK' /\ Signalled' /\ mode' = mode
<1>1. \A b \in INT_ALL : Vector(b) \in Vectors
      BY DEF Vector, Vectors
<1>2. (msgs \subseteq Vectors)'
      BY <1>1 DEF IrqTypeOK, ldd_pcie_update_irq
<1>3. Signalled' /\ mode' = mode
      BY Zenon DEF Signalled, ldd_pcie_update_irq
<1>4. (int_status \subseteq INT_ALL /\ int_mask \subseteq INT_ALL /\ irq_sent \subseteq INT_ALL)'
      BY Zenon DEF ldd_pcie_update_irq
<1>5. (line \in BOOLEAN)'
      BY Zenon DEF ldd_pcie_update_irq
<1> QED BY <1>2, <1>3, <1>4, <1>5, Zenon DEF IrqTypeOK

\* With MSI-X each event has a vector of its own, else all share vector 0.
LEMMA OwnVector ==
    /\ \A b \in INT_ALL : Vector(b) \in Vectors
    /\ mode = "MSIX" => \A b, c \in INT_ALL : Vector(b) = Vector(c) => b = c
    /\ mode # "MSIX" => \A b \in INT_ALL : Vector(b) = 0
    /\ mode' = mode => \A b : Vector(b)' = Vector(b)
    /\ mode' = mode => nvec' = nvec
BY DEF Vector, Vectors, INT_ALL, nvec

\* Writing sysfs raise.
LEMMA RaiseStep ==
    ASSUME IInv, NEW bits \in SUBSET INT_ALL, raise_store(bits)
    PROVE  IInv'
<1> DEFINE new == int_status \cup (bits \cap INT_ALL)
<1> USE DEF IInv, TypeOK
<1>1. IrqTypeOK' /\ Signalled' /\ mode' = mode
      BY UpdateIrq, Zenon DEF raise_store, WriteIntRaise, IrqTypeOK
<1>2. TypeOK'
      BY <1>1, MsiAssumption DEF raise_store, nvec
<1>3. /\ rpc = "bound" /\ int_mask = INT_ALL /\ int_mask' = int_mask
      /\ int_status' = new /\ irq_sent = int_status
      /\ IF mode = "INTX" THEN msgs' = msgs
         ELSE msgs' = msgs \cup {Vector(b) : b \in bits \ int_status}
      /\ UNCHANGED <<count, nirq, hpc, hstat, rpc>>
      BY Zenon DEF raise_store, WriteIntRaise, ldd_pcie_update_irq, Phase, Signalled, IrqTypeOK
<1>4. Phase'
      BY <1>1, <1>3, Zenon DEF Phase, nvec
<1>5. Hands'
  <2>1. ASSUME NEW v \in Vectors
        PROVE  /\ hpc[v] = "read" => mode # "MSIX"
               /\ hpc[v] \in {"ack", "count"} => \A b \in hstat[v] : Vector(b) = v
               /\ hpc[v] = "ack" => hstat[v] \subseteq int_status'
        BY <1>3, Zenon DEF Hands
  <2>2. ASSUME mode = "MSIX", NEW b \in INT_ALL
        PROVE  /\ Vector(b) \in msgs' => b \in int_status' /\ hpc[Vector(b)] # "ack"
               /\ hpc[Vector(b)] = "ack" => b \in hstat[Vector(b)]
    <3>1. Vector(b) \in msgs' => Vector(b) \in msgs \/ b \in bits \ int_status
          BY <1>3, <2>2, OwnVector
    <3> QED BY <1>3, <2>2, <3>1, OwnVector, Zenon DEF Hands
  <2>3. \A b : Vector(b)' = Vector(b)
        BY <1>1, OwnVector, Zenon
  <2> QED BY <1>1, <1>3, <2>1, <2>2, <2>3, ZenonT(30) DEF Hands
<1>6. CountedOnce'
      BY <1>1, <1>3 DEF CountedOnce, raise_store
<1>7. NotSwallowed'
      BY <1>1, <1>3 DEF NotSwallowed, Vector, Vectors, Signalled
<1>8. QuietRemove'
      BY <1>3, Zenon DEF QuietRemove
<1> QED BY <1>1, <1>2, <1>4, <1>5, <1>6, <1>7, <1>8, Zenon

\* The CPU calls a handler, for the device or for another one on the line.
LEMMA CallStep ==
    ASSUME IInv, NEW v \in Vectors, Interrupt(v) \/ (v = 0 /\ SharedInterrupt)
    PROVE  IInv'
<1> USE DEF IInv, TypeOK
<1> DEFINE own == {b \in INT_ALL : Vector(b) = v}
<1>1. /\ UNCHANGED <<mode, int_status, int_mask, irq_sent, line, count, nirq, rpc, raised, calls>>
      /\ v < nirq /\ hpc[v] = "idle"
      /\ msgs' \in SUBSET msgs /\ \A u \in Vectors : u # v /\ u \in msgs => u \in msgs'
      BY DEF Interrupt, SharedInterrupt, TakeInterrupt, intRegs
<1>2. PICK l \in {"ack", "read"}, h \in SUBSET INT_ALL :
          /\ hpc' = [hpc EXCEPT ![v] = l] /\ hstat' = [hstat EXCEPT ![v] = h]
          /\ l = "read" => mode # "MSIX"
          /\ l = "ack" => mode = "MSIX" /\ v \in msgs /\ v \notin msgs' /\ h = own
      <2>1. CASE Interrupt(v)
        <3>1. own \in SUBSET INT_ALL /\ {} \in SUBSET INT_ALL
              BY Zenon
        <3>2. CASE mode = "MSIX"
              BY <2>1, <3>1, <3>2, Zenon DEF Interrupt, TakeInterrupt
        <3>3. CASE mode # "MSIX"
              BY <2>1, <3>1, <3>3, Zenon DEF Interrupt
        <3> QED BY <3>2, <3>3
      <2>2. CASE SharedInterrupt /\ v = 0
        <3>1. hstat' = [hstat EXCEPT ![v] = hstat[v]] /\ hstat[v] \in SUBSET INT_ALL
              BY <2>2, Zenon DEF SharedInterrupt
        <3>2. hpc' = [hpc EXCEPT ![v] = "read"] /\ mode # "MSIX"
              BY <2>2, Zenon DEF SharedInterrupt
        <3> QED BY <3>1, <3>2, Zenon
      <2> QED BY <2>1, <2>2, Zenon
<1>3. TypeOK'
  <2>1. IrqTypeOK'
        BY <1>1, Zenon DEF IrqTypeOK
  <2> QED BY <1>1, <1>2, <2>1, Zenon DEF nvec
<1>4. Signalled' /\ Phase'
      BY <1>1, Zenon DEF Signalled, Phase, nvec
<1>5. Hands'
  <2>1. l = "ack" => own \subseteq int_status
        BY <1>2, Zenon DEF Hands
  <2> QED BY <1>1, <1>2, <2>1, OwnVector DEF Hands
<1>6. CountedOnce'
      BY <1>1, <1>2, Zenon DEF CountedOnce
<1>7. NotSwallowed'
      BY <1>1, <1>2, OwnVector DEF NotSwallowed, IrqTypeOK
<1>8. QuietRemove'
      BY <1>1, <1>2 DEF QuietRemove, IrqTypeOK, Vectors, nvec
<1> QED BY <1>3, <1>4, <1>5, <1>6, <1>7, <1>8, Zenon

\* msi_handler reads INT_STATUS.
LEMMA ReadStep ==
    ASSUME IInv, NEW v \in Vectors, HandlerRead(v)
    PROVE  IInv'
<1> USE DEF IInv, TypeOK
<1>1. /\ hpc[v] = "read" /\ v = 0 /\ mode # "MSIX"
      BY DEF HandlerRead, Hands, QuietRemove, nvec, Vectors
<1>2. /\ UNCHANGED <<mode, int_status, int_mask, irq_sent, line, msgs, count, nirq, rpc, raised, calls>>
      BY Zenon DEF HandlerRead, intRegs
<1>3. PICK l \in {"ack", "idle"} :
          /\ hpc' = [hpc EXCEPT ![v] = l] /\ hstat' = [hstat EXCEPT ![v] = int_status]
          /\ l = "idle" => int_status = {}
      BY Zenon DEF HandlerRead
<1>4. TypeOK'
  <2>1. IrqTypeOK'
        BY <1>2, Zenon DEF IrqTypeOK
  <2> QED BY <1>2, <1>3, <2>1, Zenon DEF nvec, IrqTypeOK
<1>5. Signalled' /\ Phase'
      BY <1>2, Zenon DEF Signalled, Phase, nvec
<1>6. Hands'
      BY <1>1, <1>2, <1>3, OwnVector DEF Hands, IrqTypeOK
<1>7. CountedOnce'
      BY <1>1, <1>2, <1>3, Zenon DEF CountedOnce
<1>8. NotSwallowed'
      BY <1>1, <1>2, <1>3, OwnVector, Zenon DEF NotSwallowed, IrqTypeOK
<1>9. QuietRemove'
      BY <1>1, <1>2, <1>3, Zenon DEF QuietRemove, IrqTypeOK, Vectors, nvec
<1> QED BY <1>4, <1>5, <1>6, <1>7, <1>8, <1>9, Zenon

\* A handler clears the events it handles.
LEMMA AckStep ==
    ASSUME IInv, NEW v \in Vectors, HandlerAck(v)
    PROVE  IInv'
<1> USE DEF IInv, TypeOK
<1>1. IrqTypeOK' /\ Signalled' /\ mode' = mode
      BY UpdateIrq, Zenon DEF HandlerAck, WriteIntStatus, IrqTypeOK
<1>2. /\ hpc[v] = "ack" /\ hstat[v] \subseteq int_status
      /\ \A b \in hstat[v] : Vector(b) = v
      BY Zenon DEF HandlerAck, Hands
<1>3. /\ int_status' = int_status \ hstat[v] /\ int_mask' = int_mask
      /\ hpc' = [hpc EXCEPT ![v] = "count"]
      /\ UNCHANGED <<count, nirq, hstat, rpc, raised, calls>>
      BY Zenon DEF HandlerAck, WriteIntStatus, ldd_pcie_update_irq
<1>4. msgs' = msgs
      BY Zenon DEF HandlerAck, WriteIntStatus, ldd_pcie_update_irq, Signalled
<1>5. TypeOK'
      BY <1>1, <1>3, OwnVector, Zenon
<1>6. Phase'
      BY <1>1, <1>3, <1>4, OwnVector, Zenon DEF Phase
<1>7. Hands'
      BY <1>1, <1>2, <1>3, <1>4, OwnVector DEF Hands
<1>8. CountedOnce'
  <2>1. \A b \in hstat[v] : ~\E u \in Vectors : hpc[u] = "count" /\ b \in hstat[u]
        BY <1>2, Zenon DEF Hands
  <2> QED BY <1>2, <1>3, <2>1 DEF CountedOnce
<1>9. NotSwallowed'
      BY <1>1, <1>2, <1>3, <1>4, OwnVector DEF NotSwallowed, IrqTypeOK, Signalled, Phase
<1>10. QuietRemove'
       BY <1>1, <1>2, <1>3, Zenon DEF QuietRemove, Phase, Signalled
<1> QED BY <1>1, <1>5, <1>6, <1>7, <1>8, <1>9, <1>10, Zenon

\* A handler counts the events it has cleared.
LEMMA CountStep ==
    ASSUME IInv, NEW v \in Vectors, count_events(v)
    PROVE  IInv'
<1> USE DEF IInv, TypeOK
<1>1. /\ UNCHANGED <<mode, int_status, int_mask, irq_sent, line, msgs, nirq, rpc, raised, calls>>
      /\ hpc[v] = "count" /\ hpc' = [hpc EXCEPT ![v] = "idle"]
      /\ hstat' = [hstat EXCEPT ![v] = {}]
      /\ count' = [b \in INT_ALL |-> count[b] + IF b \in hstat[v] THEN 1 ELSE 0]
      BY Zenon DEF count_events, intRegs
<1>2. TypeOK'
  <2>1. IrqTypeOK'
        BY <1>1, Zenon DEF IrqTypeOK
  <2> QED BY <1>1, <2>1, OwnVector
<1>3. Signalled' /\ Phase'
  <2>1. rpc \notin {"mask", "clear"}
        BY <1>1 DEF Phase, QuietRemove, Vectors
  <2> QED BY <1>1, <2>1, OwnVector, Zenon DEF Signalled, Phase
<1>4. Hands'
      BY <1>1, OwnVector DEF Hands
<1>5. CountedOnce'
  <2>1. \A b \in hstat[v] : \A u \in Vectors :
            u # v => ~(hpc[u] = "count" /\ b \in hstat[u])
        BY <1>1, Zenon DEF Hands
  <2> QED BY <1>1, <2>1 DEF CountedOnce
<1>6. NotSwallowed'
      BY <1>1, OwnVector DEF NotSwallowed, IrqTypeOK
<1>7. QuietRemove'
      BY <1>1, Zenon DEF QuietRemove, IrqTypeOK
<1> QED BY <1>2, <1>3, <1>4, <1>5, <1>6, <1>7, Zenon

\* The register writes of msi_probe and msi_remove.
LEMMA RegisterStep ==
    ASSUME IInv, ProbeMask \/ ProbeClear \/ ProbeUnmask \/ RemoveMask
    PROVE  IInv'
<1> USE DEF IInv, TypeOK
<1>1. IrqTypeOK' /\ Signalled' /\ mode' = mode
      BY UpdateIrq, Zenon DEF ProbeMask, ProbeClear, ProbeUnmask, RemoveMask, WriteIntStatus,
                       WriteIntMask, IrqTypeOK
<1>2. /\ int_status' = IF rpc = "clear" THEN {} ELSE int_status
      /\ int_mask' = IF rpc = "unmask" THEN INT_ALL ELSE {}
      /\ msgs' = msgs
      /\ \/ rpc = "mask" /\ rpc' = "clear"
         \/ rpc = "clear" /\ rpc' = "request"
         \/ rpc = "unmask" /\ rpc' = "bound"
         \/ rpc = "quiesce" /\ rpc' = "free"
      /\ UNCHANGED <<count, nirq, hpc, hstat, raised, calls>>
      BY ZenonT(40)
      DEF ProbeMask, ProbeClear, ProbeUnmask, RemoveMask, WriteIntStatus, WriteIntMask,
             ldd_pcie_update_irq, Phase, IrqTypeOK
<1>3. rpc = "clear" => \A v \in Vectors : hpc[v] = "idle"
      BY DEF Phase, QuietRemove, Vectors
<1>4. TypeOK'
      BY <1>1, <1>2, OwnVector, Zenon DEF RPC
<1>5. Phase'
      BY <1>1, <1>2, OwnVector DEF Phase, nvec
<1>6. Hands'
      BY <1>1, <1>2, <1>3, OwnVector DEF Hands, Phase
<1>7. CountedOnce'
      BY <1>2, <1>3 DEF CountedOnce, Phase
<1>8. NotSwallowed'
      BY <1>2, Zenon DEF NotSwallowed, Phase
<1>9. QuietRemove'
      BY <1>1, <1>2, Zenon DEF QuietRemove, Signalled, Phase
<1> QED BY <1>1, <1>4, <1>5, <1>6, <1>7, <1>8, <1>9, Zenon

\* Requesting and freeing the vectors, and the removal of the sysfs files.
LEMMA VectorStep ==
    ASSUME IInv, request_irq \/ RemoveFiles \/ free_irqs
    PROVE  IInv'
<1> USE DEF IInv, TypeOK
<1>1. /\ UNCHANGED <<mode, int_status, int_mask, irq_sent, line, msgs>>
      /\ UNCHANGED <<count, hpc, hstat, raised, calls>>
      BY Zenon DEF request_irq, RemoveFiles, free_irqs, intRegs
<1>2. /\ rpc' \in RPC \ {"mask", "clear"}
      /\ rpc \in {"request", "bound", "free"}
      /\ rpc' = "bound" => FALSE
      /\ rpc = "request" => rpc' \in {"request", "unmask", "free"}
      /\ rpc = "bound" => rpc' = "quiesce" /\ nirq' = nirq
      /\ rpc = "free" => rpc' \in {"free", "gone"}
      /\ rpc' = "unmask" => nirq' = nvec
      /\ rpc' = "request" => nirq' # nvec
      /\ \/ nirq' = nirq
         \/ nirq' = nirq + 1 /\ rpc = "request"
         \/ nirq > 0 /\ nirq' = nirq - 1 /\ hpc[nirq'] = "idle" /\ rpc = "free"
      BY Zenon DEF request_irq, RemoveFiles, free_irqs, RPC, nvec, Phase
<1>3. TypeOK'
  <2>1. IrqTypeOK'
        BY <1>1, Zenon DEF IrqTypeOK
  <2>2. (nirq \in 0..nvec)'
        BY <1>1, <1>2, OwnVector DEF Phase, nvec
  <2> QED BY <1>1, <1>2, <2>1, <2>2, Zenon
<1>4. Signalled' /\ Phase'
  <2>1. (rpc = "request" => nirq < nvec)'
        BY <1>1, <1>2, <1>3, OwnVector DEF Phase, nvec
  <2> QED BY <1>1, <1>2, <2>1, OwnVector, Zenon DEF Signalled, Phase
<1>5. Hands'
      BY <1>1, OwnVector DEF Hands
<1>6. CountedOnce'
      BY <1>1, <1>2, Zenon DEF CountedOnce
<1>7. NotSwallowed'
      BY <1>2, Zenon DEF NotSwallowed
<1>8. QuietRemove'
  <2>1. \A v \in Vectors : v >= nirq' => hpc[v] = "idle"
        BY <1>2 DEF QuietRemove, Vectors, nvec
  <2>2. rpc' \in {"free", "gone"} => int_mask = {} /\ ~line
        BY <1>2, Zenon DEF Phase, Signalled
  <2> QED BY <1>1, <2>1, <2>2, Zenon
          DEF QuietRemove
<1> QED BY <1>3, <1>4, <1>5, <1>6, <1>7, <1>8, Zenon

\* The invariant holds when msi_probe starts.
LEMMA InitInductive == Init => IInv
<1> SUFFICES ASSUME Init PROVE IInv
    BY Zenon
<1> USE IrqAssumption, MsiAssumption DEF Init, IrqInit
<1>1. TypeOK
  <2>1. line \in BOOLEAN
        BY Zenon
  <2>2. /\ mode \in Modes
        /\ int_status \subseteq INT_ALL /\ int_mask \subseteq INT_ALL
        /\ irq_sent \subseteq INT_ALL /\ msgs \subseteq Vectors
        BY Zenon
  <2>3. IrqTypeOK
        BY <2>1, <2>2, Zenon DEF IrqTypeOK
  <2> QED BY <2>3 DEF TypeOK, nvec, RPC
<1>2. Signalled /\ Phase
      BY Zenon DEF Signalled, Phase
<1>3. Hands
      BY DEF Hands, Vector, Vectors
<1>4. CountedOnce /\ NotSwallowed /\ QuietRemove
      BY Zenon DEF CountedOnce, NotSwallowed, QuietRemove
<1> QED BY <1>1, <1>2, <1>3, <1>4, Zenon DEF IInv

\* Every step of the device, the handlers, the user and the driver core
\* keeps the invariant.
LEMMA StepInductive == IInv /\ [Next]_vars => IInv'
<1> SUFFICES ASSUME IInv, [Next]_vars PROVE IInv'
    BY Zenon
<1>1. CASE UNCHANGED vars
      BY <1>1, OwnVector
      DEF vars, intRegs, IInv, TypeOK, IrqTypeOK,
          Signalled, Phase, Hands, CountedOnce, NotSwallowed, QuietRemove
<1>2. CASE \E bits \in SUBSET INT_ALL \ {{}} : raise_store(bits)
      BY <1>2, RaiseStep, Zenon
<1>3. CASE SharedInterrupt
      BY <1>3, CallStep DEF Vectors
<1>4. CASE \E v \in Vectors : Interrupt(v) \/ Handler(v)
      BY <1>4, CallStep, ReadStep, AckStep, CountStep, Zenon DEF Handler
<1>5. CASE msi_probe \/ RemoveFiles \/ msi_remove
      BY <1>5, RegisterStep, VectorStep, Zenon DEF msi_probe, msi_remove
<1> QED BY <1>1, <1>2, <1>3, <1>4, <1>5, Zenon DEF Next, Finished

\* The invariant holds throughout the life of the driver.
THEOREM MsiInvariant == Spec => []IInv
BY InitInductive, StepInductive, PTL DEF Spec

\* Every event raised while the driver is bound is counted once, by
\* msi_vec_handler or msi_handler, for any number of raises: count_events
\* lags behind the raises by what is set or in the hands of one handler.
THEOREM EventsCountedOnce == Spec => []CountedOnce
<1>1. IInv => CountedOnce
      BY Zenon DEF IInv
<1> QED BY <1>1, MsiInvariant, PTL

\* No bit of INT_STATUS is left set with nobody to clear it, so no later
\* event of its kind goes without an interrupt.
THEOREM NothingSwallowed == Spec => []NotSwallowed
<1>1. IInv => NotSwallowed
      BY Zenon DEF IInv
<1> QED BY <1>1, MsiInvariant, PTL

\* msi_remove, and a failed msi_probe, free a vector only once the device is
\* quiet and the vector's handler has ended.
THEOREM RemovesQuietly == Spec => []QuietRemove
<1>1. IInv => QuietRemove
      BY Zenon DEF IInv
<1> QED BY <1>1, MsiInvariant, PTL
=============================================================================
