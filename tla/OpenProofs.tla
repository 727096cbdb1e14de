---------------------------- MODULE OpenProofs ------------------------------
(***************************************************************************)
(* Proofs about two drivers that keep a device running while a file is     *)
(* open: 21_usb_skel (module UsbSkel), for any number of files, opens,     *)
(* writes and ticks, and 31_tty (module Tty), for any number of files,     *)
(* opens, closes and hangups.                                              *)
(***************************************************************************)
EXTENDS UsbSkel, Tty, FiniteSetTheorems, TLAPS

One(b) == IF b THEN 1 ELSE 0

\* What the steps below rely on about the subsets of a set F of files: they are
\* finite, and taking out an element makes one less of them.  Lemma Counts shows
\* it, at the end, for every finite set.
Counting(F) ==
  /\ \A S \in SUBSET F : Cardinality(S) \in Nat /\ (Cardinality(S) = 0 <=> S = {})
  /\ \A S \in SUBSET F, f \in F : Cardinality(S) = Cardinality(S \ {f}) + One(f \in S)

-------------------------------------------------------------------------------
(***************************************************************************)
(* 21_usb_skel.                                                            *)
(***************************************************************************)
\* Where a thread is while it has the file open and is not closing it.
Inside == {"ready", "wait", "sleep", "poll", "pollsleep", "sample", "lock", "bulk", "copy"}

PC == Inside \cup {"closed", "open", "get", "kill", "put"}

\* The threads with a reference of their own, and those open_count counts.
Holding == {f \in Files : file[f].pc \in Inside \cup {"kill", "put"}}
Counted == {f \in Files : file[f].pc \in Inside \cup {"get"}}

\* skel_disconnect has not given up the reference of skel_probe yet.
Probed == disc \in {"bound", "unbind", "mark", "kill", "wake", "put"}

FileState == [pc : PC, seen : Nat, ticks : Nat, got : Nat, from : Nat]

Types ==
  /\ time \in Nat
  /\ kref \in Nat /\ open_count \in Nat /\ ticks \in Nat /\ bulk_in_buffer \in Nat
  /\ disconnected \in BOOLEAN /\ minor \in BOOLEAN /\ bound \in BOOLEAN
  /\ urb \in [hc : BOOLEAN, handler : {"none", "count", "wake", "resubmit"}]
  /\ file \in [Files -> FileState]
  /\ disc \in {"unprobed", "bound", "unbind", "mark", "kill", "wake", "put", "done"}
  /\ stamps \in Seq(Nat)
  /\ io_mutex \in Files \cup {"free"}

\* Every reference has its holder.
References ==
  /\ kref = Cardinality(Holding) + One(Probed)
  /\ open_count = Cardinality(Counted)
  /\ disc = "unprobed" => kref = 0
  /\ life = IF disc = "unprobed" THEN "none" ELSE IF kref = 0 THEN "freed" ELSE "live"

\* How far skel_disconnect has come, and what the calls may rely on.
Stage ==
  /\ minor <=> disc \in {"bound", "unbind"}
  /\ bound => disc \in {"unprobed", "bound", "done"}
  /\ disconnected => disc \in {"kill", "wake", "put", "done"}
  /\ disc \in {"kill", "wake", "put"} => disconnected
  /\ killers = {f \in Files : file[f].pc = "kill"}
                  \cup (IF disc = "kill" THEN {"disc"} ELSE {})
  /\ \A f \in Files :
       /\ file[f].pc \in {"open", "get"} => minor
       /\ io_mutex = f <=> file[f].pc \in {"bulk", "copy", "kill"}

\* The URB is in use for an open file, for a close that waits for it, or
\* while skel_disconnect waits for it.
UrbInUse ==
  /\ urb.hc => urb.handler = "none" /\ disc \in {"bound", "unbind"}
  /\ ~UrbIdle => /\ disc \in {"bound", "unbind", "mark", "kill"}
                 /\ open_count = 0 => disc = "kill" \/ \E f \in Files : file[f].pc = "kill"

\* The n-th stamp is older than any time read after tick n was counted.
Stamped ==
  /\ Len(stamps) = ticks + One(urb.handler = "count")
  /\ \A i \in 1..Len(stamps) : stamps[i] <= time
  /\ \A f \in Files :
       /\ file[f].ticks <= ticks /\ file[f].from <= ticks
       /\ file[f].pc = "copy" /\ file[f].ticks > 0 => bulk_in_buffer >= stamps[file[f].ticks]

IInv == Types /\ References /\ Stage /\ UrbInUse /\ Stamped /\ ReadCurrent

-------------------------------------------------------------------------------
(* The two counters and the sets they count. *)

\* A step of one thread changes the counters by what that thread does.
LEMMA OneMoves ==
  ASSUME Counting(Files), NEW f \in Files, \A g \in Files \ {f} : file'[g].pc = file[g].pc
  PROVE  /\ Cardinality(Holding) \in Nat /\ Cardinality(Holding') \in Nat
         /\ Cardinality(Counted) \in Nat /\ Cardinality(Counted') \in Nat
         /\ Cardinality(Holding') + One(f \in Holding)
              = Cardinality(Holding) + One(f \in Holding')
         /\ Cardinality(Counted') + One(f \in Counted)
              = Cardinality(Counted) + One(f \in Counted')
<1>1. /\ Holding \in SUBSET Files /\ Holding' \in SUBSET Files
      /\ Counted \in SUBSET Files /\ Counted' \in SUBSET Files
      /\ Holding \ {f} \in SUBSET Files /\ Counted \ {f} \in SUBSET Files
      BY Zenon DEF Holding, Counted
<1>2. Holding' \ {f} = Holding \ {f} /\ Counted' \ {f} = Counted \ {f}
      BY ZenonT(40) DEF Holding, Counted
<1>3. /\ Cardinality(Holding) = Cardinality(Holding \ {f}) + One(f \in Holding)
      /\ Cardinality(Holding') = Cardinality(Holding \ {f}) + One(f \in Holding')
      /\ Cardinality(Counted) = Cardinality(Counted \ {f}) + One(f \in Counted)
      /\ Cardinality(Counted') = Cardinality(Counted \ {f}) + One(f \in Counted')
      BY <1>1, <1>2, Zenon DEF Counting
<1>4. /\ Cardinality(Holding) \in Nat /\ Cardinality(Holding') \in Nat
      /\ Cardinality(Counted) \in Nat /\ Cardinality(Counted') \in Nat
      /\ Cardinality(Holding \ {f}) \in Nat /\ Cardinality(Counted \ {f}) \in Nat
      BY <1>1, Zenon DEF Counting
<1> QED BY <1>3, <1>4 DEF One

\* A step after which the same threads hold and count, and the device structure,
\* the bus and the URB are as before, keeps what is said about them.
LEMMA SameHolders ==
  ASSUME Types, References, Stage, UrbInUse,
         \A g \in Files : \/ file'[g].pc = file[g].pc
                          \/ file'[g].pc \in Inside /\ file[g].pc \in Inside,
         UNCHANGED <<life, kref, open_count, disconnected, minor, bound, urb, killers, disc>>
  PROVE  /\ References' /\ UrbInUse'
         /\ (\A g \in Files : io_mutex = g <=> file[g].pc \in {"bulk", "copy", "kill"})'
              => Stage'
<1>1. Holding' = Holding /\ Counted' = Counted
      BY Zenon DEF Holding, Counted, Inside
<1>2. References'
      BY <1>1, Zenon DEF References, Probed
<1>3. \A g \in Files : /\ file'[g].pc = "kill" <=> file[g].pc = "kill"
                       /\ file'[g].pc \in {"open", "get"} => file[g].pc \in {"open", "get"}
      BY Zenon DEF Inside
<1>4. UrbInUse'
      BY <1>3, Zenon DEF UrbInUse, UrbIdle
<1>5. (\A g \in Files : io_mutex = g <=> file[g].pc \in {"bulk", "copy", "kill"})'
         => Stage'
      BY <1>3 DEF Stage, Types
<1> QED BY <1>2, <1>4, <1>5, Zenon

-------------------------------------------------------------------------------
(* Calls on an open file. *)

\* A thread goes on, its file otherwise as it was.
LEMMA Moves ==
  ASSUME Types, NEW f \in Files, NEW to \in PC, Goto(f, to)
  PROVE  /\ file' \in [Files -> FileState]
         /\ file'[f].pc = to /\ file'[f].seen = file[f].seen
         /\ file'[f].ticks = file[f].ticks /\ file'[f].got = file[f].got
         /\ file'[f].from = file[f].from
         /\ \A g \in Files \ {f} : file'[g] = file[g]
BY ZenonT(40) DEF Types, FileState, Goto

\* What a step that moves no data has to show.
LEMMA StampsKept ==
  ASSUME Types, Stamped, ReadCurrent, UNCHANGED <<time, ticks, urb, stamps>>,
         \A g \in Files : /\ file'[g].ticks = file[g].ticks /\ file'[g].from = file[g].from
                          /\ file'[g].got = file[g].got
                          /\ file'[g].pc = "copy" => file[g].pc = "copy"
                                                     /\ bulk_in_buffer' = bulk_in_buffer
  PROVE  Stamped' /\ ReadCurrent'
BY Zenon DEF Stamped, ReadCurrent

\* read, poll and the signals that end them, up to the lock.
LEMMA WaitSteps ==
  ASSUME IInv, NEW f \in Files,
         \/ Call(f) \/ ReadWait(f) \/ skel_poll(f) \/ Signal(f) \/ ReadLock(f)
  PROVE  IInv'
<1> USE DEF IInv
<1>1. PICK to \in Inside \ {"copy"} :
          /\ file[f].pc \in Inside \ {"bulk", "copy"} /\ Goto(f, to)
          /\ IF to = "bulk" THEN io_mutex = "free" /\ io_mutex' = f ELSE io_mutex' = io_mutex
          /\ UNCHANGED <<usb, dev, bus, urb, killers, disc, stamps>>
      BY Zenon DEF Call, ReadWait, skel_poll, Signal, ReadLock, Inside, At
<1>2. /\ file' \in [Files -> FileState]
      /\ file'[f].pc = to /\ file'[f].ticks = file[f].ticks
      /\ file'[f].got = file[f].got /\ file'[f].from = file[f].from
      /\ \A g \in Files \ {f} : file'[g] = file[g]
      BY <1>1, Moves, Zenon DEF PC
<1>3. Types'
      BY <1>1, <1>2 DEF Types, usb, dev, bus
<1>4. References' /\ UrbInUse' /\ Stage'
  <2>1. (\A g \in Files : io_mutex = g <=> file[g].pc \in {"bulk", "copy", "kill"})'
        BY <1>1, <1>2, SkelAssumption DEF Stage, Inside
  <2> QED BY <1>1, <1>2, <2>1, SameHolders, Zenon DEF dev, bus
<1>5. Stamped' /\ ReadCurrent'
      BY <1>1, <1>2, StampsKept, Zenon DEF usb, dev
<1> QED BY <1>3, <1>4, <1>5, Zenon

\* The tick count a read starts from, the transfer and the copy.
LEMMA ReadSteps ==
  ASSUME IInv, NEW f \in Files, ReadSample(f) \/ ReadBulk(f) \/ ReadCopy(f)
  PROVE  IInv'
<1> USE DEF IInv
<1>1. CASE ReadSample(f)
  <2>1. /\ file[f].pc = "sample" /\ UNCHANGED <<usb, dev, io_mutex, bus, urb, killers, disc, stamps>>
        BY <1>1, Zenon DEF ReadSample, At
  <2>2. /\ file' \in [Files -> FileState]
        /\ file'[f].pc = "lock" /\ file'[f].ticks = ticks
        /\ file'[f].got = file[f].got /\ file'[f].from = file[f].from
        /\ \A g \in Files \ {f} : file'[g] = file[g]
        BY <1>1, ZenonT(40) DEF ReadSample, Types, FileState, PC, Inside
  <2>3. Types'
        BY <2>1, <2>2 DEF Types, usb, dev, bus
  <2>4. References' /\ UrbInUse' /\ Stage'
    <3>1. (\A g \in Files : io_mutex = g <=> file[g].pc \in {"bulk", "copy", "kill"})'
          BY <2>1, <2>2, SkelAssumption, ZenonT(40) DEF Stage
    <3> QED BY <2>1, <2>2, <3>1, SameHolders, Zenon DEF dev, bus, Inside
  <2>5. Stamped' /\ ReadCurrent'
    <3>1. \A g \in Files : /\ file'[g].ticks <= ticks /\ file'[g].from = file[g].from
                           /\ file'[g].got = file[g].got
                           /\ file'[g].pc = "copy" => file'[g] = file[g]
          BY <2>2 DEF Stamped, Types
    <3> QED BY <2>1, <3>1 DEF usb, dev, Stamped, ReadCurrent
  <2> QED BY <2>3, <2>4, <2>5, Zenon
<1>2. CASE ReadBulk(f)
  <2>1. PICK to \in {"copy", "ready"} :
            /\ file[f].pc = "bulk" /\ Goto(f, to)
            /\ bulk_in_buffer' = IF to = "copy" THEN time ELSE bulk_in_buffer
            /\ io_mutex' = IF to = "copy" THEN io_mutex ELSE "free"
            /\ UNCHANGED <<usb, life, kref, ticks, open_count, disconnected, bus, urb,
                           killers, disc, stamps>>
        BY <1>2, Zenon DEF ReadBulk, At
  <2>2. /\ file' \in [Files -> FileState]
        /\ file'[f].pc = to /\ file'[f].ticks = file[f].ticks
        /\ file'[f].got = file[f].got /\ file'[f].from = file[f].from
        /\ \A g \in Files \ {f} : file'[g] = file[g]
        BY <2>1, Moves, Zenon DEF PC, Inside
  <2>3. io_mutex = f
        BY <2>1, Zenon DEF Stage
  <2>4. Types'
        BY <2>1, <2>2 DEF Types, usb, bus
  <2>5. References' /\ UrbInUse' /\ Stage'
    <3>1. (\A g \in Files : io_mutex = g <=> file[g].pc \in {"bulk", "copy", "kill"})'
          BY <2>1, <2>2, <2>3, SkelAssumption, Zenon DEF Stage
    <3> QED BY <2>1, <2>2, <3>1, SameHolders, Zenon DEF bus, Inside
  <2>6. \A g \in Files \ {f} : file[g].pc # "copy"
        BY <2>3, Zenon DEF Stage
  <2>7. Stamped' /\ ReadCurrent'
    <3>1. file[f].ticks > 0 => stamps[file[f].ticks] <= time
      <4>1. /\ file[f].ticks \in Nat /\ ticks \in Nat /\ file[f].ticks <= ticks
            /\ Len(stamps) = ticks + One(urb.handler = "count")
            BY Zenon DEF Types, FileState, Stamped
      <4>2. file[f].ticks > 0 => file[f].ticks \in 1..Len(stamps)
            BY <4>1 DEF One
      <4> QED BY <4>2, Zenon DEF Stamped
    <3>2. ReadCurrent'
          BY <2>1, <2>2, Zenon DEF ReadCurrent
    <3>3. Stamped'
          BY <2>1, <2>2, <2>6, <3>1 DEF usb, Types, Stamped
    <3> QED BY <3>2, <3>3, Zenon
  <2> QED BY <2>4, <2>5, <2>7, Zenon
<1>3. CASE ReadCopy(f)
  <2>1. /\ file[f].pc = "copy" /\ io_mutex = f /\ io_mutex' = "free"
        /\ UNCHANGED <<usb, dev, bus, urb, killers, disc, stamps>>
        BY <1>3, Zenon DEF ReadCopy, At, Stage
  <2>2. /\ file' \in [Files -> FileState]
        /\ file'[f].pc = "ready" /\ file'[f].ticks = file[f].ticks
        /\ \/ file'[f].got = file[f].got /\ file'[f].from = file[f].from
           \/ file'[f].got = bulk_in_buffer /\ file'[f].from = file[f].ticks
        /\ \A g \in Files \ {f} : file'[g] = file[g]
    <3>1. CASE Goto(f, "ready")
          BY <3>1, Moves, Zenon DEF PC, Inside
    <3>2. CASE file' = [file EXCEPT ![f] = [@ EXCEPT !.seen = Sampled(f),
                                                     !.got = bulk_in_buffer,
                                                     !.from = Sampled(f), !.pc = "ready"]]
          BY <3>2, ZenonT(40) DEF Types, FileState, PC, Inside, Sampled
    <3> QED BY <1>3, <3>1, <3>2, Zenon DEF ReadCopy
  <2>3. Types'
        BY <2>1, <2>2 DEF Types, usb, dev, bus
  <2>4. References' /\ UrbInUse' /\ Stage'
    <3>1. (\A g \in Files : io_mutex = g <=> file[g].pc \in {"bulk", "copy", "kill"})'
          BY <2>1, <2>2, SkelAssumption, Zenon DEF Stage
    <3> QED BY <2>1, <2>2, <3>1, SameHolders, Zenon DEF dev, bus, Inside
  <2>5. Stamped' /\ ReadCurrent'
        BY <2>1, <2>2, ZenonT(40) DEF usb, dev, Types, Stamped, ReadCurrent
  <2> QED BY <2>3, <2>4, <2>5, Zenon
<1> QED BY <1>1, <1>2, <1>3, Zenon

-------------------------------------------------------------------------------
(* The device, the host controller and the write URBs. *)

\* The URB is completed, given back or submitted again.
LEMMA UrbSteps ==
  ASSUME IInv, TickReport \/ TickUnlinked \/ TickCount \/ TickResubmit
  PROVE  IInv'
<1> USE DEF IInv
<1>1. /\ UNCHANGED <<life, kref, open_count, disconnected, bulk_in_buffer, io_mutex,
                     minor, bound, killers, file, disc, time>>
      BY Zenon DEF TickReport, TickUnlinked, TickCount, TickResubmit, ldd_usb_report_tick, dev,
             bus, usb
<1>2. /\ urb' \in [hc : BOOLEAN, handler : {"none", "count", "wake", "resubmit"}]
      /\ ~UrbIdle
      /\ urb'.hc => CanSubmit /\ urb'.handler = "none"
  <2>1. CASE TickReport
    <3>1. urb.hc /\ (urb' = [hc |-> FALSE, handler |-> "count"]
                     \/ urb' = [hc |-> FALSE, handler |-> "resubmit"])
          BY <2>1, Zenon DEF TickReport
    <3>2. urb' \in [hc : BOOLEAN, handler : {"none", "count", "wake", "resubmit"}]
      <4>1. CASE urb' = [hc |-> FALSE, handler |-> "count"]
            BY <4>1, Zenon
      <4>2. CASE urb' = [hc |-> FALSE, handler |-> "resubmit"]
            BY <4>2, Zenon
      <4> QED BY <3>1, <4>1, <4>2, Zenon
    <3>3. ~urb'.hc
          BY <3>1
    <3>4. ~UrbIdle
          BY <3>1, Zenon DEF UrbIdle
    <3> QED BY <3>2, <3>3, <3>4, Zenon
  <2>2. CASE TickUnlinked
        BY <2>2, Zenon DEF TickUnlinked, Types, UrbIdle, UrbInUse
  <2>3. CASE TickCount
        BY <2>3, Zenon DEF TickCount, Types, UrbIdle, UrbInUse
  <2>4. CASE TickResubmit
    <3>1. CASE CanSubmit /\ urb' = [hc |-> TRUE, handler |-> "none"]
          BY <2>4, <3>1, Zenon DEF TickResubmit, UrbIdle
    <3>2. CASE urb' = [hc |-> FALSE, handler |-> "none"]
          BY <2>4, <3>2, Zenon DEF TickResubmit, UrbIdle
    <3> QED BY <2>4, <3>1, <3>2, Zenon DEF TickResubmit
  <2> QED BY <2>1, <2>2, <2>3, <2>4, Zenon
<1>3. \/ /\ stamps' = Append(stamps, time) /\ ticks' = ticks
         /\ urb.handler = "none" /\ urb'.handler = "count"
      \/ /\ stamps' = stamps /\ ticks' = ticks + 1
         /\ urb.handler = "count" /\ urb'.handler # "count"
      \/ /\ stamps' = stamps /\ ticks' = ticks
         /\ urb.handler # "count" /\ urb'.handler # "count"
      BY DEF TickReport, TickUnlinked, TickCount, TickResubmit, dev, Types, UrbInUse
<1>4. Types'
  <2>1. stamps \in Seq(Nat) /\ Append(stamps, time) \in Seq(Nat)
        BY DEF Types
  <2>2. ticks \in Nat /\ ticks + 1 \in Nat
        BY DEF Types
  <2>3. stamps' \in Seq(Nat) /\ ticks' \in Nat
        BY <1>3, <2>1, <2>2, ZenonT(20)
  <2> QED BY <1>1, <1>2, <2>3, Zenon DEF Types
<1>5. References' /\ Stage'
      BY <1>1, Zenon DEF References, Stage, Holding, Counted, Probed
<1>6. UrbInUse'
      BY <1>1, <1>2, Zenon DEF UrbInUse, CanSubmit, Stage, UrbIdle
<1>7. /\ ticks \in Nat /\ ticks' \in Nat /\ Len(stamps) \in Nat
      /\ ticks <= Len(stamps) /\ ticks <= ticks'
      /\ \A i \in 1..Len(stamps) : stamps'[i] = stamps[i]
      BY <1>3 DEF Types, Stamped, One
<1>8. Len(stamps') = ticks' + One(urb'.handler = "count")
      BY <1>3 DEF Types, Stamped, One
<1>9. \A i \in 1..Len(stamps') : stamps'[i] <= time
      BY <1>3 DEF Types, Stamped
<1>10. Stamped' /\ ReadCurrent'
  <2> SUFFICES ASSUME NEW f \in Files
               PROVE  /\ file[f].ticks <= ticks' /\ file[f].from <= ticks'
                      /\ file[f].pc = "copy" /\ file[f].ticks > 0
                           => bulk_in_buffer >= stamps'[file[f].ticks]
                      /\ file[f].from > 0 => file[f].got >= stamps'[file[f].from]
      BY <1>1, <1>8, <1>9, Zenon DEF Stamped, ReadCurrent
  <2>1. file[f].ticks \in Nat /\ file[f].from \in Nat
        BY Zenon DEF Types, FileState
  <2>2. file[f].ticks <= ticks /\ file[f].from <= ticks
        BY Zenon DEF Stamped
  <2>3. /\ file[f].ticks > 0 => stamps'[file[f].ticks] = stamps[file[f].ticks]
        /\ file[f].from > 0 => stamps'[file[f].from] = stamps[file[f].from]
        BY <1>7, <2>1, <2>2
  <2> QED BY <1>7, <2>1, <2>2, <2>3 DEF Stamped, ReadCurrent
<1> QED BY <1>4, <1>5, <1>6, <1>10, Zenon

\* A wake-up moves sleepers to where they test their condition again.
LEMMA WakeMoves ==
  ASSUME Types, file' = WakeUp(file)
  PROVE  /\ file' \in [Files -> FileState]
         /\ \A g \in Files :
              /\ file'[g].ticks = file[g].ticks /\ file'[g].from = file[g].from
              /\ file'[g].got = file[g].got
              /\ \/ file'[g].pc = file[g].pc
                 \/ file[g].pc \in {"sleep", "pollsleep"} /\ file'[g].pc \in {"wait", "poll"}
BY ZenonT(40) DEF Types, FileState, WakeUp, PC, Inside

\* skel_tick_complete wakes the readers.
LEMMA TickWakeStep == ASSUME IInv, TickWake PROVE IInv'
<1> USE DEF IInv
<1>1. /\ UNCHANGED <<usb, dev, io_mutex, bus, killers, disc, stamps>>
      /\ file' = WakeUp(file) /\ urb.handler = "wake"
      /\ urb' \in [hc : BOOLEAN, handler : {"none", "count", "wake", "resubmit"}]
      /\ urb'.hc = urb.hc /\ urb'.handler = "resubmit"
      BY Zenon DEF TickWake, Types
<1>2. Types'
      BY <1>1, WakeMoves, Zenon DEF Types, usb, dev, bus
<1>3. Holding' = Holding /\ Counted' = Counted
      BY <1>1, WakeMoves DEF Holding, Counted, Inside
<1>4. References' /\ Stage'
      BY <1>1, <1>3, WakeMoves DEF References, Stage, Probed, dev, bus
<1>5. UrbInUse'
      BY <1>1, WakeMoves DEF UrbInUse, UrbIdle, dev
<1>6. Stamped' /\ ReadCurrent'
      BY <1>1, WakeMoves DEF Stamped, ReadCurrent, usb, dev, One
<1> QED BY <1>2, <1>4, <1>5, <1>6, Zenon

\* The device ticks, the interval is written, files are looked up.
LEMMA BusSteps ==
  ASSUME IInv, Tick \/ skel_write_complete \/ \E f \in Files : skel_write(f)
  PROVE  IInv'
<1> USE DEF IInv
<1>1. /\ UNCHANGED <<dev, io_mutex, minor, bound, urb, killers, file, disc, stamps>>
      /\ time' \in Nat /\ time <= time'
      BY DEF Tick, skel_write_complete, skel_write, ldd_usb_tick, ldd_usb_set_interval, bus,
             usb, Types
<1>2. Types'
      BY <1>1 DEF Types, dev
<1>3. References' /\ Stage' /\ UrbInUse'
      BY <1>1, ZenonT(40) DEF References, Stage, UrbInUse, Holding, Counted, Probed, UrbIdle, dev
<1>4. Stamped' /\ ReadCurrent'
      BY <1>1 DEF Stamped, ReadCurrent, Types, dev
<1> QED BY <1>2, <1>3, <1>4, ZenonT(40)

-------------------------------------------------------------------------------
(* Opening and closing a file. *)

\* skel_open, up to the reference.
LEMMA OpenSteps ==
  ASSUME Counting(Files), IInv, NEW f \in Files, OpenFind(f) \/ OpenCount(f) \/ OpenGet(f)
  PROVE  IInv'
<1> USE DEF IInv
<1>1. /\ UNCHANGED <<life, ticks, disconnected, bulk_in_buffer, io_mutex, minor, bound,
                     killers, disc, stamps, time>>
      BY Zenon DEF OpenFind, OpenCount, OpenGet, usb, dev, bus
<1>2. CASE OpenFind(f) \/ (OpenCount(f) /\ Goto(f, "closed") /\ UNCHANGED <<open_count, urb>>)
  <2>1. PICK to \in {"open", "closed"} :
            /\ file[f].pc \in {"open", "closed"} /\ Goto(f, to)
            /\ to = "open" => minor
            /\ UNCHANGED <<kref, open_count, urb>>
    <3>1. CASE OpenFind(f)
          BY <3>1, Zenon DEF OpenFind, At, dev
    <3>2. CASE OpenCount(f) /\ Goto(f, "closed") /\ UNCHANGED <<open_count, urb>>
          BY <3>2, Zenon DEF OpenCount, At
    <3> QED BY <1>2, <3>1, <3>2, ZenonT(40)
  <2>2. /\ file' \in [Files -> FileState]
        /\ file'[f].pc = to /\ file'[f].ticks = file[f].ticks
        /\ file'[f].got = file[f].got /\ file'[f].from = file[f].from
        /\ \A g \in Files \ {f} : file'[g] = file[g]
        BY <2>1, Moves, Zenon DEF PC
  <2>3. Types'
        BY <1>1, <2>1, <2>2 DEF Types
  <2>4. Holding' = Holding /\ Counted' = Counted
        BY <2>1, <2>2, ZenonT(40) DEF Holding, Counted, Inside
  <2>5. References' /\ Stage'
    <3>1. References'
          BY <1>1, <2>1, <2>4, ZenonT(40) DEF References, Probed
    <3>2. Stage'
          BY <1>1, <2>1, <2>2 DEF Stage
    <3> QED BY <3>1, <3>2, Zenon
  <2>6. UrbInUse'
        BY <1>1, <2>1, <2>2, Zenon DEF UrbInUse, UrbIdle
  <2>7. Stamped' /\ ReadCurrent'
        BY <1>1, <2>1, <2>2, StampsKept, Zenon
  <2> QED BY <2>3, <2>5, <2>6, <2>7, Zenon
<1>3. CASE OpenCount(f) /\ Goto(f, "get")
  <2>1. /\ file[f].pc = "open" /\ io_mutex = "free" /\ kref' = kref
        /\ open_count' = open_count + 1
        /\ ~disconnected /\ (open_count = 0 => CanSubmit)
        /\ urb' = IF open_count = 0 THEN [urb EXCEPT !.hc = TRUE] ELSE urb
        BY <1>3, Moves DEF OpenCount, At, PC
  <2>2. /\ file' \in [Files -> FileState]
        /\ file'[f].pc = "get" /\ file'[f].ticks = file[f].ticks
        /\ file'[f].got = file[f].got /\ file'[f].from = file[f].from
        /\ \A g \in Files \ {f} : file'[g] = file[g]
        BY <1>3, Moves, Zenon DEF PC
  <2>3. Types'
    <3>1. urb' \in [hc : BOOLEAN, handler : {"none", "count", "wake", "resubmit"}]
          BY <2>1, Zenon DEF Types
    <3> QED BY <1>1, <2>1, <2>2, <3>1 DEF Types
  <2>4. f \notin Holding /\ f \notin Holding' /\ f \notin Counted /\ f \in Counted'
        BY <2>1, <2>2, ZenonT(40) DEF Holding, Counted, Inside
  <2>5. References'
        BY <1>1, <2>1, <2>2, <2>4, OneMoves DEF References, Probed, One
  <2>6. Stage'
        BY <1>1, <2>1, <2>2 DEF Stage
  <2>7. open_count = 0 => UrbIdle /\ disc = "bound"
        BY <2>1, SkelAssumption, Zenon DEF UrbInUse, CanSubmit, Stage
  <2>8. UrbInUse'
        BY <1>1, <2>1, <2>2, <2>7 DEF UrbInUse, UrbIdle, Types
  <2>9. urb'.handler = urb.handler
        BY <2>1, Zenon DEF Types
  <2>10. Stamped' /\ ReadCurrent'
        BY <1>1, <2>1, <2>2, <2>9, ZenonT(40) DEF Stamped, ReadCurrent
  <2> QED BY <2>3, <2>5, <2>6, <2>8, <2>10, ZenonT(40)
<1>4. CASE OpenGet(f)
  <2>1. file[f].pc = "get" /\ kref' = kref + 1 /\ UNCHANGED <<open_count, urb>>
        BY <1>4, Zenon DEF OpenGet, At
  <2>2. /\ file' \in [Files -> FileState]
        /\ file'[f].pc = "ready" /\ file'[f].ticks = 0 /\ file'[f].from = 0
        /\ \A g \in Files \ {f} : file'[g] = file[g]
        BY <1>4, Zenon DEF OpenGet, Types, FileState, Closed, PC, Inside
  <2>3. Types'
        BY <1>1, <2>1, <2>2 DEF Types
  <2>4. f \notin Holding /\ f \in Holding' /\ f \in Counted /\ f \in Counted'
        BY <2>1, <2>2, ZenonT(40) DEF Holding, Counted, Inside
  <2>5. References'
    <3>1. minor /\ disc # "unprobed" /\ Probed
          BY <2>1, Zenon DEF Stage, Probed
    <3> QED BY <1>1, <2>1, <2>2, <2>4, <3>1, OneMoves DEF References, Probed, One
  <2>6. Stage'
        BY <1>1, <2>1, <2>2, Zenon DEF Stage
  <2>7. UrbInUse'
        BY <1>1, <2>1, <2>2, ZenonT(40) DEF UrbInUse, UrbIdle
  <2>8. Stamped' /\ ReadCurrent'
    <3>1. \A g \in Files : file'[g].from \in Nat /\ file'[g].ticks \in Nat
          BY <2>2, Zenon DEF FileState
    <3>2. /\ file'[f].pc # "copy" /\ file'[f].ticks = 0 /\ file'[f].from = 0
          /\ \A g \in Files \ {f} : file'[g] = file[g]
          BY <2>2, Zenon
    <3>3. ticks \in Nat
          BY Zenon DEF Types
    <3> HIDE DEF IInv
    <3>4. Stamped /\ ReadCurrent
          BY Zenon DEF IInv
    <3> QED BY <1>1, <2>1, <3>1, <3>2, <3>3, <3>4 DEF Stamped, ReadCurrent
  <2> QED BY <2>3, <2>5, <2>6, <2>7, <2>8, Zenon
<1> QED BY <1>2, <1>3, <1>4, Zenon DEF OpenCount

\* skel_release: the count, the URB of the last close, the reference.
LEMMA ReleaseSteps ==
  ASSUME Counting(Files), IInv, NEW f \in Files, ReleaseCount(f) \/ ReleaseKilled(f) \/ ReleasePut(f)
  PROVE  IInv'
<1> USE DEF IInv
<1>1. /\ UNCHANGED <<ticks, disconnected, bulk_in_buffer, minor, bound, urb, disc,
                     stamps, time>>
      BY Zenon DEF ReleaseCount, ReleaseKilled, ReleasePut, kref_put, usb, dev, bus
<1>2. CASE ReleaseCount(f)
  <2>1. PICK to \in {"kill", "put"} :
            /\ file[f].pc = "ready" /\ io_mutex = "free" /\ Goto(f, to)
            /\ open_count' = open_count - 1
            /\ to = "kill" <=> open_count = 1 /\ ~disconnected
            /\ io_mutex' = IF to = "kill" THEN f ELSE "free"
            /\ killers' = IF to = "kill" THEN killers \cup {f} ELSE killers
            /\ UNCHANGED <<life, kref>>
        BY <1>2, Zenon DEF ReleaseCount, At
  <2>2. /\ file' \in [Files -> FileState]
        /\ file'[f].pc = to /\ file'[f].ticks = file[f].ticks
        /\ file'[f].got = file[f].got /\ file'[f].from = file[f].from
        /\ \A g \in Files \ {f} : file'[g] = file[g]
        BY <2>1, Moves, Zenon DEF PC
  <2>3. f \in Holding /\ f \in Holding' /\ f \in Counted /\ f \notin Counted'
        BY <2>1, <2>2, ZenonT(40) DEF Holding, Counted, Inside
  <2>4. /\ open_count > 0 /\ open_count - 1 = Cardinality(Counted')
        /\ Cardinality(Holding') = Cardinality(Holding)
        /\ Cardinality(Counted') \in Nat
        BY <2>2, <2>3, OneMoves DEF References, One
  <2>5. Types'
        BY <1>1, <2>1, <2>2, <2>4 DEF Types
  <2>6. References'
        BY <1>1, <2>1, <2>4, ZenonT(40) DEF References, Probed
  <2>7. Stage'
        BY <1>1, <2>1, <2>2, SkelAssumption DEF Stage
  <2>8. UrbInUse'
        BY <1>1, <2>1, <2>2, <2>4 DEF UrbInUse, UrbIdle, Stage, Types
  <2>9. Stamped' /\ ReadCurrent'
        BY <1>1, <2>1, <2>2, StampsKept, ZenonT(40)
  <2> QED BY <2>5, <2>6, <2>7, <2>8, <2>9, Zenon
<1>3. CASE ReleaseKilled(f)
  <2>1. /\ file[f].pc = "kill" /\ UrbIdle /\ Goto(f, "put")
        /\ killers' = killers \ {f} /\ io_mutex' = "free"
        /\ UNCHANGED <<life, kref, open_count>>
        BY <1>3, Zenon DEF ReleaseKilled, At, dev
  <2>2. /\ file' \in [Files -> FileState]
        /\ file'[f].pc = "put" /\ file'[f].ticks = file[f].ticks
        /\ file'[f].got = file[f].got /\ file'[f].from = file[f].from
        /\ \A g \in Files \ {f} : file'[g] = file[g]
        BY <2>1, Moves, Zenon DEF PC
  <2>3. Holding' = Holding /\ Counted' = Counted
        BY <2>1, <2>2, Zenon DEF Holding, Counted, Inside
  <2>4. Types'
        BY <1>1, <2>1, <2>2 DEF Types
  <2>5. References'
        BY <1>1, <2>1, <2>3, Zenon DEF References, Probed
  <2>6. Stage'
    <3>1. killers' = {g \in Files : file'[g].pc = "kill"}
                        \cup (IF disc = "kill" THEN {"disc"} ELSE {})
          BY <2>1, <2>2, SkelAssumption DEF Stage
    <3>2. \A g \in Files : io_mutex' = g <=> file'[g].pc \in {"bulk", "copy", "kill"}
          BY <2>1, <2>2, SkelAssumption DEF Stage
    <3> QED BY <1>1, <2>1, <2>2, <3>1, <3>2, ZenonT(40) DEF Stage
  <2>7. UrbInUse'
        BY <1>1, <2>1, Zenon DEF UrbInUse, UrbIdle
  <2>8. Stamped' /\ ReadCurrent'
        BY <1>1, <2>1, <2>2, StampsKept, ZenonT(40)
  <2> QED BY <2>4, <2>5, <2>6, <2>7, <2>8, Zenon
<1>4. CASE ReleasePut(f)
  <2>1. /\ file[f].pc = "put" /\ kref' = kref - 1
        /\ life' = IF kref = 1 THEN "freed" ELSE life
        /\ UNCHANGED <<open_count, io_mutex, killers>>
        BY <1>4, Zenon DEF ReleasePut, kref_put, At
  <2>2. /\ file' \in [Files -> FileState]
        /\ file'[f].pc = "closed" /\ file'[f].ticks = 0 /\ file'[f].from = 0
        /\ \A g \in Files \ {f} : file'[g] = file[g]
        BY <1>4, Zenon DEF ReleasePut, Types, FileState, Closed, PC, Inside
  <2>3. f \in Holding /\ f \notin Holding' /\ f \notin Counted /\ f \notin Counted'
        BY <2>1, <2>2, ZenonT(40) DEF Holding, Counted, Inside
  <2>4. /\ kref - 1 = Cardinality(Holding') + One(Probed)
        /\ Cardinality(Holding') \in Nat /\ Cardinality(Counted') = Cardinality(Counted)
        BY <2>2, <2>3, OneMoves DEF References, One
  <2>5. kref - 1 \in Nat
        BY <2>4 DEF One
  <2>6. Types'
        BY <1>1, <2>1, <2>2, <2>5, ZenonT(40) DEF Types
  <2>7. References'
        BY <1>1, <2>1, <2>4, <2>5 DEF References, Probed
  <2>8. Stage'
        BY <1>1, <2>1, <2>2 DEF Stage
  <2>9. UrbInUse'
        BY <1>1, <2>1, <2>2, ZenonT(40) DEF UrbInUse, UrbIdle
  <2>10. Stamped' /\ ReadCurrent'
    <3>1. \A g \in Files : file'[g].from \in Nat /\ file'[g].ticks \in Nat
          BY <2>2, Zenon DEF FileState
    <3>2. ticks \in Nat
          BY Zenon DEF Types
    <3> HIDE DEF IInv
    <3>3. Stamped /\ ReadCurrent
          BY Zenon DEF IInv
    <3> QED BY <1>1, <2>1, <2>2, <3>1, <3>2, <3>3 DEF Stamped, ReadCurrent
  <2> QED BY <2>6, <2>7, <2>8, <2>9, <2>10, Zenon
<1> QED BY <1>2, <1>3, <1>4, Zenon

-------------------------------------------------------------------------------
(* skel_probe and skel_disconnect. *)

\* Nothing but the way through skel_disconnect and its own flags changes.
LEMMA GoneSteps ==
  ASSUME Counting(Files), IInv, skel_probe \/ Unbind \/ Deregister \/ MarkGone \/ KillTick \/ DropProbe
  PROVE  IInv'
<1> USE DEF IInv
<1>1. /\ UNCHANGED <<ticks, open_count, bulk_in_buffer, io_mutex, urb, file, stamps, time>>
      BY Zenon DEF skel_probe, Unbind, Deregister, MarkGone, KillTick, DropProbe, kref_put, usb,
             dev, bus
<1>2. Holding' = Holding /\ Counted' = Counted /\ Cardinality(Holding) \in Nat
  <2>1. Holding \in SUBSET Files
        BY Zenon DEF Holding
  <2>2. Cardinality(Holding) \in Nat
        BY <2>1, Zenon DEF Counting
  <2> QED BY <1>1, <2>2, Zenon DEF Holding, Counted
<1>3. Stamped' /\ ReadCurrent'
      BY <1>1, Zenon DEF Stamped, ReadCurrent
<1>4. CASE skel_probe
  <2>1. /\ disc = "unprobed" /\ UNCHANGED <<disconnected, bound, killers>>
        /\ \/ life' = "live" /\ kref' = 1 /\ minor' = TRUE /\ disc' = "bound"
           \/ life' = "freed" /\ kref' = 0 /\ minor' = FALSE /\ disc' = "done"
        BY <1>4, Zenon DEF skel_probe
  <2>2. Types'
    <3>1. kref' \in Nat
          BY <2>1
    <3>2. minor' \in BOOLEAN
          BY <2>1, Zenon
    <3>3. disc' \in {"bound", "done"}
          BY <2>1, Zenon
    <3> QED BY <1>1, <2>1, <3>1, <3>2, <3>3, Zenon DEF Types
  <2>3. References'
        BY <1>1, <1>2, <2>1 DEF References, Probed, One
  <2>4. Stage'
        BY <1>1, <2>1, Zenon DEF Stage
  <2>5. UrbInUse'
        BY <1>1, <2>1, ZenonT(40) DEF UrbInUse, UrbIdle, Types
  <2> QED BY <1>3, <2>2, <2>3, <2>4, <2>5, Zenon
<1>5. CASE Unbind \/ Deregister
  <2>1. /\ UNCHANGED <<life, kref, disconnected, killers>>
        /\ \/ disc = "bound" /\ disc' = "unbind" /\ bound' = FALSE /\ minor' = minor
           \/ /\ disc = "unbind" /\ disc' = "mark" /\ minor' = FALSE /\ bound' = bound
              /\ ~urb.hc /\ \A f \in Files : file[f].pc \notin {"open", "get"}
        BY <1>5, Zenon DEF Unbind, Deregister, dev
  <2>2. Types'
        BY <1>1, <2>1, Zenon DEF Types
  <2>3. References'
    <3>1. disc # "unprobed" /\ disc' # "unprobed" /\ Probed /\ Probed'
          BY <2>1, Zenon DEF Probed
    <3>2. One(Probed') = One(Probed)
          BY <3>1, Zenon DEF One
    <3>3. kref' = kref /\ life' = life
          BY <2>1, Zenon
    <3> QED BY <1>1, <1>2, <3>1, <3>2, <3>3, Zenon DEF References
  <2>4. Stage'
        BY <1>1, <2>1 DEF Stage
  <2>5. UrbInUse'
        BY <1>1, <2>1, ZenonT(40) DEF UrbInUse, UrbIdle
  <2> QED BY <1>3, <2>2, <2>3, <2>4, <2>5, Zenon
<1>6. CASE MarkGone \/ KillTick
  <2>1. /\ UNCHANGED <<life, kref, minor, bound>>
        /\ \/ /\ disc = "mark" /\ disc' = "kill" /\ disconnected' = TRUE
              /\ killers' = killers \cup {"disc"}
           \/ /\ disc = "kill" /\ disc' = "wake" /\ UrbIdle /\ disconnected' = disconnected
              /\ killers' = killers \ {"disc"}
        BY <1>6, Zenon DEF MarkGone, KillTick, dev, bus
  <2>2. Types'
        BY <1>1, <2>1, Zenon DEF Types
  <2>3. References'
        BY <1>1, <1>2, <2>1 DEF References, Probed
  <2>4. Stage'
        BY <1>1, <2>1, SkelAssumption, Zenon DEF Stage
  <2>5. UrbInUse'
        BY <1>1, <2>1, ZenonT(40) DEF UrbInUse, UrbIdle
  <2> QED BY <1>3, <2>2, <2>3, <2>4, <2>5, Zenon
<1>7. CASE DropProbe
  <2>1. /\ UNCHANGED <<minor, bound, disconnected, killers>>
        /\ disc = "put" /\ disc' = "done" /\ kref' = kref - 1
        /\ life' = IF kref = 1 THEN "freed" ELSE life
        BY <1>7, Zenon DEF DropProbe, kref_put, bus
  <2>2. kref - 1 = Cardinality(Holding) /\ kref - 1 \in Nat
        BY <1>2, <2>1 DEF References, Probed, One, Types
  <2>3. Types'
        BY <1>1, <2>1, <2>2, Zenon DEF Types
  <2>4. References'
        BY <1>1, <1>2, <2>1, <2>2 DEF References, Probed, One
  <2>5. Stage'
        BY <1>1, <2>1, Zenon DEF Stage
  <2>6. UrbInUse'
        BY <1>1, <2>1, Zenon DEF UrbInUse, UrbIdle
  <2> QED BY <1>3, <2>3, <2>4, <2>5, <2>6, Zenon
<1> QED BY <1>4, <1>5, <1>6, <1>7, Zenon

\* skel_disconnect wakes the readers.
LEMMA WakeReadersStep == ASSUME IInv, WakeReaders PROVE IInv'
<1> USE DEF IInv
<1>1. /\ UNCHANGED <<usb, dev, io_mutex, bus, urb, killers, stamps>>
      /\ file' = WakeUp(file) /\ disc = "wake" /\ disc' = "put"
      BY Zenon DEF WakeReaders
<1>2. Types'
      BY <1>1, WakeMoves, Zenon DEF Types, usb, dev, bus
<1>3. Holding' = Holding /\ Counted' = Counted
      BY <1>1, WakeMoves, ZenonT(40) DEF Holding, Counted, Inside
<1>4. References' /\ Stage'
      BY <1>1, <1>3, WakeMoves DEF References, Stage, Probed, dev, bus
<1>5. UrbInUse'
      BY <1>1, Zenon DEF UrbInUse, UrbIdle
<1>6. Stamped' /\ ReadCurrent'
      BY <1>1, WakeMoves, ZenonT(40) DEF Stamped, ReadCurrent, usb, dev, One
<1> QED BY <1>2, <1>4, <1>5, <1>6, Zenon

-------------------------------------------------------------------------------
(* The invariant. *)

\* The invariant holds before the device is plugged in.
LEMMA InitHolds == Counting(Files) /\ Init => IInv
<1> SUFFICES ASSUME Counting(Files), Init PROVE IInv
    BY Zenon
<1> USE DEF Init
<1>1. Closed \in FileState
      BY Zenon DEF Closed, FileState, PC, Inside
<1>2. Types
  <2>1. stamps \in Seq(Nat)
        OBVIOUS
  <2>2. file \in [Files -> FileState]
        BY <1>1, Zenon
  <2>3. urb \in [hc : BOOLEAN, handler : {"none", "count", "wake", "resubmit"}]
        BY Zenon
  <2> QED BY <2>1, <2>2, <2>3, Zenon DEF Types, UsbInit
<1>3. \A f \in Files : file[f].pc = "closed" /\ file[f].ticks = 0 /\ file[f].from = 0
      BY Zenon DEF Closed
<1>4. Holding = {} /\ Counted = {}
      BY <1>3, Zenon DEF Holding, Counted, Inside
<1>5. Cardinality(Holding) = 0 /\ Cardinality(Counted) = 0
      BY <1>4, Zenon DEF Counting
<1>6. References
      BY <1>5 DEF References, Probed, One
<1>7. Stage
      BY <1>3, SkelAssumption, Zenon DEF Stage
<1>8. UrbInUse
      BY Zenon DEF UrbInUse, UrbIdle
<1>9. Stamped /\ ReadCurrent
  <2>1. Len(stamps) = 0
        BY Zenon
  <2> QED BY <1>3, <2>1 DEF Stamped, ReadCurrent, One
<1> QED BY <1>2, <1>6, <1>7, <1>8, <1>9, Zenon DEF IInv

\* Every step keeps it.
LEMMA StepHolds == Counting(Files) /\ IInv /\ [Next]_vars => IInv'
<1> SUFFICES ASSUME Counting(Files), IInv, [Next]_vars PROVE IInv'
    BY Zenon
<1>1. CASE UNCHANGED vars
  <2>1. Types' /\ References' /\ Stage'
        BY <1>1 DEF IInv, Types, References, Stage, Holding, Counted, Probed, vars, usb, dev,
           bus
  <2>2. UrbInUse' /\ Stamped' /\ ReadCurrent'
        BY <1>1, Zenon DEF IInv, UrbInUse, Stamped, ReadCurrent, UrbIdle, vars, usb, dev, bus
  <2> QED BY <2>1, <2>2, ZenonT(40) DEF IInv
<1>2. ASSUME NEW f \in Files,
             OpenFind(f) \/ InCall(f) \/ Call(f) \/ Signal(f) \/ skel_write(f) \/ ReleaseCount(f)
      PROVE  IInv'
      BY <1>2, OpenSteps, ReleaseSteps, WaitSteps, ReadSteps, BusSteps, Zenon
      DEF InCall, skel_read, skel_release
<1> QED BY <1>1, <1>2, GoneSteps, WakeReadersStep, UrbSteps, TickWakeStep, BusSteps, ZenonT(40)
        DEF Next, skel_tick_complete, skel_disconnect, Ended

-------------------------------------------------------------------------------
(***************************************************************************)
(* 31_tty.  TimerOff needs that the port counts the files that are open    *)
(* and not hung up, and is initialized while there are any.                *)
(***************************************************************************)
OpenFiles == {f \in TtyFiles : tty_file[f] = "open"}
TimerIdle == ~tty_timer.armed /\ tty_timer.pc = "idle"

TtyType ==
  /\ tty_file \in [TtyFiles -> {"closed", "open", "hung"}]
  /\ tty_timer \in [armed : BOOLEAN, pc : {"idle", "insert", "rearm"}]
  /\ tty_port \in [count : Nat, initialized : BOOLEAN]

TtyCounts ==
  /\ tty_port.count = Cardinality(OpenFiles)
  /\ tty_port.initialized <=> tty_port.count # 0

TtyInv ==
  /\ TtyType /\ TtyCounts
  /\ ~tty_port.initialized /\ tty_down # "timer" => TimerIdle
  /\ tty_module # "loaded" => /\ tty_down = "none"
                              /\ \A f \in TtyFiles : tty_file[f] = "closed"

\* The files open are finitely many, before and after a step.
LEMMA OpenCounted ==
  ASSUME Counting(TtyFiles)
  PROVE  /\ Cardinality(OpenFiles) \in Nat /\ Cardinality(OpenFiles') \in Nat
         /\ Cardinality(OpenFiles) = 0 <=> OpenFiles = {}
         /\ Cardinality(OpenFiles') = 0 <=> OpenFiles' = {}
<1>1. OpenFiles \in SUBSET TtyFiles /\ OpenFiles' \in SUBSET TtyFiles
  BY Zenon DEF OpenFiles
<1> QED
  BY <1>1, Zenon DEF Counting

\* A line with no open file is not initialized.
LEMMA TtyClosed ==
  ASSUME Counting(TtyFiles), TtyInv, \A f \in TtyFiles : tty_file[f] = "closed"
  PROVE  ~tty_port.initialized
<1>1. OpenFiles = {}
  BY Zenon DEF OpenFiles
<1> QED
  BY <1>1, OpenCounted, Zenon DEF TtyInv, TtyCounts

\* The initial states satisfy the invariant.
LEMMA TtyStarts == Counting(TtyFiles) /\ TtyInit => TtyInv
<1>1. SUFFICES ASSUME Counting(TtyFiles), TtyInit
               PROVE  TtyInv
  BY Zenon
<1>2. OpenFiles = {}
  BY <1>1, Zenon DEF TtyInit, OpenFiles
<1>3. TtyCounts
  BY <1>1, <1>2, OpenCounted, Zenon DEF TtyInit, TtyCounts
<1> QED
  BY <1>1, <1>3, Zenon DEF TtyInit, TtyInv, TtyType, TimerIdle

\* Every step keeps the invariant.
LEMMA TtySteps ==
  ASSUME Counting(TtyFiles), TtyInv, [TtyNext]_ttyVars
  PROVE  TtyInv'
<1> USE DEF TtyInv
<1>1. ASSUME UNCHANGED <<tty_file, tty_port, tty_down, tty_timer, tty_module>>
      PROVE  TtyInv'
  BY <1>1, Zenon DEF TtyType, TtyCounts, OpenFiles, TimerIdle
<1>2. ASSUME UNCHANGED <<tty_file, tty_port>>
      PROVE  TtyCounts'
  BY <1>2, Zenon DEF TtyCounts, OpenFiles
<1>3. CASE tty_m_init
  BY <1>2, <1>3, Zenon DEF tty_m_init, TtyType, TimerIdle
<1>4. CASE tty_m_exit
  BY <1>2, <1>4, TtyClosed, Zenon DEF tty_m_exit, TtyType, TimerIdle
<1>5. CASE ldd_tty_timer_func
  <2>1. UNCHANGED <<tty_file, tty_port, tty_down, tty_module>> /\ ~TimerIdle
    BY <1>5, Zenon DEF ldd_tty_timer_func, TimerIdle
  <2>2. tty_timer' \in [armed : BOOLEAN, pc : {"idle", "insert", "rearm"}]
    <3>1. \/ tty_timer' = [armed |-> FALSE, pc |-> "insert"]
          \/ tty_timer' = [tty_timer EXCEPT !.pc = "rearm"]
          \/ tty_timer' = [armed |-> TRUE, pc |-> "idle"]
      BY <1>5, Zenon DEF ldd_tty_timer_func
    <3>2. CASE tty_timer' = [armed |-> FALSE, pc |-> "insert"]
      BY <3>2, Zenon
    <3>3. CASE tty_timer' = [tty_timer EXCEPT !.pc = "rearm"]
      BY <3>3, Zenon DEF TtyType
    <3>4. CASE tty_timer' = [armed |-> TRUE, pc |-> "idle"]
      BY <3>4, Zenon
    <3> QED
      BY <3>1, <3>2, <3>3, <3>4, Zenon
  <2> QED
    BY <1>2, <2>1, <2>2, Zenon DEF TtyType
<1>6. ASSUME tty_down = "none", TtyPortShutdown, OpenFiles' = {},
             tty_file' \in [TtyFiles -> {"closed", "open", "hung"}],
             tty_module = "loaded", UNCHANGED <<tty_timer, tty_module>>
      PROVE  TtyInv'
  <2>1. TtyCounts'
    BY <1>6, OpenCounted, Zenon DEF TtyPortShutdown, TtyCounts
  <2> QED
    BY <1>6, <2>1, Zenon DEF TtyPortShutdown, TtyType, TimerIdle
<1>7. CASE ldd_tty_hangup
  <2>1. tty_module = "loaded" /\ tty_file' \in [TtyFiles -> {"closed", "open", "hung"}]
    BY <1>7, Zenon DEF ldd_tty_hangup, TtyType
  <2>2. OpenFiles' = {}
    BY <1>7, Zenon DEF ldd_tty_hangup, OpenFiles
  <2> QED
    BY <1>6, <1>7, <2>1, <2>2, Zenon DEF ldd_tty_hangup
<1>8. CASE ldd_port_shutdown
  <2>1. UNCHANGED <<tty_file, tty_port, tty_module>>
    BY <1>8, Zenon DEF ldd_port_shutdown
  <2>2. CASE tty_down = "timer"
    <3>1. tty_timer' = [tty_timer EXCEPT !.armed = FALSE] /\ tty_timer.pc = "idle"
          /\ tty_down' = "flush"
      BY <1>8, <2>2, Zenon DEF ldd_port_shutdown, timer_delete_sync
    <3> QED
      BY <1>2, <2>1, <2>2, <3>1, Zenon DEF TtyType, TimerIdle
  <2>3. CASE tty_down = "flush"
    <3>1. tty_timer' = tty_timer /\ tty_down' = "none"
      BY <1>8, <2>3, Zenon DEF ldd_port_shutdown
    <3> QED
      BY <1>2, <2>1, <2>3, <3>1, Zenon DEF TtyType, TimerIdle
  <2> QED
    BY <1>8, <2>2, <2>3, Zenon DEF ldd_port_shutdown
<1>9. CASE TtyReceive
  BY <1>1, <1>9, Zenon DEF TtyReceive
<1>10. ASSUME NEW f \in TtyFiles, TtyWrite(f)
       PROVE  TtyInv'
  BY <1>1, <1>10, Zenon DEF TtyWrite
<1>11. ASSUME NEW f \in TtyFiles, ldd_tty_open(f)
       PROVE  TtyInv'
  <2>1. /\ tty_module = "loaded" /\ tty_file[f] = "closed" /\ UNCHANGED <<tty_module, tty_down>>
        /\ tty_file' = [tty_file EXCEPT ![f] = "open"]
        /\ tty_port' = [count |-> tty_port.count + 1, initialized |-> TRUE]
        /\ tty_timer' \in {tty_timer, [tty_timer EXCEPT !.armed = TRUE]}
    BY <1>11, Zenon DEF ldd_tty_open, ldd_port_activate
  <2>2. OpenFiles' = OpenFiles \cup {f} /\ f \notin OpenFiles
    BY <2>1 DEF OpenFiles, TtyType
  <2>3. Cardinality(OpenFiles') = Cardinality(OpenFiles) + 1
    <3>1. OpenFiles' \in SUBSET TtyFiles /\ OpenFiles' \ {f} = OpenFiles /\ f \in OpenFiles'
      BY <2>2, Zenon DEF OpenFiles
    <3>2. Cardinality(OpenFiles') = Cardinality(OpenFiles) + One(f \in OpenFiles')
      BY <3>1, Zenon DEF Counting
    <3> QED
      BY <3>1, <3>2, Zenon DEF One
  <2>4. TtyCounts'
    BY <2>1, <2>3, OpenCounted DEF TtyCounts
  <2>5. TtyType'
    <3>1. tty_timer' \in [armed : BOOLEAN, pc : {"idle", "insert", "rearm"}]
      BY <2>1, Zenon DEF TtyType
    <3>2. tty_port' \in [count : Nat, initialized : BOOLEAN]
      BY <2>1 DEF TtyType
    <3> QED
      BY <2>1, <3>1, <3>2, Zenon DEF TtyType
  <2> QED
    BY <2>1, <2>4, <2>5, Zenon
<1>12. ASSUME NEW f \in TtyFiles, ldd_tty_close(f)
       PROVE  TtyInv'
  <2>1. /\ tty_down = "none" /\ tty_file[f] # "closed" /\ UNCHANGED <<tty_module, tty_timer>>
        /\ tty_file' = [tty_file EXCEPT ![f] = "closed"]
        /\ tty_module = "loaded"
    BY <1>12, Zenon DEF ldd_tty_close
  <2>2. tty_file' \in [TtyFiles -> {"closed", "open", "hung"}]
    BY <2>1, Zenon DEF TtyType
  <2>3. OpenFiles' = OpenFiles \ {f}
    BY <2>1, Zenon DEF OpenFiles, TtyType
  <2>4. CASE tty_file[f] = "hung"
    <3>1. UNCHANGED <<tty_port, tty_down>>
      BY <1>12, <2>4, Zenon DEF ldd_tty_close
    <3>2. OpenFiles' = OpenFiles
      BY <2>3, <2>4, Zenon DEF OpenFiles
    <3> QED
      BY <2>1, <2>2, <3>1, <3>2, Zenon DEF TtyType, TtyCounts, TimerIdle
  <2>5. CASE tty_file[f] # "hung"
    <3>1. f \in OpenFiles
      BY <2>1, <2>5, Zenon DEF OpenFiles, TtyType
    <3>2. Cardinality(OpenFiles') = Cardinality(OpenFiles) - 1
      <4>1. OpenFiles \in SUBSET TtyFiles
        BY Zenon DEF OpenFiles
      <4>2. Cardinality(OpenFiles) = Cardinality(OpenFiles') + One(f \in OpenFiles)
        BY <2>3, <4>1, Zenon DEF Counting
      <4> QED
        BY <3>1, <4>2, OpenCounted DEF One
    <3>3. CASE tty_port.count = 1
      <4>1. OpenFiles' = {}
        BY <3>2, <3>3, OpenCounted DEF TtyCounts
      <4>2. TtyPortShutdown
        BY <1>12, <2>5, <3>3, Zenon DEF ldd_tty_close
      <4> QED
        BY <1>6, <2>1, <2>2, <4>1, <4>2, Zenon
    <3>4. CASE tty_port.count # 1
      <4>1. tty_port' = [tty_port EXCEPT !.count = tty_port.count - 1] /\ UNCHANGED tty_down
        BY <1>12, <2>5, <3>4, Zenon DEF ldd_tty_close
      <4>2. tty_port.count # 0
        BY <3>1, OpenCounted, Zenon DEF TtyCounts
      <4>3. tty_port'.count = tty_port.count - 1 /\ tty_port'.count \in Nat \ {0}
            /\ tty_port'.initialized = tty_port.initialized
        BY <3>4, <4>1, <4>2 DEF TtyType
      <4>4. TtyCounts'
        BY <3>2, <4>2, <4>3, Zenon DEF TtyCounts
      <4>5. TtyType'
        BY <2>1, <2>2, <4>1, <4>3, Zenon DEF TtyType
      <4> QED
        BY <2>1, <4>1, <4>3, <4>4, <4>5, Zenon DEF TimerIdle
    <3> QED
      BY <3>3, <3>4, Zenon
  <2> QED
    BY <2>4, <2>5, Zenon
<1>13. CASE UNCHANGED ttyVars
  BY <1>1, <1>13, Zenon DEF ttyVars
<1> QED
  BY <1>3, <1>4, <1>5, <1>7, <1>8, <1>9, <1>10, <1>11, <1>12, <1>13, ZenonT(40)
  DEF TtyNext, TtyFinished

-------------------------------------------------------------------------------
(* The theorems. *)

\* Counting holds of every finite set.
LEMMA Counts == ASSUME NEW F, IsFiniteSet(F) PROVE Counting(F)
<1>1. ASSUME NEW S \in SUBSET F
      PROVE  IsFiniteSet(S) /\ Cardinality(S) \in Nat /\ (Cardinality(S) = 0 <=> S = {})
  <2>1. IsFiniteSet(S)
        BY FS_Subset, Zenon
  <2> QED BY <2>1, FS_CardinalityType, FS_EmptySet, ZenonT(20)
<1>2. ASSUME NEW S \in SUBSET F, NEW f \in F
      PROVE  Cardinality(S) = Cardinality(S \ {f}) + One(f \in S)
  <2>1. IsFiniteSet(S) /\ Cardinality(S) \in Nat
        BY <1>1, Zenon
  <2>2. Cardinality(S \ {f}) = IF f \in S THEN Cardinality(S) - 1 ELSE Cardinality(S)
        BY <2>1, FS_RemoveElement, ZenonT(20)
  <2> QED BY <2>1, <2>2 DEF One
<1> QED BY <1>1, <1>2, Zenon DEF Counting

\* The references, the count and the URB agree with what the threads do, whatever
\* the number of files, of opens and of ticks.
THEOREM SkelInvariant == Spec => []IInv
<1>1. Counting(Files)
      BY SkelAssumption, Counts
<1>2. Init => IInv
      BY <1>1, InitHolds, Zenon
<1>3. IInv /\ [Next]_vars => IInv'
      BY <1>1, StepHolds, Zenon
<1> QED BY <1>2, <1>3, PTL DEF Spec

\* skel_delete runs when no call, no completion and no disconnect can still use
\* struct usb_skel.
THEOREM FreedLast == Spec => []NoUseAfterFree
<1>1. IInv => NoUseAfterFree
  <2> SUFFICES ASSUME IInv, life = "freed"
               PROVE  (\A f \in Files : At(f, "closed")) /\ UrbIdle /\ disc = "done"
      BY Zenon DEF NoUseAfterFree
  <2>1. Holding \in SUBSET Files
        BY Zenon DEF Holding
  <2>2. Cardinality(Holding) \in Nat
        BY <2>1, SkelAssumption, Counts, Zenon DEF Counting
  <2>3. kref = 0 /\ disc # "unprobed"
        BY Zenon DEF IInv, References
  <2>4. Cardinality(Holding) = 0 /\ ~Probed
        BY <2>2, <2>3 DEF IInv, References, One
  <2>5. Holding = {}
        BY <2>1, <2>4, SkelAssumption, Counts, Zenon DEF Counting
  <2>6. disc = "done"
        BY <2>3, <2>4, Zenon DEF IInv, Types, Probed
  <2>7. UrbIdle
        BY <2>6, Zenon DEF IInv, UrbInUse
  <2>8. \A f \in Files : file[f].pc = "closed"
        BY <2>5, <2>6, ZenonT(40) DEF IInv, Stage, Types, FileState, PC, Holding, Inside
  <2> QED BY <2>6, <2>7, <2>8 DEF At
<1> QED BY <1>1, SkelInvariant, PTL

\* The interrupt endpoint is polled for open files only: the last close has
\* the URB back before it gives up io_mutex.
THEOREM PolledForFiles == Spec => []PollsOnlyOpen
<1>1. IInv => PollsOnlyOpen
      BY SkelAssumption DEF IInv, PollsOnlyOpen, UrbInUse, UrbIdle, Stage
<1> QED BY <1>1, SkelInvariant, PTL

\* A read returns a time no older than the last tick it counts as seen.
THEOREM ReadsCurrent == Spec => []ReadCurrent
<1>1. IInv => ReadCurrent
      BY Zenon DEF IInv
<1> QED BY <1>1, SkelInvariant, PTL

\* The timer of 31_tty is neither armed nor running once the port has been shut down,
\* nor when m_exit has freed it (TimerOff), for any number of files, opens, closes and
\* hangups.
THEOREM TimerStops == TtySpec => []TimerOff
<1>1. Counting(TtyFiles)
  BY TtyAssumption, Counts
<1>2. ASSUME TtyInv
      PROVE  TimerOff
  BY <1>1, <1>2, TtyClosed DEF TtyInv, TimerOff, TimerIdle
<1>3. TtyInit => TtyInv
  BY <1>1, TtyStarts, Zenon
<1>4. TtyInv /\ [TtyNext]_ttyVars => TtyInv'
  BY <1>1, TtySteps, Zenon
<1> QED
  BY <1>2, <1>3, <1>4, PTL DEF TtySpec
=============================================================================
