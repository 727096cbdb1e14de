------------------------------- MODULE UsbSkel --------------------------------
(***************************************************************************)
(* 21_usb_skel on ldd-usb: files that wait for ticks and read their time,  *)
(* the interrupt URB that counts ticks while a file is open, write URBs    *)
(* that set the interval, and the disconnect that races with all of them.  *)
(* Each thread f of Files has one file at a time.  The steps of a thread   *)
(* are the program points at which another one can come between; a section *)
(* of io_mutex that does not sleep is one step.                            *)
(***************************************************************************)
EXTENDS LddUsb, Sequences, FiniteSets

CONSTANTS
  Files,     \* threads with a file
  MaxOpens,  \* bound: calls of open
  MaxWrites  \* bound: calls of write

ASSUME SkelAssumption ==
  /\ IsFiniteSet(Files) /\ Files \cap {"free", "disc"} = {}
  /\ MaxOpens \in Nat /\ MaxWrites \in Nat

VARIABLES
  life,         \* struct usb_skel: "none", "live", "freed"
  kref,
  ticks, open_count, disconnected,
  bulk_in_buffer, \* the time the last bulk transfer brought
  io_mutex,     \* its owner across steps, "free" otherwise
  minor,        \* the node exists: usb_register_dev to usb_deregister_dev
  bound,        \* the endpoints are enabled: until the core unbinds the driver
  urb,          \* tick_urb: with the host controller, and its completion
  killers,      \* who waits in usb_kill_urb (urb->reject)
  writes,       \* the write URBs with the host controller
  file,         \* per thread: pc, seen, the local ticks, the time last read
  disc,         \* where skel_disconnect is
  stamps,       \* history: the device's time when the n-th tick was reported
  opens, written

dev == <<life, kref, ticks, open_count, disconnected, bulk_in_buffer>>
bus == <<minor, bound, writes>>
count == <<opens, written>>
vars == <<usb, dev, io_mutex, bus, urb, killers, file, disc, stamps, count>>

Closed == [pc |-> "closed", seen |-> 0, ticks |-> 0, got |-> 0, from |-> 0]

Init ==
  /\ UsbInit
  /\ life = "none" /\ kref = 0 /\ ticks = 0 /\ open_count = 0
  /\ disconnected = FALSE /\ bulk_in_buffer = 0 /\ io_mutex = "free"
  /\ minor = FALSE /\ bound = TRUE /\ writes = {}
  /\ urb = [hc |-> FALSE, handler |-> "none"]
  /\ killers = {}
  /\ file = [f \in Files |-> Closed]
  /\ disc = "unprobed" /\ stamps = <<>>
  /\ opens = 0 /\ written = 0

Goto(f, pc) == file' = [file EXCEPT ![f].pc = pc]
At(f, pc) == file[f].pc = pc

\* External: usb_submit_urb() fails on a disabled endpoint and while the URB is
\* being killed, and may fail for want of memory.
CanSubmit == bound /\ killers = {}

\* kref_put(&dev->kref, skel_delete).
kref_put ==
  /\ kref' = kref - 1
  /\ life' = IF kref = 1 THEN "freed" ELSE life
  /\ UNCHANGED <<ticks, open_count, disconnected, bulk_in_buffer>>

\* wake_up_interruptible(&dev->tick_wait): the sleepers test their condition again.
WakeUp(fs) ==
  [f \in Files |-> IF fs[f].pc = "sleep" THEN [fs[f] EXCEPT !.pc = "wait"]
                   ELSE IF fs[f].pc = "pollsleep" THEN [fs[f] EXCEPT !.pc = "poll"]
                   ELSE fs[f]]

-------------------------------------------------------------------------------
(* skel_probe: one step, because the node appears last.                    *)

skel_probe ==
  /\ disc = "unprobed"
  /\ \/ /\ life' = "live" /\ kref' = 1 /\ minor' = TRUE /\ disc' = "bound"
     \/ /\ life' = "freed" /\ kref' = 0 /\ minor' = FALSE /\ disc' = "done"
  /\ UNCHANGED <<usb, ticks, open_count, disconnected, bulk_in_buffer, io_mutex,
                 bound, writes, urb, killers, file, stamps, count>>

-------------------------------------------------------------------------------
(* The interrupt URB.                                                      *)

\* The host controller completes it: a report, or a transient error.
TickReport ==
  /\ urb.hc
  /\ \/ /\ ldd_usb_report_tick
        /\ urb' = [hc |-> FALSE, handler |-> "count"]
        /\ stamps' = Append(stamps, time)
     \/ /\ urb' = [hc |-> FALSE, handler |-> "resubmit"]
        /\ UNCHANGED <<usb, stamps>>
  /\ UNCHANGED <<dev, io_mutex, bus, killers, file, disc, count>>

\* It is unlinked by usb_kill_urb or with its endpoint: the handler returns.
TickUnlinked ==
  /\ urb.hc /\ (~bound \/ killers # {})
  /\ urb' = [urb EXCEPT !.hc = FALSE]
  /\ UNCHANGED <<usb, dev, io_mutex, bus, killers, file, disc, stamps, count>>

\* skel_tick_complete with status 0: count, then wake up.
TickCount ==
  /\ urb.handler = "count"
  /\ ticks' = ticks + 1
  /\ urb' = [urb EXCEPT !.handler = "wake"]
  /\ UNCHANGED <<usb, life, kref, open_count, disconnected, bulk_in_buffer,
                 io_mutex, bus, killers, file, disc, stamps, count>>

TickWake ==
  /\ urb.handler = "wake"
  /\ file' = WakeUp(file)
  /\ urb' = [urb EXCEPT !.handler = "resubmit"]
  /\ UNCHANGED <<usb, dev, io_mutex, bus, killers, disc, stamps, count>>

TickResubmit ==
  /\ urb.handler = "resubmit"
  /\ \/ CanSubmit /\ urb' = [hc |-> TRUE, handler |-> "none"]
     \/ urb' = [hc |-> FALSE, handler |-> "none"]
  /\ UNCHANGED <<usb, dev, io_mutex, bus, killers, file, disc, stamps, count>>

skel_tick_complete == TickCount \/ TickWake \/ TickResubmit

\* What usb_kill_urb waits for.
UrbIdle == ~urb.hc /\ urb.handler = "none"
-------------------------------------------------------------------------------
(* The file operations of thread f.                                        *)

\* skel_open finds the interface; the core holds minor_rwsem until it returns.
OpenFind(f) ==
  /\ At(f, "closed") /\ minor /\ opens < MaxOpens
  /\ opens' = opens + 1
  /\ Goto(f, "open")
  /\ UNCHANGED <<usb, dev, io_mutex, bus, urb, killers, disc, stamps, written>>

\* Under io_mutex: the first open submits the tick URB, which may fail.
OpenCount(f) ==
  /\ At(f, "open") /\ io_mutex = "free"
  /\ \/ /\ disconnected \/ open_count = 0
        /\ Goto(f, "closed")
        /\ UNCHANGED <<open_count, urb>>
     \/ /\ ~disconnected
        /\ open_count = 0 => CanSubmit
        /\ open_count' = open_count + 1
        /\ urb' = IF open_count = 0 THEN [urb EXCEPT !.hc = TRUE] ELSE urb
        /\ Goto(f, "get")
  /\ UNCHANGED <<usb, life, kref, ticks, disconnected, bulk_in_buffer, io_mutex,
                 bus, killers, disc, stamps, count>>

OpenGet(f) ==
  /\ At(f, "get")
  /\ kref' = kref + 1
  /\ file' = [file EXCEPT ![f] = [Closed EXCEPT !.pc = "ready", !.seen = ticks]]
  /\ UNCHANGED <<usb, life, ticks, open_count, disconnected, bulk_in_buffer,
                 io_mutex, bus, urb, killers, disc, stamps, count>>

\* read, or a poll before it.  A read with O_NONBLOCK and no tick changes nothing.
Call(f) ==
  /\ At(f, "ready")
  /\ Goto(f, "wait") \/ Goto(f, "poll")
  /\ UNCHANGED <<usb, dev, io_mutex, bus, urb, killers, disc, stamps, count>>

TickUnseen(f) == ticks # file[f].seen \/ disconnected

\* wait_event_interruptible in skel_read: on the queue before the test.
ReadWait(f) ==
  /\ At(f, "wait")
  /\ Goto(f, IF TickUnseen(f) THEN "sample" ELSE "sleep")
  /\ UNCHANGED <<usb, dev, io_mutex, bus, urb, killers, disc, stamps, count>>

\* skel_poll: poll_wait, then look; the core sleeps while nothing is ready.
skel_poll(f) ==
  /\ At(f, "poll")
  /\ Goto(f, IF TickUnseen(f) THEN "ready" ELSE "pollsleep")
  /\ UNCHANGED <<usb, dev, io_mutex, bus, urb, killers, disc, stamps, count>>

\* A signal ends the sleep, on the queue or on io_mutex.
Signal(f) ==
  /\ file[f].pc \in {"sleep", "pollsleep", "lock"}
  /\ Goto(f, "ready")
  /\ UNCHANGED <<usb, dev, io_mutex, bus, urb, killers, disc, stamps, count>>

ReadSample(f) ==
  /\ At(f, "sample")
  /\ file' = [file EXCEPT ![f] = [@ EXCEPT !.ticks = ticks, !.pc = "lock"]]
  /\ UNCHANGED <<usb, dev, io_mutex, bus, urb, killers, disc, stamps, count>>

ReadLock(f) ==
  /\ At(f, "lock") /\ io_mutex = "free"
  /\ io_mutex' = IF disconnected THEN "free" ELSE f
  /\ Goto(f, IF disconnected THEN "ready" ELSE "bulk")
  /\ UNCHANGED <<usb, dev, bus, urb, killers, disc, stamps, count>>

\* Mutant: a failed transfer returns with io_mutex held.
ReadBulkLeak(f) ==
  /\ At(f, "bulk")
  /\ \/ bound /\ bulk_in_buffer' = time /\ Goto(f, "copy")
     \/ Goto(f, "ready") /\ UNCHANGED bulk_in_buffer
  /\ UNCHANGED <<usb, life, kref, ticks, open_count, disconnected, io_mutex, bus,
                 urb, killers, disc, stamps, count>>

\* usb_bulk_msg brings the time, or fails: unplugged, stalled, timed out.
ReadBulk(f) ==
  /\ At(f, "bulk")
  /\ \/ bound /\ bulk_in_buffer' = time /\ Goto(f, "copy") /\ UNCHANGED io_mutex
     \/ io_mutex' = "free" /\ Goto(f, "ready") /\ UNCHANGED bulk_in_buffer
  /\ UNCHANGED <<usb, life, kref, ticks, open_count, disconnected, bus, urb,
                 killers, disc, stamps, count>>

\* Mutant: the ticks are counted as seen up to now.
SeenNow(f) == ticks

Sampled(f) == file[f].ticks

\* The copy to the caller, which may fault; only then are the ticks seen.
ReadCopy(f) ==
  /\ At(f, "copy")
  /\ \/ file' = [file EXCEPT ![f] = [@ EXCEPT !.seen = Sampled(f), !.got = bulk_in_buffer,
                                            !.from = Sampled(f), !.pc = "ready"]]
     \/ Goto(f, "ready")
  /\ io_mutex' = "free"
  /\ UNCHANGED <<usb, dev, bus, urb, killers, disc, stamps, count>>

skel_read(f) ==
  ReadWait(f) \/ ReadSample(f) \/ ReadLock(f) \/ ReadBulk(f) \/ ReadCopy(f)

\* skel_write: after the allocations, submit under io_mutex.  A URB that was not
\* submitted is freed here with its data, the others in skel_write_complete.
skel_write(f) ==
  /\ At(f, "ready") /\ io_mutex = "free" /\ written < MaxWrites
  /\ written' = written + 1
  /\ \/ /\ ~disconnected /\ bound
        /\ writes' = writes \cup {written}
     \/ UNCHANGED writes
  /\ UNCHANGED <<usb, dev, io_mutex, minor, bound, urb, killers, file, disc,
                 stamps, opens>>

\* The device takes the interval, or the URB fails; then the data is freed.
skel_write_complete ==
  \E w \in writes :
    /\ writes' = writes \ {w}
    /\ \/ bound /\ ldd_usb_set_interval
       \/ UNCHANGED usb
    /\ UNCHANGED <<dev, io_mutex, minor, bound, urb, killers, file, disc, stamps,
                   count>>

\* Mutant: the last close leaves the tick URB running.
ReleaseNoKill(f) ==
  /\ At(f, "ready") /\ io_mutex = "free"
  /\ open_count' = open_count - 1
  /\ Goto(f, "put")
  /\ UNCHANGED <<usb, life, kref, ticks, disconnected, bulk_in_buffer, io_mutex,
                 bus, urb, killers, disc, stamps, count>>

\* skel_release: the last close kills the tick URB, holding io_mutex.
ReleaseCount(f) ==
  /\ At(f, "ready") /\ io_mutex = "free"
  /\ open_count' = open_count - 1
  /\ IF open_count = 1 /\ ~disconnected
     THEN io_mutex' = f /\ killers' = killers \cup {f} /\ Goto(f, "kill")
     ELSE Goto(f, "put") /\ UNCHANGED <<io_mutex, killers>>
  /\ UNCHANGED <<usb, life, kref, ticks, disconnected, bulk_in_buffer, bus, urb,
                 disc, stamps, count>>

ReleaseKilled(f) ==
  /\ At(f, "kill") /\ UrbIdle
  /\ killers' = killers \ {f}
  /\ io_mutex' = "free"
  /\ Goto(f, "put")
  /\ UNCHANGED <<usb, dev, bus, urb, disc, stamps, count>>

ReleasePut(f) ==
  /\ At(f, "put")
  /\ kref_put
  /\ file' = [file EXCEPT ![f] = Closed]
  /\ UNCHANGED <<usb, io_mutex, bus, urb, killers, disc, stamps, count>>

skel_release(f) == ReleaseKilled(f) \/ ReleasePut(f)
-------------------------------------------------------------------------------
(* skel_disconnect: unplugged, unbound or rmmod.                           *)

\* External: the core disables the endpoints and has their URBs given back.
Unbind ==
  /\ disc = "bound"
  /\ bound' = FALSE /\ disc' = "unbind"
  /\ UNCHANGED <<usb, dev, io_mutex, minor, writes, urb, killers, file, stamps, count>>

\* usb_deregister_dev: no new opens, those under way are waited for.
Deregister ==
  /\ disc = "unbind" /\ ~urb.hc /\ writes = {}
  /\ \A f \in Files : file[f].pc \notin {"open", "get"}
  /\ minor' = FALSE /\ disc' = "mark"
  /\ UNCHANGED <<usb, dev, io_mutex, bound, writes, urb, killers, file, stamps, count>>

MarkGone ==
  /\ disc = "mark" /\ io_mutex = "free"
  /\ disconnected' = TRUE /\ disc' = "kill"
  /\ killers' = killers \cup {"disc"}
  /\ UNCHANGED <<usb, life, kref, ticks, open_count, bulk_in_buffer, io_mutex, bus,
                 urb, file, stamps, count>>

\* Mutant: usb_unlink_urb() does not wait for the completion.
KillNoWait ==
  /\ disc = "kill"
  /\ killers' = killers \ {"disc"} /\ disc' = "wake"
  /\ UNCHANGED <<usb, dev, io_mutex, bus, urb, file, stamps, count>>

KillTick ==
  /\ disc = "kill" /\ UrbIdle
  /\ killers' = killers \ {"disc"} /\ disc' = "wake"
  /\ UNCHANGED <<usb, dev, io_mutex, bus, urb, file, stamps, count>>

\* Mutant: the readers are not woken.
WakeNobody ==
  /\ disc = "wake"
  /\ disc' = "put"
  /\ UNCHANGED <<usb, dev, io_mutex, bus, urb, killers, file, stamps, count>>

WakeReaders ==
  /\ disc = "wake"
  /\ file' = WakeUp(file) /\ disc' = "put"
  /\ UNCHANGED <<usb, dev, io_mutex, bus, urb, killers, stamps, count>>

DropProbe ==
  /\ disc = "put"
  /\ kref_put /\ disc' = "done"
  /\ UNCHANGED <<usb, io_mutex, bus, urb, killers, file, stamps, count>>

skel_disconnect == Deregister \/ MarkGone \/ KillTick \/ WakeReaders \/ DropProbe

-------------------------------------------------------------------------------
Tick ==
  /\ ldd_usb_tick
  /\ UNCHANGED <<dev, io_mutex, bus, urb, killers, file, disc, stamps, count>>

\* Unplugged and every file closed.
Ended ==
  /\ disc = "done" /\ \A f \in Files : At(f, "closed")
  /\ UNCHANGED vars

InCall(f) == OpenCount(f) \/ OpenGet(f) \/ skel_read(f) \/ skel_poll(f) \/ skel_release(f)

Next ==
  \/ skel_probe \/ Tick
  \/ TickReport \/ TickUnlinked \/ skel_tick_complete \/ skel_write_complete
  \/ \E f \in Files :
       OpenFind(f) \/ InCall(f) \/ Call(f) \/ Signal(f) \/ skel_write(f) \/ ReleaseCount(f)
  \/ Unbind \/ skel_disconnect
  \/ Ended

\* The host controller and interrupts go on, and so does a call; io_mutex is
\* handed to its waiters in turn.  Nobody has to call, and the device need not
\* tick.
Fairness ==
  /\ WF_vars(TickUnlinked \/ skel_tick_complete) /\ WF_vars(skel_write_complete)
  /\ \A f \in Files : SF_vars(InCall(f))
  /\ WF_vars(Deregister \/ KillTick \/ WakeReaders \/ DropProbe)
  /\ SF_vars(MarkGone)

Spec == Init /\ [][Next]_vars
FairSpec == Spec /\ Fairness

-------------------------------------------------------------------------------
(* Properties.                                                             *)

TypeOK ==
  /\ UsbTypeOK
  /\ life \in {"none", "live", "freed"}
  /\ kref \in 0..(Cardinality(Files) + 1)
  /\ open_count \in 0..Cardinality(Files)
  /\ io_mutex \in Files \cup {"free"}
  /\ killers \subseteq Files \cup {"disc"}
  /\ urb \in [hc : BOOLEAN, handler : {"none", "count", "wake", "resubmit"}]
  /\ ticks \in 0..MaxTicks /\ Len(stamps) \in ticks..(ticks + 1)

\* struct usb_skel, its URB and its buffers are freed by the last reference:
\* after that no call, no completion and no disconnect uses them.
NoUseAfterFree ==
  life = "freed" =>
    /\ \A f \in Files : At(f, "closed")
    /\ UrbIdle /\ disc = "done"

\* The interrupt endpoint is polled for open files only.
PollsOnlyOpen == io_mutex = "free" /\ open_count = 0 => ~urb.hc

\* The time a read returned is at least as new as the last of the ticks the
\* read counts as seen: a tick that comes during the read is not passed over.
ReadCurrent ==
  \A f \in Files : file[f].from > 0 => file[f].got >= stamps[file[f].from]

\* A reader or poller asleep although there is a tick for it, or the device is
\* gone, wakes up.
ReaderWoken ==
  \A f \in Files :
    (file[f].pc \in {"sleep", "pollsleep"} /\ TickUnseen(f))
      ~> file[f].pc \notin {"sleep", "pollsleep"}

\* skel_disconnect returns although files stay open and closes race with it.
DisconnectEnds == (disc = "unbind") ~> (disc = "done")
===============================================================================
