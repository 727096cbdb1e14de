-------------------------------- MODULE Short ---------------------------------
(***************************************************************************)
(* The drivers of ldd-io: 15_short_ioport, 16_short_port_remap and         *)
(* 17_short_mmio poll it, 18_short_irq and 19_short_irq_probe take its     *)
(* interrupt, 19 after finding its line.  They claim the same registers,   *)
(* so one is loaded at a time, on the device the one before it left.       *)
(* 15 to 17 differ in how they map the registers and in the width of their *)
(* accesses to the matrix, 18 and 19 in the probing.  Every access to a    *)
(* register is a step of its own.                                          *)
(***************************************************************************)
EXTENDS LddIo

CONSTANTS
  ShortThreads, \* threads that call the driver
  Tries,        \* how often short_probe_irq tries
  Spans,        \* bound: the <<pos, end>> of the rows users access
  Widths,       \* bound: the values written to width
  MaxLoads,     \* bound: modules loaded
  MaxBytes,     \* bound: bytes typed or written
  MaxCalls      \* bound: calls of the driver

ASSUME ShortAssumption ==
  /\ Spans \subseteq (0..8) \X (0..8) /\ Widths \subseteq {0, 1, 2, 4, 8}
  /\ {Tries, MaxLoads, MaxBytes, MaxCalls} \subseteq Nat
  /\ "free" \notin ShortThreads

VARIABLES
  mod,      \* the module: driver, phase and step of m_init or m_exit
  res,      \* what it holds
  lock,     \* short_lock: "free" or its owner
  thr,      \* per thread: pc and arguments of its call
  handler,  \* where short_interrupt is
  counted,  \* short_irqs, short_irq_probes
  probe,    \* short_probe_irq: pc, tries, found
  width,    \* 17: the parameter
  entered, taken, \* history: bytes received since the module was loaded, and taken
  bytes, loads, calls

drvVars == <<mod, res>>
useVars == <<lock, thr>>
histVars == <<entered, taken>>
shortVars == <<ioVars, drvVars, useVars, handler, counted, probe, width, histVars,
               bytes, loads, calls>>

Polled == {15, 16, 17}
Idle == [pc |-> "idle"]

ShortInit ==
  /\ \E viewer \in {"none", "closed"} : IoInit(viewer)
  /\ mod = [drv |-> 0, phase |-> "none", step |-> 0] /\ res = {}
  /\ lock = "free" /\ thr = [t \in ShortThreads |-> Idle]
  /\ handler = "none" /\ counted = 0
  /\ probe = [pc |-> "none", tries |-> 0, found |-> FALSE]
  /\ width = 8 /\ entered = <<>> /\ taken = <<>>
  /\ bytes = 0 /\ loads = 0 /\ calls = 0

-------------------------------------------------------------------------------
(* Loading and unloading: what each m_init takes, in this order, a failure *)
(* giving back what was taken, and each m_exit gives back.                 *)

m_init_15 == <<"region", "devno", "cdev">>
m_init_16 == <<"region", "map", "devno", "cdev">>
m_init_17 == <<"region", "map", "devno", "cdev">>
m_init_18 == <<"region", "irq", "devno", "cdev", "enable">>
m_init_19 == <<"region", "probe", "irq", "devno", "cdev", "enable">>

m_init(d) == CASE d = 15 -> m_init_15 [] d = 16 -> m_init_16 [] d = 17 -> m_init_17
               [] d = 18 -> m_init_18 [] d = 19 -> m_init_19

m_exit_15 == <<"cdev", "devno", "region">>
m_exit_16 == <<"cdev", "devno", "map", "region">>
m_exit_17 == <<"cdev", "devno", "map", "region">>

\* Mutant: the handler goes before the device is quiet.
m_exit_18_late == <<"irq", "quiet", "cdev", "devno", "region">>

m_exit_18 == <<"quiet", "irq", "cdev", "devno", "region">>
m_exit_19 == <<"quiet", "irq", "cdev", "devno", "region">>

m_exit(d) == CASE d = 15 -> m_exit_15 [] d = 16 -> m_exit_16 [] d = 17 -> m_exit_17
               [] d = 18 -> m_exit_18 [] d = 19 -> m_exit_19

Waiting == IF io.rx_ready THEN <<io.data_in>> ELSE <<>>

Load ==
  /\ mod.phase = "none" /\ loads < MaxLoads
  /\ \E d \in Polled \cup {18, 19} : mod' = [drv |-> d, phase |-> "init", step |-> 1]
  /\ loads' = loads + 1
  /\ entered' = Waiting /\ taken' = <<>> /\ counted' = 0 /\ width' = 8
  /\ UNCHANGED <<ioVars, res, useVars, handler, probe, bytes, calls>>

\* The next step of m_init, or the module is up.
Advance ==
  mod' = IF mod.step < Len(m_init(mod.drv)) THEN [mod EXCEPT !.step = @ + 1]
         ELSE [mod EXCEPT !.phase = "up", !.step = 1]

\* free_irq() waits for a running handler.
Unwind ==
  /\ handler = "none"
  /\ mod' = [drv |-> 0, phase |-> "none", step |-> 0] /\ res' = {}

InitStep ==
  LET what == m_init(mod.drv)[mod.step] IN
    /\ mod.phase = "init" /\ probe.pc = "none"
    /\ \/ /\ what \notin {"enable", "probe"}
          /\ Advance /\ res' = res \cup {what}
          /\ UNCHANGED <<ioVars, probe>>
       \/ /\ what \notin {"enable", "probe"} /\ Unwind
          /\ UNCHANGED <<ioVars, probe>>
       \/ /\ what = "probe"
          /\ probe' = [pc |-> "drain", tries |-> 0, found |-> FALSE]
          /\ UNCHANGED <<ioVars, drvVars>>
       \/ /\ what = "enable"
          /\ WriteCtrl({"IRQ_EN", "LOOPBACK"}) /\ Advance
          /\ UNCHANGED <<res, probe>>
    /\ UNCHANGED <<useVars, handler, counted, width, histVars, bytes, loads, calls>>

\* rmmod: no file is open.
Unload ==
  /\ mod.phase = "up" /\ \A t \in ShortThreads : thr[t] = Idle
  /\ mod' = [mod EXCEPT !.phase = "exit"]
  /\ UNCHANGED <<ioVars, res, useVars, handler, counted, probe, width, histVars,
                 bytes, loads, calls>>

ExitStep ==
  LET what == m_exit(mod.drv)[mod.step] IN
    /\ mod.phase = "exit"
    /\ IF what = "quiet" THEN WriteCtrl({}) /\ UNCHANGED res
       ELSE /\ what = "irq" => handler = "none"
            /\ res' = res \ {what} /\ UNCHANGED ioVars
    /\ mod' = IF mod.step < Len(m_exit(mod.drv)) THEN [mod EXCEPT !.step = @ + 1]
              ELSE [drv |-> 0, phase |-> "none", step |-> 0]
    /\ UNCHANGED <<useVars, handler, counted, probe, width, histVars, bytes, loads,
                   calls>>

-------------------------------------------------------------------------------
(* 19: short_probe_irq.                                                    *)

ProbeGoto(pc) == probe' = [probe EXCEPT !.pc = pc]

\* A byte left over is dropped, so that RX_READY can rise.
ProbeDrain ==
  /\ probe.pc = "drain"
  /\ IF io.rx_ready THEN WriteStatus /\ UNCHANGED probe
     ELSE ProbeGoto("on") /\ UNCHANGED ioVars

\* probe_irq_on() ignores the lines that fire before the device is told to.
ProbeOn ==
  /\ probe.pc = "on"
  /\ irq' = FALSE /\ ProbeGoto("ctrl")
  /\ UNCHANGED <<io, panel>>

ProbeCtrl ==
  /\ probe.pc = "ctrl"
  /\ WriteCtrl({"IRQ_EN", "LOOPBACK"}) /\ ProbeGoto("data")

ProbeData == probe.pc = "data" /\ WriteData(0) /\ ProbeGoto("off")

\* probe_irq_off() finds the line; or the pulse comes too late, or it was not
\* the only one.  Assumed: no other unused line fires alone in its place.
ProbeOff ==
  /\ probe.pc = "off"
  /\ \E found \in {irq, FALSE} :
       probe' = [probe EXCEPT !.pc = "quiet", !.found = found]
  /\ UNCHANGED ioVars

ProbeQuiet == probe.pc = "quiet" /\ WriteCtrl({}) /\ ProbeGoto("ack")

\* The last acknowledgement, and what the result leads to.
ProbeAck ==
  /\ probe.pc = "ack"
  /\ WriteStatus
  /\ probe' = [probe EXCEPT !.tries = @ + 1,
                 !.pc = IF probe.found \/ probe.tries + 1 = Tries THEN "none" ELSE "drain"]

short_probe_irq ==
  /\ \/ ProbeDrain \/ ProbeOn \/ ProbeCtrl \/ ProbeData \/ ProbeOff \/ ProbeQuiet
     \/ ProbeAck
  /\ IF probe'.pc # "none" THEN UNCHANGED <<drvVars, histVars>>
     ELSE /\ entered' = <<>> /\ taken' = <<>>
          /\ IF probe.found THEN Advance /\ UNCHANGED res ELSE Unwind
  /\ UNCHANGED <<useVars, handler, counted, width, bytes, loads, calls>>

-------------------------------------------------------------------------------
(* 18 and 19: short_interrupt.                                             *)

\* A pulse reaches the CPU, which calls the handler, if there is one.
Pulse ==
  /\ irq /\ probe.pc = "none" /\ handler = "none"
  /\ irq' = FALSE
  /\ handler' = IF "irq" \in res THEN "status" ELSE "none"
  /\ UNCHANGED <<io, panel, drvVars, useVars, counted, probe, width, histVars,
                 bytes, loads, calls>>

\* Mutant: acknowledged before the byte is read.
AckFirst == [status |-> "ack", ack |-> "data", data |-> "count"]

HandlerOrder == [status |-> "data", data |-> "ack", ack |-> "count"]

short_interrupt ==
  /\ \/ /\ handler = "status"
        /\ handler' = IF io.rx_ready THEN HandlerOrder.status ELSE "none"
        /\ UNCHANGED <<ioVars, counted, taken>>
     \/ /\ handler = "data"
        /\ taken' = Append(taken, io.data_in)
        /\ handler' = HandlerOrder.data
        /\ UNCHANGED <<ioVars, counted>>
     \/ /\ handler = "ack"
        /\ WriteStatus
        /\ handler' = HandlerOrder.ack
        /\ UNCHANGED <<counted, taken>>
     \/ /\ handler = "count"
        /\ counted' = counted + 1
        /\ handler' = "none"
        /\ UNCHANGED <<ioVars, taken>>
  /\ UNCHANGED <<drvVars, useVars, probe, width, entered, bytes, loads, calls>>

short_interrupt_18 == mod.drv = 18 /\ short_interrupt
short_interrupt_19 == mod.drv = 19 /\ short_interrupt

\* A key is typed.  Bytes are numbered.
Key ==
  /\ bytes < MaxBytes
  /\ ldd_io_keyboard_receive(bytes + 1)
  /\ bytes' = bytes + 1
  /\ entered' = IF mod.phase = "none" THEN entered ELSE Append(entered, bytes + 1)
  /\ UNCHANGED <<drvVars, useVars, handler, counted, probe, width, taken, loads, calls>>

-------------------------------------------------------------------------------
(* The calls.  short_read of 18 and 19 only prints counted and the last    *)
(* byte taken.                                                             *)

\* The minors a file can be opened on; an open file keeps the module loaded.
short_open(minor) ==
  /\ "cdev" \in res /\ mod.phase \in {"init", "up"}
  /\ minor \in IF mod.drv \in Polled THEN {"data", "matrix"} ELSE {"data"}

Set(t, call) == thr' = [thr EXCEPT ![t] = call]
Goto(t, pc) == thr' = [thr EXCEPT ![t].pc = pc]
At(t, pc) == thr[t].pc = pc

\* Bytes are numbered when the call is made, as if typed then.
Call(t) ==
  /\ At(t, "idle") /\ calls < MaxCalls
  /\ \/ /\ short_open("data") /\ mod.drv \in Polled
        /\ \E n \in 1..2, nb \in BOOLEAN :
             Set(t, [pc |-> "lock", call |-> "read", count |-> n, n |-> 0, nb |-> nb])
        /\ UNCHANGED bytes
     \/ /\ short_open("data") /\ bytes + 2 <= MaxBytes
        /\ Set(t, [pc |-> IF mod.drv \in Polled THEN "lock" ELSE "byte",
                   call |-> "write", next |-> bytes + 1, last |-> bytes + 2])
        /\ bytes' = bytes + 2
     \/ /\ short_open("matrix")
        /\ \E s \in Spans, call \in {"mread", "mwrite"}, v \in 0..1 :
             Set(t, [pc |-> "lock", call |-> call, start |-> s[1], pos |-> s[1],
                     end |-> s[2], value |-> IF call = "mread" THEN 0 ELSE v,
                     sizes |-> {}, rows |-> <<>>])
        /\ UNCHANGED bytes
  /\ calls' = calls + 1
  /\ UNCHANGED <<ioVars, drvVars, lock, handler, counted, probe, width, histVars, loads>>

\* The rows one access moves: two 32-bit writes for the whole picture in 15 and
\* 16, 17 by its parameter, bytes otherwise.
matrix_read_15(whole) == {1}
matrix_read_16(whole) == {1}
matrix_read_17(whole) == IF whole THEN {8} ELSE {1}
matrix_write_15(whole) == IF whole THEN {4} ELSE {1}
matrix_write_16(whole) == IF whole THEN {4} ELSE {1}
matrix_put == IF width = 0 THEN {1, 2, 4, 8} ELSE {width}
matrix_write_17(whole) == IF whole THEN matrix_put ELSE {1}

Sizes(c) ==
  LET whole == c.pos = 0 /\ c.end = 8 IN
    IF c.call = "mread"
    THEN CASE mod.drv = 15 -> matrix_read_15(whole)
           [] mod.drv = 16 -> matrix_read_16(whole)
           [] mod.drv = 17 -> matrix_read_17(whole)
    ELSE CASE mod.drv = 15 -> matrix_write_15(whole)
           [] mod.drv = 16 -> matrix_write_16(whole)
           [] mod.drv = 17 -> matrix_write_17(whole)

\* Mutant: a call goes on without the lock.
LockNever(t) == UNCHANGED lock

TakeLock(t) == lock = "free" /\ lock' = t

\* short_lock, or a signal while another thread has it.
Lock(t) ==
  /\ At(t, "lock")
  /\ \/ /\ TakeLock(t)
        /\ CASE thr[t].call = "read" -> Goto(t, "status")
             [] thr[t].call = "write" -> Goto(t, "byte")
             [] OTHER -> Set(t, [thr[t] EXCEPT !.pc = "rows", !.sizes = Sizes(thr[t])])
     \/ lock # "free" /\ Set(t, Idle) /\ UNCHANGED lock
  /\ UNCHANGED <<ioVars, drvVars, handler, counted, probe, width, histVars, bytes,
                 loads, calls>>

\* data_take: while there is room and a byte is ready; then data_read unlocks and
\* copies what it has, whether the copy succeeds or not.
TakeStatus(t) ==
  /\ At(t, "status")
  /\ IF thr[t].n < thr[t].count /\ io.rx_ready THEN Goto(t, "data") /\ UNCHANGED lock
     ELSE /\ lock' = "free"
          /\ IF thr[t].n > 0 \/ thr[t].nb THEN Set(t, Idle) ELSE Goto(t, "poll")
  /\ UNCHANGED <<ioVars, taken>>

TakeData(t) ==
  /\ At(t, "data")
  /\ taken' = Append(taken, io.data_in)
  /\ Set(t, [thr[t] EXCEPT !.n = @ + 1, !.pc = "ack"])
  /\ UNCHANGED <<ioVars, lock>>

TakeAck(t) == At(t, "ack") /\ WriteStatus /\ Goto(t, "status") /\ UNCHANGED <<lock, taken>>

\* readx_poll_timeout: a byte is ready or the slice is over; or a signal.
DataPoll(t) ==
  /\ At(t, "poll")
  /\ Goto(t, "lock") \/ Set(t, Idle)
  /\ UNCHANGED <<ioVars, lock, taken>>

data_take(t) == TakeStatus(t) \/ TakeData(t) \/ TakeAck(t)

data_read(t) ==
  /\ data_take(t) \/ DataPoll(t)
  /\ UNCHANGED <<drvVars, handler, counted, probe, width, entered, bytes, loads, calls>>

\* data_write with the lock, short_write without: a byte to DATA.
data_write(t) ==
  LET b == thr[t].next IN
    /\ At(t, "byte")
    /\ WriteData(b)
    /\ entered' = IF LoopsBack THEN Append(entered, b) ELSE entered
    /\ IF b < thr[t].last THEN Set(t, [thr[t] EXCEPT !.next = b + 1]) /\ UNCHANGED lock
       ELSE Set(t, Idle) /\ lock' = IF mod.drv \in Polled THEN "free" ELSE lock
    /\ UNCHANGED <<drvVars, handler, counted, probe, width, taken, bytes, loads, calls>>

data_read_15(t) == mod.drv = 15 /\ data_read(t)
data_read_16(t) == mod.drv = 16 /\ data_read(t)
data_read_17(t) == mod.drv = 17 /\ data_read(t)
data_write_15(t) == mod.drv = 15 /\ data_write(t)
data_write_16(t) == mod.drv = 16 /\ data_write(t)
data_write_17(t) == mod.drv = 17 /\ data_write(t)
short_write_18(t) == mod.drv = 18 /\ data_write(t)
short_write_19(t) == mod.drv = 19 /\ data_write(t)

\* matrix_read and matrix_write: an access, or the end.
MatrixRows(t) ==
  LET c == thr[t] IN
    /\ At(t, "rows")
    /\ \/ /\ c.pos = c.end
          /\ Set(t, Idle) /\ lock' = "free" /\ UNCHANGED ioVars
       \/ \E k \in c.sizes :
            /\ ldd_io_accepts(c.pos, k) /\ c.pos + k <= c.end
            /\ IF c.call = "mread"
               THEN /\ Set(t, [c EXCEPT !.pos = @ + k,
                                        !.rows = @ \o ReadMatrix(c.pos, k)])
                    /\ UNCHANGED ioVars
               ELSE /\ Set(t, [c EXCEPT !.pos = @ + k])
                    /\ WriteMatrix(c.pos, [i \in 1..k |-> c.value])
            /\ UNCHANGED lock
    /\ UNCHANGED <<drvVars, handler, counted, probe, width, histVars, bytes, loads, calls>>

width_set ==
  /\ mod.drv = 17 /\ mod.phase = "up"
  /\ width' \in Widths
  /\ UNCHANGED <<ioVars, drvVars, useVars, handler, counted, probe, histVars, bytes,
                 loads, calls>>

\* The machine is reset with no driver loaded.
Reset ==
  /\ mod.phase = "none" /\ ldd_io_reset
  /\ UNCHANGED <<drvVars, useVars, handler, counted, probe, width, histVars, bytes,
                 loads, calls>>

\* The viewer of the panel comes, goes and takes what is sent.
Viewer ==
  /\ ldd_io_panel_writable \/ ldd_io_panel_event
  /\ UNCHANGED <<drvVars, useVars, handler, counted, probe, width, histVars, bytes,
                 loads, calls>>

ShortNext ==
  \/ Load \/ InitStep \/ Unload \/ ExitStep \/ short_probe_irq
  \/ Pulse \/ short_interrupt_18 \/ short_interrupt_19 \/ Key \/ width_set \/ Reset \/ Viewer
  \/ \E t \in ShortThreads :
       \/ Call(t) \/ Lock(t) \/ MatrixRows(t)
       \/ data_read_15(t) \/ data_read_16(t) \/ data_read_17(t)
       \/ data_write_15(t) \/ data_write_16(t) \/ data_write_17(t)
       \/ short_write_18(t) \/ short_write_19(t)

ShortSpec == ShortInit /\ [][ShortNext]_shortVars

-------------------------------------------------------------------------------
(* Properties.                                                             *)

\* Every byte the device receives is taken once, and in order, by the polling
\* readers or by the interrupt handler: it is read before it is acknowledged.
BytesTaken ==
  mod.phase # "none" /\ probe.pc = "none" =>
    entered = taken \o IF handler = "ack" \/ \E t \in ShortThreads : At(t, "ack")
                       THEN <<>> ELSE Waiting

\* With the interrupt enabled a byte that waits has a pulse on its way or the
\* handler is about to take it, a byte left by an earlier driver too.
ByteNotStuck ==
  "IRQ_EN" \in io.ctrl /\ io.rx_ready => irq \/ handler \in {"status", "data", "ack"}

\* The device interrupts and loops back only for a driver that has its handler
\* registered or that probes for the line; the handler runs only while the module
\* holds the registers and the line.
InterruptOwned ==
  /\ io.ctrl # {} => "irq" \in res \/ probe.pc # "none"
  /\ handler # "none" => {"region", "irq"} \subseteq res
  /\ mod.phase = "none" => res = {}

\* Rows read stay as they were until matrix_read has them all: a picture is not
\* mixed from two writes.
PictureWhole ==
  \A t \in ShortThreads :
    At(t, "rows") /\ thr[t].call = "mread" =>
      thr[t].rows = ReadMatrix(thr[t].start, Len(thr[t].rows))
===============================================================================
