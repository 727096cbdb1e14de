------------------------------ MODULE ShortProofs ------------------------------
(***************************************************************************)
(* Proofs about ldd-io (module LddIo) and the drivers 15_short_ioport to   *)
(* 19_short_irq_probe on it (module Short), for any threads, bytes, calls, *)
(* loads, tries of the probe and pieces of a frame.                        *)
(*                                                                         *)
(* The invariant ShortInv relates the resources held to the phase of the   *)
(* module and the open files to its node, the device's CTRL to the handler *)
(* and the probe, the rows a thread has read to the matrix it locked, and  *)
(* the screen of the panel to the registers.                               *)
(***************************************************************************)
EXTENDS Short, TLAPS

Regs == [data_out : Nat, data_in : Nat, rx_ready : BOOLEAN,
         ctrl : SUBSET {"IRQ_EN", "LOOPBACK"}, matrix : [Rows -> Nat]]

PanelState == [viewer : {"none", "closed", "open", "gone"}, left : 0..Pieces, frame : Regs,
               dirty : BOOLEAN, watch : BOOLEAN, shown : Regs]

\* PanelFollows for the panel p and the registers regs.  A frame that is out is
\* the one that is shown: a late watch sends it again.
Follows(p, regs) ==
  p.viewer = "open" =>
    \/ p.left = 0 /\ p.shown = regs /\ p.frame = regs
    \/ p.left > 0 /\ p.watch /\ (p.frame = regs \/ p.dirty)

Screen == /\ io \in Regs /\ irq \in BOOLEAN /\ panel \in PanelState
          /\ Follows(panel, io)

\* A viewer who is still there after a write has the frame, or the watch is set.
LEMMA FrameSent ==
  ASSUME NEW p \in PanelState, NEW q \in SendFrame(p)
  PROVE  /\ q \in PanelState
         /\ q.viewer = "open" =>
              /\ p.viewer = "open" /\ q.frame = p.frame /\ q.dirty = p.dirty
              /\ \/ q.left = 0 /\ q.shown = p.frame
                 \/ q.left > 0 /\ q.watch
<1>0. 0 \in 0..Pieces
      BY LddIoAssumption
<1>1. CASE p.viewer = "open"
  <2>1. CASE q = [p EXCEPT !.left = 0, !.shown = p.frame]
        BY <1>0, <1>1, <2>1, Zenon DEF PanelState
  <2>2. CASE q = [p EXCEPT !.left = 0, !.frame = p.shown, !.viewer = "gone"]
        BY <1>0, <1>1, <2>2, Zenon DEF PanelState
  <2>3. CASE \E k \in 1..p.left : q = [p EXCEPT !.left = k, !.watch = TRUE]
    <3>1. PICK k \in 1..p.left : q = [p EXCEPT !.left = k, !.watch = TRUE]
          BY <2>3, Zenon
    <3>2. k \in 0..Pieces /\ k > 0
          BY <3>1, LddIoAssumption DEF PanelState
    <3> QED BY <1>1, <3>1, <3>2, Zenon DEF PanelState
  <2> QED BY <1>1, <2>1, <2>2, <2>3, Zenon DEF SendFrame
<1>2. CASE p.viewer # "open"
  <2>1. PICK d \in BOOLEAN : q = [p EXCEPT !.left = 0, !.frame = p.shown, !.dirty = d]
        BY <1>2, Zenon DEF SendFrame, PanelState
  <2> QED BY <1>0, <1>2, <2>1, Zenon DEF PanelState
<1> QED BY <1>1, <1>2, Zenon

\* ldd_io_build_panel makes a panel whose frame is the registers.
LEMMA PanelBuilt ==
  ASSUME NEW p \in PanelState, NEW regs \in Regs
  PROVE  LET q == ldd_io_build_panel(p, regs) IN
           q \in PanelState /\ q.frame = regs /\ q.viewer = p.viewer
<1>1. Pieces \in 0..Pieces
      BY LddIoAssumption
<1> QED BY <1>1, Zenon DEF ldd_io_build_panel, PanelState

\* Flushing a frame of the registers, or an older one with a redraw put off,
\* leaves a panel that follows them.
LEMMA PanelFlushed ==
  ASSUME NEW p \in PanelState, NEW regs \in Regs, NEW q \in ldd_io_panel_flush(p, regs),
         p.viewer = "open" => p.frame = regs \/ p.dirty
  PROVE  q \in PanelState /\ Follows(q, regs)
<1>1. PICK r \in SendFrame(p) :
        q \in IF r.left = 0 /\ r.viewer = "open" /\ r.dirty
              THEN SendFrame(ldd_io_build_panel([r EXCEPT !.dirty = FALSE], regs))
              ELSE {r}
      BY Zenon DEF ldd_io_panel_flush
<1>2. /\ r \in PanelState
      /\ r.viewer = "open" =>
           /\ p.viewer = "open" /\ r.frame = p.frame /\ r.dirty = p.dirty
           /\ \/ r.left = 0 /\ r.shown = p.frame
              \/ r.left > 0 /\ r.watch
      BY FrameSent, Zenon
<1>3. CASE r.left = 0 /\ r.viewer = "open" /\ r.dirty
  <2>1. PICK s \in PanelState : s = [r EXCEPT !.dirty = FALSE]
        BY <1>2, Zenon DEF PanelState
  <2>2. PICK b \in PanelState : b = ldd_io_build_panel(s, regs) /\ b.frame = regs
        BY PanelBuilt, Zenon
  <2>3. q \in SendFrame(b)
        BY <1>1, <1>3, <2>1, <2>2, Zenon
  <2> QED BY <2>2, <2>3, FrameSent, Zenon DEF Follows
<1>4. CASE ~(r.left = 0 /\ r.viewer = "open" /\ r.dirty)
  <2>1. q = r
        BY <1>1, <1>4, Zenon
  <2> QED BY <1>2, <1>4, <2>1, Zenon DEF Follows
<1> QED BY <1>3, <1>4, Zenon

\* Every change of the registers goes through a redraw, which keeps the panel
\* following them.
LEMMA Redrawn ==
  ASSUME Screen, NEW regs \in Regs, Redraw(regs), irq' \in BOOLEAN
  PROVE  Screen' /\ io' = regs
<1>1. io' = regs /\ panel' \in ldd_io_draw_panel(panel, regs)
      BY Zenon DEF Redraw
<1>2. panel' \in PanelState /\ Follows(panel', regs)
  <2>1. CASE panel.viewer = "none"
        BY <1>1, <2>1, Zenon DEF ldd_io_draw_panel, Screen, Follows
  <2>2. CASE panel.viewer # "none" /\ panel.left > 0
    <3>1. panel' = [panel EXCEPT !.dirty = TRUE]
          BY <1>1, <2>2, Zenon DEF ldd_io_draw_panel
    <3>2. panel' \in PanelState
          BY <3>1, Zenon DEF Screen, PanelState
    <3>3. /\ panel'.left = panel.left /\ panel'.watch = panel.watch /\ panel'.dirty
          /\ panel'.viewer = panel.viewer
          BY <3>1, Zenon DEF Screen, PanelState
    <3> QED BY <2>2, <3>2, <3>3 DEF Screen, Follows
  <2>3. CASE panel.viewer # "none" /\ ~(panel.left > 0)
    <3>1. PICK b \in PanelState : b = ldd_io_build_panel(panel, regs) /\ b.frame = regs
          BY PanelBuilt, Zenon DEF Screen
    <3>2. panel' \in ldd_io_panel_flush(b, regs)
          BY <1>1, <2>3, <3>1, Zenon DEF ldd_io_draw_panel
    <3> QED BY <3>1, <3>2, PanelFlushed, Zenon
  <2> QED BY <2>1, <2>2, <2>3, Zenon
<1> QED BY <1>1, <1>2, Zenon DEF Screen

\* ldd_io_panel_drop makes a panel.
LEMMA PanelDropped ==
  ASSUME Screen
  PROVE  ldd_io_panel_drop(panel) \in PanelState
<1>1. 0 \in 0..Pieces
      BY LddIoAssumption
<1> QED BY <1>1, Zenon DEF Screen, PanelState, ldd_io_panel_drop

\* The steps of the viewer keep it too.
LEMMA ViewerMoved ==
  ASSUME Screen, ldd_io_panel_writable \/ ldd_io_panel_event
  PROVE  Screen' /\ UNCHANGED <<io, irq>>
<1>0. UNCHANGED <<io, irq>>
      BY Zenon DEF ldd_io_panel_writable, ldd_io_panel_event
<1>1. CASE ldd_io_panel_writable
  <2>1. PICK p \in PanelState : p = [panel EXCEPT !.watch = FALSE]
        BY Zenon DEF Screen, PanelState
  <2>2. p.viewer = panel.viewer /\ p.frame = panel.frame /\ p.dirty = panel.dirty
        BY <2>1, Zenon DEF Screen, PanelState
  <2>3. panel' \in ldd_io_panel_flush(p, io)
        BY <1>1, <2>1, Zenon DEF ldd_io_panel_writable
  <2>4. p.viewer = "open" => p.frame = io \/ p.dirty
        BY <2>2, Zenon DEF Screen, Follows
  <2> QED BY <1>0, <2>3, <2>4, PanelFlushed, Zenon DEF Screen
<1>2. CASE /\ panel.viewer = "closed"
           /\ panel' \in ldd_io_panel_flush(
                           ldd_io_build_panel(
                             [ldd_io_panel_drop(panel) EXCEPT !.viewer = "open"], io), io)
  <2>1. PICK p \in PanelState : p = [ldd_io_panel_drop(panel) EXCEPT !.viewer = "open"]
        BY PanelDropped, Zenon DEF PanelState
  <2>2. PICK b \in PanelState : b = ldd_io_build_panel(p, io) /\ b.frame = io
        BY PanelBuilt, Zenon DEF Screen
  <2>3. panel' \in ldd_io_panel_flush(b, io)
        BY <1>2, <2>1, <2>2, Zenon
  <2> QED BY <1>0, <2>2, <2>3, PanelFlushed, Zenon DEF Screen
<1>3. CASE panel' = [ldd_io_panel_drop(panel) EXCEPT
                       !.viewer = "closed", !.shown = Cleared, !.frame = Cleared]
  <2>1. Cleared \in Regs
        BY Zenon DEF Cleared, Regs
  <2>2. panel' \in PanelState /\ panel'.viewer = "closed"
        BY <1>3, <2>1, PanelDropped, Zenon DEF PanelState
  <2> QED BY <1>0, <2>2, Zenon DEF Screen, Follows
<1> QED BY <1>1, <1>2, <1>3, Zenon DEF ldd_io_panel_event

\* A byte written to DATA is received only in loopback and with none waiting.
LEMMA DataWritten ==
  ASSUME Screen, NEW b \in Nat, WriteData(b)
  PROVE  /\ Screen' /\ io'.ctrl = io.ctrl /\ io'.matrix = io.matrix
         /\ io'.rx_ready = (io.rx_ready \/ LoopsBack)
         /\ io'.data_in = IF LoopsBack THEN b ELSE io.data_in
         /\ irq' = (irq \/ (LoopsBack /\ "IRQ_EN" \in io.ctrl))
<1>1. PICK regs \in Regs : regs = [io EXCEPT !.data_out = b]
      BY Zenon DEF Screen, Regs
<1>2. /\ regs.ctrl = io.ctrl /\ regs.matrix = io.matrix
      /\ regs.rx_ready = io.rx_ready /\ regs.data_in = io.data_in
      BY <1>1, Zenon DEF Screen, Regs
<1>3. PICK new \in Regs : new = IF LoopsBack THEN ldd_io_receive_byte(regs, b) ELSE regs
      BY Zenon DEF Regs, ldd_io_receive_byte
<1>4. /\ new.ctrl = io.ctrl /\ new.matrix = io.matrix
      /\ new.rx_ready = IF LoopsBack THEN TRUE ELSE io.rx_ready
      /\ new.data_in = IF LoopsBack THEN b ELSE io.data_in
      BY <1>2, <1>3, Zenon DEF Regs, ldd_io_receive_byte
<1>5. irq' = (irq \/ (LoopsBack /\ "IRQ_EN" \in io.ctrl)) /\ Redraw(new)
      BY <1>1, <1>3, Zenon DEF WriteData
<1>6. irq' \in BOOLEAN
      BY <1>5, Zenon
<1>7. Screen' /\ io' = new
      BY <1>5, <1>6, Redrawn, Zenon
<1>8. io'.rx_ready = (io.rx_ready \/ LoopsBack)
      BY <1>4, <1>7, Zenon DEF Screen, Regs
<1> QED BY <1>4, <1>5, <1>7, <1>8, Zenon

\* RX_READY is acknowledged.
LEMMA StatusWritten ==
  ASSUME Screen, WriteStatus
  PROVE  /\ Screen' /\ io'.ctrl = io.ctrl /\ io'.matrix = io.matrix
         /\ io'.rx_ready = FALSE /\ io'.data_in = io.data_in /\ irq' = irq
<1>1. PICK regs \in Regs : regs = [io EXCEPT !.rx_ready = FALSE]
      BY Zenon DEF Screen, Regs
<1>2. /\ regs.ctrl = io.ctrl /\ regs.matrix = io.matrix
      /\ regs.rx_ready = FALSE /\ regs.data_in = io.data_in
      BY <1>1, Zenon DEF Screen, Regs
<1>3. Redraw(regs) /\ irq' = irq /\ irq' \in BOOLEAN
      BY <1>1, Zenon DEF WriteStatus, Screen
<1>4. Screen' /\ io' = regs
      BY <1>3, Redrawn, Zenon
<1> QED BY <1>2, <1>3, <1>4, Zenon

\* CTRL is written, with a pulse for a byte that waits.
LEMMA CtrlWritten ==
  ASSUME Screen, NEW c \in SUBSET {"IRQ_EN", "LOOPBACK"}, WriteCtrl(c)
  PROVE  /\ Screen' /\ io'.ctrl = c /\ io'.matrix = io.matrix
         /\ io'.rx_ready = io.rx_ready /\ io'.data_in = io.data_in
         /\ irq' = (irq \/ (io.rx_ready /\ "IRQ_EN" \in c \ io.ctrl))
<1>1. PICK regs \in Regs : regs = [io EXCEPT !.ctrl = c]
      BY Zenon DEF Screen, Regs
<1>2. /\ regs.ctrl = c /\ regs.matrix = io.matrix
      /\ regs.rx_ready = io.rx_ready /\ regs.data_in = io.data_in
      BY <1>1, Zenon DEF Screen, Regs
<1>3. Redraw(regs) /\ irq' = (irq \/ (io.rx_ready /\ "IRQ_EN" \in c \ io.ctrl))
      BY <1>1, Zenon DEF WriteCtrl
<1>4. irq' \in BOOLEAN
      BY <1>3, Zenon
<1>5. Screen' /\ io' = regs
      BY <1>3, <1>4, Redrawn, Zenon
<1> QED BY <1>2, <1>3, <1>5, Zenon

\* Rows of the matrix are written; nothing else changes.
LEMMA MatrixWritten ==
  ASSUME Screen, NEW row \in Nat, NEW k \in Nat, NEW v \in Nat,
         WriteMatrix(row, [i \in 1..k |-> v])
  PROVE  /\ Screen' /\ io'.ctrl = io.ctrl /\ irq' = irq
         /\ io'.rx_ready = io.rx_ready /\ io'.data_in = io.data_in
<1> DEFINE value == [i \in 1..k |-> v]
           matrix == [r \in Rows |-> IF r \in row..(row + Len(value) - 1)
                                     THEN value[r - row + 1] ELSE io.matrix[r]]
<1>1. matrix \in [Rows -> Nat]
  <2>1. Len(value) = k
        OBVIOUS
  <2>2. ASSUME NEW r \in Rows, r \in row..(row + Len(value) - 1)
        PROVE  value[r - row + 1] \in Nat
        BY <2>1, <2>2 DEF Rows
  <2>3. io.matrix \in [Rows -> Nat]
        BY Zenon DEF Screen, Regs
  <2> QED BY <2>2, <2>3, Zenon
<1> HIDE DEF value
<1>2. Redraw([io EXCEPT !.matrix = matrix]) /\ irq' = irq
      BY Zenon DEF WriteMatrix, value
<1> HIDE DEF matrix
<1>3. PICK regs \in Regs : regs = [io EXCEPT !.matrix = matrix]
      BY <1>1, Zenon DEF Screen, Regs
<1>4. regs.ctrl = io.ctrl /\ regs.rx_ready = io.rx_ready /\ regs.data_in = io.data_in
      BY <1>3, Zenon DEF Screen, Regs
<1>5. Screen' /\ io' = regs
      BY <1>2, <1>3, Redrawn, Zenon DEF Screen
<1> QED BY <1>2, <1>4, <1>5, Zenon

\* A byte comes from the keyboard.
LEMMA KeyReceived ==
  ASSUME Screen, NEW b \in Nat, ldd_io_keyboard_receive(b)
  PROVE  /\ Screen' /\ io'.ctrl = io.ctrl /\ io'.matrix = io.matrix
         /\ io.rx_ready = FALSE /\ io'.rx_ready = TRUE /\ io'.data_in = b
         /\ irq' = (irq \/ "IRQ_EN" \in io.ctrl)
<1>1. PICK regs \in Regs : regs = ldd_io_receive_byte(io, b)
      BY Zenon DEF Screen, Regs, ldd_io_receive_byte
<1>2. /\ regs.ctrl = io.ctrl /\ regs.matrix = io.matrix
      /\ regs.rx_ready = TRUE /\ regs.data_in = b
      BY <1>1, Zenon DEF Screen, Regs, ldd_io_receive_byte
<1>3. Redraw(regs) /\ irq' = (irq \/ "IRQ_EN" \in io.ctrl) /\ ~io.rx_ready
      BY <1>1, Zenon DEF ldd_io_keyboard_receive, ldd_io_keyboard_can_receive
<1>4. irq' \in BOOLEAN
      BY <1>3, Zenon
<1>5. Screen' /\ io' = regs
      BY <1>3, <1>4, Redrawn, Zenon
<1>6. io.rx_ready = FALSE
      BY <1>3, Zenon DEF Screen, Regs
<1> QED BY <1>2, <1>3, <1>5, <1>6, Zenon

\* After a reset the device is silent and empty.
LEMMA DeviceReset ==
  ASSUME Screen, ldd_io_reset
  PROVE  Screen' /\ io'.ctrl = {} /\ io'.rx_ready = FALSE
<1>1. Cleared \in Regs /\ Cleared.ctrl = {} /\ Cleared.rx_ready = FALSE
      BY Zenon DEF Cleared, Regs
<1>2. Redraw(Cleared) /\ irq' \in BOOLEAN
      BY Zenon DEF ldd_io_reset
<1> QED BY <1>1, <1>2, Redrawn, Zenon

-------------------------------------------------------------------------------
(* The inductive invariant of the drivers.                                 *)

ShortDrivers == Polled \cup {18, 19}

ReadCall == [pc : {"lock", "status", "data", "ack", "poll"}, call : {"read"}, count : Nat,
             n : Nat, nb : BOOLEAN]
WriteCall == [pc : {"lock", "byte"}, call : {"write"}, next : Nat, last : Nat]
MatrixCall == [pc : {"lock", "rows"}, call : {"mread", "mwrite"}, start : 0..8, pos : 0..8,
               end : 0..8, value : 0..1, sizes : SUBSET {1, 2, 4, 8}, rows : Seq(Nat)]
ShortCall == {Idle} \cup ReadCall \cup WriteCall \cup MatrixCall

ShortModule == [drv : {0} \cup ShortDrivers, phase : {"none", "init", "up", "exit"}, step : 0..6]
ShortProbe == [pc : {"none", "drain", "on", "ctrl", "data", "off", "quiet", "ack"},
               tries : Nat, found : BOOLEAN]

ShortTypes ==
  /\ mod \in ShortModule /\ probe \in ShortProbe
  /\ lock \in ShortThreads \cup {"free"} /\ thr \in [ShortThreads -> ShortCall]
  /\ handler \in {"none", "status", "data", "ack", "count"}
  /\ width \in {0, 1, 2, 4, 8} /\ entered \in Seq(Nat) /\ taken \in Seq(Nat)
  /\ bytes \in Nat

\* What m_init holds before its step k, and m_exit.
InitHeld(d, k) == {m_init(d)[i] : i \in 1..(k - 1)} \ {"probe", "enable"}
ExitHeld(d, k) == {m_exit(d)[i] : i \in k..Len(m_exit(d))} \ {"quiet"}

\* The module holds what its steps have taken, is silent but for the probing and
\* from the last step of m_init to the first of m_exit, and has its handler only
\* while it has the line.
ShortStages ==
  /\ mod.phase = "none" => res = {}
  /\ mod.phase # "none" => mod.drv \in ShortDrivers
  /\ mod.phase = "init" =>
       mod.step \in 1..Len(m_init(mod.drv)) /\ res = InitHeld(mod.drv, mod.step)
  /\ mod.phase = "up" => mod.step = 1
  /\ mod.phase \in {"up", "exit"} =>
       mod.step \in 1..Len(m_exit(mod.drv)) /\ res = ExitHeld(mod.drv, mod.step)
  /\ probe.pc # "none" => mod.phase = "init" /\ mod.drv = 19 /\ mod.step = 2
  /\ io.ctrl # {} => \/ probe.pc \in {"data", "off", "quiet"}
                     \/ mod.drv \in {18, 19} /\ mod.phase \in {"up", "exit"} /\ mod.step = 1
  /\ handler # "none" => "irq" \in res

\* The call c of thread t fits the driver and who has the lock.
Fitting(t, c, owner) ==
  /\ c # Idle => "cdev" \in res /\ mod.phase \in {"init", "up"}
  /\ c \in ReadCall \cup MatrixCall \/ c.pc = "lock" => mod.drv \in Polled
  /\ c.pc \in {"status", "data", "ack", "rows"} => owner = t
  /\ c.pc = "byte" /\ mod.drv \in Polled => owner = t

ShortCalls == \A t \in ShortThreads : Fitting(t, thr[t], lock)

\* Nobody acknowledges a byte before the one who is reading it.
ShortReady ==
  /\ handler \in {"data", "ack"} => io.rx_ready
  /\ \A t \in ShortThreads : thr[t].pc \in {"data", "ack"} => io.rx_ready

\* The sequence s is the rows of the matrix m from start on.
RowsOf(m, start, s) == \A i \in 1..Len(s) : s[i] = m[start + i - 1]

\* How far a call has come with the rows, and that they are still what it read.
RowsRead(c) ==
  c \in MatrixCall =>
    /\ c.pc = "lock" => c.rows = <<>> /\ c.pos = c.start
    /\ c.call = "mread" =>
         /\ c.pos = c.start + Len(c.rows)
         /\ c.pc = "rows" => RowsOf(io.matrix, c.start, c.rows)

ShortRows == \A t \in ShortThreads : RowsRead(thr[t])

ShortInv ==
  /\ Screen /\ ShortTypes /\ ShortStages /\ ShortCalls /\ ShortReady /\ ShortRows
  /\ BytesTaken /\ ByteNotStuck

-------------------------------------------------------------------------------
(* What the drivers take and give back.                                    *)

\* The steps of each m_init.
LEMMA InitTable ==
  ASSUME NEW d
  PROVE  /\ d = 15 => m_init(d) = <<"region", "devno", "cdev">>
         /\ d \in {16, 17} => m_init(d) = <<"region", "map", "devno", "cdev">>
         /\ d = 18 => m_init(d) = <<"region", "irq", "devno", "cdev", "enable">>
         /\ d = 19 => m_init(d) = <<"region", "probe", "irq", "devno", "cdev", "enable">>
BY DEF m_init, m_init_15, m_init_16, m_init_17, m_init_18, m_init_19

\* The steps of each m_exit.
LEMMA ExitTable ==
  ASSUME NEW d
  PROVE  /\ d = 15 => m_exit(d) = <<"cdev", "devno", "region">>
         /\ d \in {16, 17} => m_exit(d) = <<"cdev", "devno", "map", "region">>
         /\ d \in {18, 19} => m_exit(d) = <<"quiet", "irq", "cdev", "devno", "region">>
BY DEF m_exit, m_exit_15, m_exit_16, m_exit_17, m_exit_18, m_exit_19

\* A module that is up holds what m_exit gives back.
LEMMA AllHeld ==
  ASSUME NEW d \in ShortDrivers
  PROVE  InitHeld(d, Len(m_init(d)) + 1) = ExitHeld(d, 1)
<1>1. CASE d = 15
  <2>1. /\ Len(m_init(d)) = 3
        /\ m_init(d)[1] = "region" /\ m_init(d)[2] = "devno" /\ m_init(d)[3] = "cdev"
        BY <1>1, InitTable
  <2>2. InitHeld(d, Len(m_init(d)) + 1) = {"region", "devno", "cdev"}
        BY <2>1 DEF InitHeld
  <2>3. /\ Len(m_exit(d)) = 3
        /\ m_exit(d)[1] = "cdev" /\ m_exit(d)[2] = "devno" /\ m_exit(d)[3] = "region"
        BY <1>1, ExitTable
  <2>4. ExitHeld(d, 1) = {"region", "devno", "cdev"}
        BY <2>3 DEF ExitHeld
  <2> QED BY <2>2, <2>4, Zenon
<1>2. CASE d \in {16, 17}
  <2>1. /\ Len(m_init(d)) = 4
        /\ m_init(d)[1] = "region" /\ m_init(d)[2] = "map" /\ m_init(d)[3] = "devno"
        /\ m_init(d)[4] = "cdev"
        BY <1>2, InitTable
  <2>2. InitHeld(d, Len(m_init(d)) + 1) = {"region", "map", "devno", "cdev"}
        BY <2>1 DEF InitHeld
  <2>3. /\ Len(m_exit(d)) = 4
        /\ m_exit(d)[1] = "cdev" /\ m_exit(d)[2] = "devno" /\ m_exit(d)[3] = "map"
        /\ m_exit(d)[4] = "region"
        BY <1>2, ExitTable
  <2>4. ExitHeld(d, 1) = {"region", "map", "devno", "cdev"}
        BY <2>3 DEF ExitHeld
  <2> QED BY <2>2, <2>4, Zenon
<1>3. CASE d = 18
  <2>1. /\ Len(m_init(d)) = 5
        /\ m_init(d)[1] = "region" /\ m_init(d)[2] = "irq" /\ m_init(d)[3] = "devno"
        /\ m_init(d)[4] = "cdev" /\ m_init(d)[5] = "enable"
        BY <1>3, InitTable
  <2>2. InitHeld(d, Len(m_init(d)) + 1) = {"region", "irq", "devno", "cdev"}
        BY <2>1 DEF InitHeld
  <2>3. /\ Len(m_exit(d)) = 5
        /\ m_exit(d)[1] = "quiet" /\ m_exit(d)[2] = "irq" /\ m_exit(d)[3] = "cdev"
        /\ m_exit(d)[4] = "devno" /\ m_exit(d)[5] = "region"
        BY <1>3, ExitTable
  <2>4. ExitHeld(d, 1) = {"region", "irq", "devno", "cdev"}
        BY <2>3 DEF ExitHeld
  <2> QED BY <2>2, <2>4, Zenon
<1>4. CASE d = 19
  <2>1. /\ Len(m_init(d)) = 6
        /\ m_init(d)[1] = "region" /\ m_init(d)[2] = "probe" /\ m_init(d)[3] = "irq"
        /\ m_init(d)[4] = "devno" /\ m_init(d)[5] = "cdev" /\ m_init(d)[6] = "enable"
        BY <1>4, InitTable
  <2>2. InitHeld(d, Len(m_init(d)) + 1) = {"region", "irq", "devno", "cdev"}
        BY <2>1 DEF InitHeld
  <2>3. /\ Len(m_exit(d)) = 5
        /\ m_exit(d)[1] = "quiet" /\ m_exit(d)[2] = "irq" /\ m_exit(d)[3] = "cdev"
        /\ m_exit(d)[4] = "devno" /\ m_exit(d)[5] = "region"
        BY <1>4, ExitTable
  <2>4. ExitHeld(d, 1) = {"region", "irq", "devno", "cdev"}
        BY <2>3 DEF ExitHeld
  <2> QED BY <2>2, <2>4, Zenon
<1> QED BY <1>1, <1>2, <1>3, <1>4, Zenon DEF ShortDrivers, Polled

\* A step of m_init adds what it takes.
LEMMA OneTaken ==
  ASSUME NEW d \in ShortDrivers, NEW k \in 1..Len(m_init(d))
  PROVE  InitHeld(d, k + 1) = InitHeld(d, k) \cup ({m_init(d)[k]} \ {"probe", "enable"})
<1>1. k \in Nat /\ k >= 1
      BY InitTable DEF ShortDrivers, Polled
<1>2. 1..((k + 1) - 1) = 1..(k - 1) \cup {k}
      BY <1>1
<1> QED BY <1>2, Zenon DEF InitHeld

\* A step of m_exit gives back what it names and nothing else.
LEMMA OneGiven ==
  ASSUME NEW d \in ShortDrivers, NEW k \in 1..Len(m_exit(d))
  PROVE  ExitHeld(d, k + 1) = ExitHeld(d, k) \ {m_exit(d)[k]}
<1>1. CASE d = 15
      BY <1>1, ExitTable DEF ExitHeld
<1>2. CASE d \in {16, 17}
      BY <1>2, ExitTable DEF ExitHeld
<1>3. CASE d \in {18, 19}
      BY <1>3, ExitTable DEF ExitHeld
<1> QED BY <1>1, <1>2, <1>3, Zenon DEF ShortDrivers, Polled

\* Nothing is held before the first step of m_init or after the last of m_exit.
LEMMA NoneHeld ==
  ASSUME NEW d \in ShortDrivers
  PROVE  InitHeld(d, 1) = {} /\ ExitHeld(d, Len(m_exit(d)) + 1) = {}
<1>1. Len(m_exit(d)) \in Nat
      BY ExitTable DEF ShortDrivers, Polled
<1> QED BY <1>1 DEF InitHeld, ExitHeld

\* m_init takes the line after the registers, and enables the device and opens it
\* to users when it has both.
LEMMA InitLine ==
  ASSUME NEW d \in ShortDrivers, NEW k \in 1..Len(m_init(d))
  PROVE  /\ "irq" \in InitHeld(d, k) => d \in {18, 19} /\ "region" \in InitHeld(d, k)
         /\ m_init(d)[k] = "enable" =>
              d \in {18, 19} /\ k = Len(m_init(d)) /\ "irq" \in InitHeld(d, k)
         /\ m_init(d)[k] = "probe" => d = 19 /\ k = 2 /\ "irq" \notin InitHeld(d, k)
         /\ "cdev" \in InitHeld(d, k) => m_init(d)[k] = "enable"
<1>1. CASE d = 15
  <2>1. /\ Len(m_init(d)) = 3
        /\ m_init(d)[1] = "region" /\ m_init(d)[2] = "devno" /\ m_init(d)[3] = "cdev"
        BY <1>1, InitTable
  <2>2. k \in {1, 2, 3}
        BY <2>1
  <2> QED BY <1>1, <2>1, <2>2 DEF InitHeld, Polled
<1>2. CASE d \in {16, 17}
  <2>1. /\ Len(m_init(d)) = 4
        /\ m_init(d)[1] = "region" /\ m_init(d)[2] = "map" /\ m_init(d)[3] = "devno"
        /\ m_init(d)[4] = "cdev"
        BY <1>2, InitTable
  <2>2. k \in {1, 2, 3, 4}
        BY <2>1
  <2> QED BY <1>2, <2>1, <2>2 DEF InitHeld, Polled
<1>3. CASE d = 18
  <2>1. /\ Len(m_init(d)) = 5
        /\ m_init(d)[1] = "region" /\ m_init(d)[2] = "irq" /\ m_init(d)[3] = "devno"
        /\ m_init(d)[4] = "cdev" /\ m_init(d)[5] = "enable"
        BY <1>3, InitTable
  <2>2. k \in {1, 2, 3, 4, 5}
        BY <2>1
  <2>3. k > 1 => "region" \in InitHeld(d, k)
        BY <2>1, <2>2 DEF InitHeld
  <2>4. k > 2 => "irq" \in InitHeld(d, k)
        BY <2>1, <2>2 DEF InitHeld
  <2>5. "irq" \in InitHeld(d, k) => k > 1
        BY <2>2 DEF InitHeld
  <2>6. "cdev" \in InitHeld(d, k) => k > 4
        BY <2>1, <2>2 DEF InitHeld
  <2>7. /\ m_init(d)[k] = "enable" <=> k = 5
        /\ m_init(d)[k] = "probe" <=> FALSE
        BY <2>1, <2>2, Zenon
  <2>8. "irq" \in InitHeld(d, k) => "region" \in InitHeld(d, k)
        BY <2>3, <2>5, Zenon
  <2>9. k = 5 => "irq" \in InitHeld(d, k)
        BY <2>4
  <2>10. "cdev" \in InitHeld(d, k) => k = 5
        BY <2>2, <2>6
  <2> QED BY <1>3, <2>1, <2>7, <2>8, <2>9, <2>10, Zenon
<1>4. CASE d = 19
  <2>1. /\ Len(m_init(d)) = 6
        /\ m_init(d)[1] = "region" /\ m_init(d)[2] = "probe" /\ m_init(d)[3] = "irq"
        /\ m_init(d)[4] = "devno" /\ m_init(d)[5] = "cdev" /\ m_init(d)[6] = "enable"
        BY <1>4, InitTable
  <2>2. k \in {1, 2, 3, 4, 5, 6}
        BY <2>1
  <2>3. k > 1 => "region" \in InitHeld(d, k)
        BY <2>1, <2>2 DEF InitHeld
  <2>4. k > 3 => "irq" \in InitHeld(d, k)
        BY <2>1, <2>2 DEF InitHeld
  <2>5. "irq" \in InitHeld(d, k) => k > 3
        BY <2>1, <2>2 DEF InitHeld
  <2>6. "cdev" \in InitHeld(d, k) => k > 5
        BY <2>1, <2>2 DEF InitHeld
  <2>7. /\ m_init(d)[k] = "enable" <=> k = 6
        /\ m_init(d)[k] = "probe" <=> k = 2
        BY <2>1, <2>2, Zenon
  <2>8. "irq" \in InitHeld(d, k) => "region" \in InitHeld(d, k)
        BY <2>3, <2>5
  <2>9. k = 6 => "irq" \in InitHeld(d, k)
        BY <2>4
  <2>10. "cdev" \in InitHeld(d, k) => k = 6
        BY <2>2, <2>6
  <2>11. k = 2 => "irq" \notin InitHeld(d, k)
        BY <2>5
  <2> QED BY <1>4, <2>1, <2>7, <2>8, <2>9, <2>10, <2>11, Zenon
<1> QED BY <1>1, <1>2, <1>3, <1>4, Zenon DEF ShortDrivers, Polled

\* m_exit silences the device first, and gives the line back before the registers.
LEMMA ExitLine ==
  ASSUME NEW d \in ShortDrivers, NEW k \in 1..Len(m_exit(d))
  PROVE  /\ "irq" \in ExitHeld(d, k) => d \in {18, 19} /\ "region" \in ExitHeld(d, k)
         /\ m_exit(d)[k] = "quiet" <=> d \in {18, 19} /\ k = 1
         /\ d \in {18, 19} /\ k = 1 => "irq" \in ExitHeld(d, k)
<1>1. CASE d = 15
  <2>1. /\ Len(m_exit(d)) = 3
        /\ m_exit(d)[1] = "cdev" /\ m_exit(d)[2] = "devno" /\ m_exit(d)[3] = "region"
        BY <1>1, ExitTable
  <2>2. k \in {1, 2, 3}
        BY <2>1
  <2> QED BY <1>1, <2>1, <2>2 DEF ExitHeld, Polled
<1>2. CASE d \in {16, 17}
  <2>1. /\ Len(m_exit(d)) = 4
        /\ m_exit(d)[1] = "cdev" /\ m_exit(d)[2] = "devno" /\ m_exit(d)[3] = "map"
        /\ m_exit(d)[4] = "region"
        BY <1>2, ExitTable
  <2>2. k \in {1, 2, 3, 4}
        BY <2>1
  <2> QED BY <1>2, <2>1, <2>2 DEF ExitHeld, Polled
<1>3. CASE d \in {18, 19}
  <2>1. /\ Len(m_exit(d)) = 5
        /\ m_exit(d)[1] = "quiet" /\ m_exit(d)[2] = "irq" /\ m_exit(d)[3] = "cdev"
        /\ m_exit(d)[4] = "devno" /\ m_exit(d)[5] = "region"
        BY <1>3, ExitTable
  <2>2. k \in {1, 2, 3, 4, 5}
        BY <2>1
  <2> QED BY <1>3, <2>1, <2>2 DEF ExitHeld, Polled
<1> QED BY <1>1, <1>2, <1>3, Zenon DEF ShortDrivers, Polled

-------------------------------------------------------------------------------
(* What the parts of the invariant say together, and when they are kept.   *)

\* Where the calls are.
LEMMA CallTypes ==
  ASSUME ShortTypes, NEW t \in ShortThreads
  PROVE  /\ thr[t] \in ShortCall
         /\ thr[t] = Idle => thr[t].pc = "idle" /\ thr[t] \notin ReadCall \cup WriteCall \cup MatrixCall
         /\ thr[t].pc \in {"status", "data", "ack", "poll"} => thr[t] \in ReadCall
         /\ thr[t].pc = "byte" => thr[t] \in WriteCall
         /\ thr[t].pc = "rows" => thr[t] \in MatrixCall
         /\ thr[t].pc = "idle" => thr[t] = Idle
<1>1. thr[t] \in ShortCall
      BY Zenon DEF ShortTypes
<1>2. PICK c : c = thr[t]
      BY Zenon
<1>3. CASE c = Idle
      BY <1>1, <1>2, <1>3 DEF Idle, ReadCall, WriteCall, MatrixCall
<1>4. CASE c \in ReadCall
      BY <1>1, <1>2, <1>4, Zenon DEF Idle, ReadCall
<1>5. CASE c \in WriteCall
      BY <1>1, <1>2, <1>5, Zenon DEF Idle, WriteCall
<1>6. CASE c \in MatrixCall
      BY <1>1, <1>2, <1>6, Zenon DEF Idle, MatrixCall
<1> QED BY <1>1, <1>2, <1>3, <1>4, <1>5, <1>6, Zenon DEF ShortCall

\* Without the character device, or outside the life of the module, nobody calls.
LEMMA NobodyCalls ==
  ASSUME ShortCalls, "cdev" \notin res \/ mod.phase \notin {"init", "up"}
  PROVE  \A t \in ShortThreads : thr[t] = Idle
BY Zenon DEF ShortCalls, Fitting

\* A driver takes its bytes in the handler or in the calls, not in both, and not
\* while it probes.
LEMMA HandlerAlone ==
  ASSUME ShortTypes, ShortStages, ShortCalls, handler # "none"
  PROVE  /\ mod.phase # "none" /\ mod.drv \in {18, 19} /\ probe.pc = "none"
         /\ {"region", "irq"} \subseteq res
         /\ \A t \in ShortThreads : thr[t].pc \notin {"status", "data", "ack"}
<1>1. "irq" \in res
      BY Zenon DEF ShortStages
<1>2. mod.phase # "none" /\ mod.drv \in ShortDrivers
      BY <1>1, Zenon DEF ShortStages
<1>3. mod.drv \in {18, 19} /\ "region" \in res
  <2>1. CASE mod.phase = "init"
    <3>1. mod.step \in 1..Len(m_init(mod.drv)) /\ res = InitHeld(mod.drv, mod.step)
          BY <2>1, Zenon DEF ShortStages
    <3> QED BY <1>1, <1>2, <3>1, InitLine, Zenon
  <2>2. CASE mod.phase \in {"up", "exit"}
    <3>1. mod.step \in 1..Len(m_exit(mod.drv)) /\ res = ExitHeld(mod.drv, mod.step)
          BY <2>2, Zenon DEF ShortStages
    <3> QED BY <1>1, <1>2, <3>1, ExitLine
  <2> QED BY <1>2, <2>1, <2>2, Zenon DEF ShortTypes, ShortModule
<1>4. probe.pc = "none"
  <2> SUFFICES ASSUME probe.pc # "none" PROVE FALSE
        BY Zenon
  <2>1. /\ mod.drv = 19 /\ mod.step = 2
        /\ mod.step \in 1..Len(m_init(mod.drv)) /\ res = InitHeld(mod.drv, mod.step)
        BY Zenon DEF ShortStages
  <2>2. m_init(mod.drv)[mod.step] = "probe"
        BY <2>1, InitTable
  <2> QED BY <1>1, <1>2, <2>1, <2>2, InitLine, Zenon
<1>5. \A t \in ShortThreads : thr[t].pc \notin {"status", "data", "ack"}
      BY <1>3, CallTypes DEF ShortCalls, Fitting, Polled
<1> QED BY <1>1, <1>2, <1>3, <1>4, <1>5, Zenon

\* While the driver probes for its line nobody uses it.
LEMMA ProbeAlone ==
  ASSUME ShortTypes, ShortStages, ShortCalls, probe.pc # "none"
  PROVE  handler = "none" /\ \A t \in ShortThreads : thr[t] = Idle
<1>1. handler = "none"
      BY HandlerAlone, Zenon
<1>2. /\ mod.drv = 19 /\ mod.step = 2 /\ mod.drv \in ShortDrivers
      /\ mod.step \in 1..Len(m_init(mod.drv)) /\ res = InitHeld(mod.drv, mod.step)
      BY Zenon DEF ShortStages
<1>3. m_init(mod.drv)[mod.step] = "probe"
      BY <1>2, InitTable
<1>4. "cdev" \notin res
      BY <1>2, <1>3, InitLine, Zenon
<1> QED BY <1>1, <1>4, NobodyCalls, Zenon

\* Who has the lock keeps the others out.
LEMMA OneOwner ==
  ASSUME ShortCalls, NEW t \in ShortThreads, NEW u \in ShortThreads,
         thr[t].pc \in {"status", "data", "ack", "rows"},
         thr[u].pc \in {"status", "data", "ack", "rows"}
  PROVE  t = u
BY Zenon DEF ShortCalls, Fitting

\* A step of a thread that takes or gives back the lock, or neither, leaves the
\* other calls fitting.
LEMMA CallSteps ==
  ASSUME ShortTypes, ShortCalls, NEW t \in ShortThreads, NEW c \in ShortCall,
         thr' = [thr EXCEPT ![t] = c], UNCHANGED <<mod, res>>, Fitting(t, c, lock'),
         \/ lock' = lock
         \/ lock = "free" /\ lock' = t
         \/ lock = t /\ lock' = "free"
  PROVE  /\ ShortCalls'
         /\ lock' \in ShortThreads \cup {"free"} /\ thr' \in [ShortThreads -> ShortCall]
         /\ thr'[t] = c /\ \A u \in ShortThreads : u # t => thr'[u] = thr[u]
<1>1. /\ lock' \in ShortThreads \cup {"free"} /\ thr' \in [ShortThreads -> ShortCall]
      /\ thr'[t] = c /\ \A u \in ShortThreads : u # t => thr'[u] = thr[u]
      BY Zenon DEF ShortTypes
<1>2. ASSUME NEW u \in ShortThreads PROVE Fitting(u, thr[u], lock)
      BY Zenon DEF ShortCalls
<1>3. ASSUME NEW u \in ShortThreads, u # t PROVE Fitting(u, thr[u], lock)'
  <2>1. lock = u => lock' = u
        BY <1>3, ShortAssumption, Zenon
  <2>2. thr'[u] = thr[u]
        BY <1>1, <1>3, Zenon
  <2> QED BY <1>2, <2>1, <2>2, Zenon DEF Fitting
<1>4. Fitting(t, thr[t], lock)'
      BY <1>1, Zenon DEF Fitting
<1> QED BY <1>1, <1>3, <1>4, Zenon DEF ShortCalls

\* Calls that stay where they are fit as long as the module is there.
LEMMA CallsStay ==
  ASSUME ShortTypes, ShortCalls, UNCHANGED <<lock, thr>>,
         \/ \A t \in ShortThreads : thr[t] = Idle
         \/ /\ mod'.drv = mod.drv /\ ("cdev" \in res => "cdev" \in res')
            /\ mod.phase \in {"init", "up"} => mod'.phase \in {"init", "up"}
  PROVE  ShortCalls'
<1> SUFFICES ASSUME NEW t \in ShortThreads PROVE Fitting(t, thr[t], lock)'
      BY Zenon DEF ShortCalls
<1>1. Fitting(t, thr[t], lock)
      BY Zenon DEF ShortCalls
<1>2. CASE thr[t] = Idle
      BY <1>2, CallTypes, Zenon DEF Fitting
<1>3. CASE thr[t] # Idle
      BY <1>1, <1>3, Zenon DEF Fitting
<1> QED BY <1>2, <1>3, Zenon

\* Rows that were read stay as they are while the matrix does.
LEMMA RowsStay ==
  ASSUME ShortTypes, ShortRows, UNCHANGED thr,
         io'.matrix = io.matrix \/ \A t \in ShortThreads : thr[t] = Idle
  PROVE  ShortRows'
<1> SUFFICES ASSUME NEW t \in ShortThreads PROVE RowsRead(thr[t])'
      BY Zenon DEF ShortRows
<1>1. RowsRead(thr[t])
      BY Zenon DEF ShortRows
<1>2. CASE thr[t] = Idle
      BY <1>2, CallTypes, Zenon DEF RowsRead
<1>3. CASE io'.matrix = io.matrix
      BY <1>1, <1>3, Zenon DEF RowsRead
<1> QED BY <1>2, <1>3, Zenon

\* The bytes are as they were.
LEMMA BytesStay ==
  ASSUME BytesTaken, UNCHANGED <<entered, taken, handler>>,
         mod'.phase = "none" \/ probe'.pc # "none" \/ (mod.phase # "none" /\ probe.pc = "none"),
         io'.rx_ready = io.rx_ready, io'.data_in = io.data_in,
         \A t \in ShortThreads : thr'[t].pc = "ack" <=> thr[t].pc = "ack"
  PROVE  BytesTaken'
<1>1. Waiting' = Waiting
      BY Zenon DEF Waiting
<1> QED BY <1>1, Zenon DEF BytesTaken, At

-------------------------------------------------------------------------------
(* Loading and unloading.                                                  *)

\* Every m_init and m_exit has a first step and at most six.
LEMMA StepBounds ==
  ASSUME NEW d \in ShortDrivers
  PROVE  /\ Len(m_init(d)) \in 1..6 /\ 1 \in 1..Len(m_init(d))
         /\ Len(m_exit(d)) \in 1..6 /\ 1 \in 1..Len(m_exit(d))
<1>1. d \in {15, 16, 17, 18, 19}
      BY Zenon DEF ShortDrivers, Polled
<1>2. /\ Len(<<"region", "devno", "cdev">>) = 3
      /\ Len(<<"region", "map", "devno", "cdev">>) = 4
      /\ Len(<<"region", "irq", "devno", "cdev", "enable">>) = 5
      /\ Len(<<"region", "probe", "irq", "devno", "cdev", "enable">>) = 6
      OBVIOUS
<1>3. /\ Len(<<"cdev", "devno", "region">>) = 3
      /\ Len(<<"cdev", "devno", "map", "region">>) = 4
      /\ Len(<<"quiet", "irq", "cdev", "devno", "region">>) = 5
      OBVIOUS
<1>4. Len(m_init(d)) \in {3, 4, 5, 6}
      BY <1>1, <1>2, InitTable, Zenon
<1>5. Len(m_exit(d)) \in {3, 4, 5}
      BY <1>1, <1>3, ExitTable, Zenon
<1>6. \A n \in {3, 4, 5, 6} : n \in 1..6 /\ 1 \in 1..n
      OBVIOUS
<1> QED BY <1>4, <1>5, <1>6, Zenon

\* The step after step k of n.
LEMMA NextStep ==
  ASSUME NEW n \in 1..6, NEW k \in 1..n
  PROVE  /\ k < n => k + 1 \in 0..6 /\ k + 1 \in 1..n /\ k + 1 > 1
         /\ ~(k < n) => k = n
OBVIOUS

\* Without a module the device is silent, nobody calls and no handler runs.
LEMMA NothingLoaded ==
  ASSUME ShortInv, mod.phase = "none"
  PROVE  /\ res = {} /\ probe.pc = "none" /\ handler = "none" /\ io.ctrl = {}
         /\ \A t \in ShortThreads : thr[t] = Idle
<1>1. res = {} /\ probe.pc = "none"
      BY Zenon DEF ShortInv, ShortStages
<1>2. handler = "none" /\ io.ctrl = {}
      BY <1>1, Zenon DEF ShortInv, ShortStages
<1> QED BY <1>1, <1>2, NobodyCalls, Zenon DEF ShortInv

\* The next driver is loaded on what the last one left.
LEMMA LoadKeeps ==
  ASSUME ShortInv, Load
  PROVE  ShortInv'
<1> USE DEF ShortInv
<1>1. /\ mod.phase = "none" /\ entered' = Waiting /\ taken' = <<>> /\ width' = 8
      /\ UNCHANGED <<io, irq, panel, res, lock, thr, handler, probe, bytes>>
      BY Zenon DEF Load, ioVars, useVars
<1>2. PICK d \in ShortDrivers : mod' = [drv |-> d, phase |-> "init", step |-> 1]
      BY Zenon DEF Load, ShortDrivers
<1>3. /\ res = {} /\ probe.pc = "none" /\ handler = "none" /\ io.ctrl = {}
      /\ \A t \in ShortThreads : thr[t] = Idle
      BY <1>1, NothingLoaded, Zenon
<1>4. Waiting \in Seq(Nat)
  <2>1. io.data_in \in Nat
        BY Zenon DEF Screen, Regs
  <2> QED BY <2>1 DEF Waiting
<1>5. mod'.drv = d /\ mod'.phase = "init" /\ mod'.step = 1 /\ mod' \in ShortModule
      BY <1>2 DEF ShortModule
<1>6. Screen'
      BY <1>1, Zenon DEF Screen, Follows
<1>7. ShortTypes'
      BY <1>1, <1>4, <1>5 DEF ShortTypes
<1>8. ShortStages'
  <2>1. 1 \in 1..Len(m_init(d))
        BY StepBounds, Zenon
  <2>2. res = InitHeld(d, 1)
        BY <1>3, NoneHeld, Zenon
  <2> QED BY <1>1, <1>3, <1>5, <2>1, <2>2, Zenon DEF ShortStages
<1>9. ShortCalls' /\ ShortRows'
      BY <1>1, <1>3, CallsStay, RowsStay, Zenon
<1>10. ShortReady' /\ ByteNotStuck'
      BY <1>1, Zenon DEF ShortReady, ByteNotStuck
<1>11. BytesTaken'
  <2>1. \A t \in ShortThreads : thr'[t].pc # "ack"
        BY <1>1, <1>3, CallTypes, Zenon
  <2>2. Waiting' = Waiting /\ Waiting = <<>> \o Waiting
        BY <1>1, <1>4 DEF Waiting
  <2> QED BY <1>1, <1>3, <2>1, <2>2, Zenon DEF BytesTaken, At
<1> QED BY <1>6, <1>7, <1>8, <1>9, <1>10, <1>11, Zenon

\* After a step of m_init the module holds one thing more, or is up.
LEMMA Advanced ==
  ASSUME ShortTypes, ShortStages, mod.phase = "init", Advance,
         res' = res \cup ({m_init(mod.drv)[mod.step]} \ {"probe", "enable"})
  PROVE  /\ mod' \in ShortModule /\ mod'.drv = mod.drv
         /\ mod'.drv \in ShortDrivers
         /\ \/ /\ mod'.phase = "init" /\ mod.step < Len(m_init(mod.drv))
               /\ mod'.step = mod.step + 1
               /\ mod'.step \in 1..Len(m_init(mod'.drv)) /\ res' = InitHeld(mod'.drv, mod'.step)
            \/ /\ mod'.phase = "up" /\ mod.step = Len(m_init(mod.drv)) /\ mod'.step = 1
               /\ 1 \in 1..Len(m_exit(mod'.drv)) /\ res' = ExitHeld(mod'.drv, 1)
<1>0. mod.step \in 1..Len(m_init(mod.drv))
      BY Zenon DEF ShortStages
<1>1. /\ mod.drv \in ShortDrivers /\ mod.step \in 1..Len(m_init(mod.drv))
      /\ res = InitHeld(mod.drv, mod.step)
      BY Zenon DEF ShortStages
<1>2. Len(m_init(mod.drv)) \in 1..6 /\ 1 \in 1..Len(m_exit(mod.drv))
      BY <1>1, StepBounds, Zenon
<1>3. res' = InitHeld(mod.drv, mod.step + 1)
      BY <1>1, OneTaken, Zenon
<1>4. CASE mod.step < Len(m_init(mod.drv))
  <2>1. mod' = [mod EXCEPT !.step = mod.step + 1]
        BY <1>4, Zenon DEF Advance
  <2>2. mod.step + 1 \in 0..6 /\ mod.step + 1 \in 1..Len(m_init(mod.drv))
        BY <1>0, <1>2, <1>4, NextStep, Zenon
  <2>3. /\ mod' \in ShortModule /\ mod'.drv = mod.drv /\ mod'.phase = "init"
        /\ mod'.step = mod.step + 1
        BY <2>1, <2>2, Zenon DEF ShortTypes, ShortModule
  <2> QED BY <1>1, <1>3, <1>4, <2>2, <2>3, Zenon
<1>5. CASE ~(mod.step < Len(m_init(mod.drv)))
  <2>1. mod' = [mod EXCEPT !.phase = "up", !.step = 1]
        BY <1>5, Zenon DEF Advance
  <2>2. mod.step = Len(m_init(mod.drv))
        BY <1>0, <1>2, <1>5, NextStep, Zenon
  <2>0. 1 \in 0..6
        OBVIOUS
  <2>3. /\ mod' \in ShortModule /\ mod'.drv = mod.drv /\ mod'.phase = "up" /\ mod'.step = 1
        BY <2>0, <2>1, Zenon DEF ShortTypes, ShortModule
  <2>4. res' = ExitHeld(mod.drv, 1)
        BY <1>1, <1>3, <2>2, AllHeld
  <2> QED BY <1>1, <1>2, <2>2, <2>3, <2>4, Zenon
<1> QED BY <1>4, <1>5, Zenon

\* m_init is taken back, before there is a character device to call.
LEMMA Unwound ==
  ASSUME ShortInv, ShortTypes', Screen', mod.phase = "init", Unwind, UNCHANGED <<lock, thr, handler>>,
         "cdev" \notin res, probe'.pc = "none", io'.ctrl = {}, io'.rx_ready \in {io.rx_ready, FALSE}
  PROVE  ShortInv'
<1> USE DEF ShortInv
<1>1. /\ handler = "none" /\ mod' = [drv |-> 0, phase |-> "none", step |-> 0] /\ res' = {}
      BY Zenon DEF Unwind
<1>2. mod'.phase = "none"
      BY <1>1, Zenon
<1>3. \A t \in ShortThreads : thr[t] = Idle
      BY NobodyCalls, Zenon
<1>4. ShortStages'
      BY <1>1, <1>2, Zenon DEF ShortStages
<1>5. ShortCalls' /\ ShortRows'
      BY <1>3, CallsStay, RowsStay, Zenon
<1>6. ShortReady' /\ BytesTaken' /\ ByteNotStuck'
  <2>1. \A t \in ShortThreads : thr'[t].pc = "idle"
        BY <1>3, CallTypes, Zenon
  <2> QED BY <1>1, <1>2, <2>1, Zenon DEF ShortReady, BytesTaken, ByteNotStuck
<1> QED BY <1>4, <1>5, <1>6, Zenon

\* A step of m_init.
LEMMA InitKeeps ==
  ASSUME ShortInv, InitStep
  PROVE  ShortInv'
<1> USE DEF ShortInv
<1> DEFINE what == m_init(mod.drv)[mod.step]
<1>1. /\ mod.phase = "init" /\ probe.pc = "none"
      /\ UNCHANGED <<lock, thr, handler, width, entered, taken, bytes>>
      BY Zenon DEF InitStep, useVars, histVars
<1>2. /\ mod.drv \in ShortDrivers /\ mod.step \in 1..Len(m_init(mod.drv))
      /\ res = InitHeld(mod.drv, mod.step) /\ io.ctrl = {}
      BY <1>1, Zenon DEF ShortStages
<1>3. /\ what = "enable" =>
           mod.drv \in {18, 19} /\ mod.step = Len(m_init(mod.drv)) /\ "irq" \in res
      /\ what = "probe" => mod.drv = 19 /\ mod.step = 2
      /\ "cdev" \in res => what = "enable"
      BY <1>2, InitLine
<1>4. CASE what \notin {"enable", "probe"} /\ Advance /\ res' = res \cup {what} /\ UNCHANGED <<ioVars, probe>>
  <2>1. res' = res \cup ({what} \ {"probe", "enable"})
        BY <1>4, Zenon
  <2>2. /\ mod' \in ShortModule /\ mod'.drv = mod.drv /\ mod'.drv \in ShortDrivers
        /\ \/ /\ mod'.phase = "init"
              /\ mod'.step \in 1..Len(m_init(mod'.drv)) /\ res' = InitHeld(mod'.drv, mod'.step)
           \/ /\ mod'.phase = "up" /\ mod'.step = 1
              /\ 1 \in 1..Len(m_exit(mod'.drv)) /\ res' = ExitHeld(mod'.drv, 1)
        BY <1>1, <1>4, <2>1, Advanced, Zenon
  <2>3. UNCHANGED <<io, irq, panel, probe>>
        BY <1>4, Zenon DEF ioVars
  <2>4. Screen' /\ ShortTypes'
        BY <1>1, <2>2, <2>3 DEF Screen, Follows, ShortTypes
  <2>5. ShortStages'
        BY <1>1, <1>2, <2>1, <2>2, <2>3, Zenon DEF ShortStages
  <2>6. ShortCalls' /\ ShortRows'
        BY <1>1, <2>1, <2>2, <2>3, CallsStay, RowsStay, Zenon
  <2>7. ShortReady' /\ ByteNotStuck'
        BY <1>1, <2>3, Zenon DEF ShortReady, ByteNotStuck
  <2>8. BytesTaken'
        BY <1>1, <2>3, BytesStay, Zenon
  <2> QED BY <2>4, <2>5, <2>6, <2>7, <2>8, Zenon
<1>5. CASE what \notin {"enable", "probe"} /\ Unwind /\ UNCHANGED <<ioVars, probe>>
  <2>1. UNCHANGED <<io, irq, panel, probe>>
        BY <1>5, Zenon DEF ioVars
  <2>2. mod' \in ShortModule
    <3>1. 0 \in 0..6
          OBVIOUS
    <3> QED BY <1>5, <3>1, Zenon DEF Unwind, ShortModule
  <2>3. Screen' /\ ShortTypes'
        BY <1>1, <2>1, <2>2, Zenon DEF Screen, Follows, ShortTypes
  <2>4. "cdev" \notin res
        BY <1>3, <1>5, Zenon
  <2> QED BY <1>1, <1>2, <1>5, <2>1, <2>3, <2>4, Unwound, Zenon
<1>6. CASE /\ what = "probe" /\ probe' = [pc |-> "drain", tries |-> 0, found |-> FALSE]
           /\ UNCHANGED <<ioVars, drvVars>>
  <2>1. UNCHANGED <<io, irq, panel, mod, res>>
        BY <1>6, Zenon DEF ioVars, drvVars
  <2>2. probe'.pc = "drain" /\ probe' \in ShortProbe
        BY <1>6, Zenon DEF ShortProbe
  <2>3. Screen' /\ ShortTypes'
        BY <1>1, <2>1, <2>2, Zenon DEF Screen, Follows, ShortTypes
  <2>4. ShortStages'
        BY <1>1, <1>2, <1>3, <1>6, <2>1, <2>2, Zenon DEF ShortStages
  <2>5. ShortCalls' /\ ShortRows'
        BY <1>1, <2>1, CallsStay, RowsStay, Zenon
  <2>6. ShortReady' /\ ByteNotStuck' /\ BytesTaken'
        BY <1>1, <2>1, <2>2, Zenon DEF ShortReady, ByteNotStuck, BytesTaken
  <2> QED BY <2>3, <2>4, <2>5, <2>6, Zenon
<1>7. CASE /\ what = "enable" /\ WriteCtrl({"IRQ_EN", "LOOPBACK"}) /\ Advance
           /\ UNCHANGED <<res, probe>>
  <2>1. /\ Screen' /\ io'.ctrl = {"IRQ_EN", "LOOPBACK"} /\ io'.matrix = io.matrix
        /\ io'.rx_ready = io.rx_ready /\ io'.data_in = io.data_in
        /\ irq' = (irq \/ (io.rx_ready /\ "IRQ_EN" \in {"IRQ_EN", "LOOPBACK"} \ io.ctrl))
        BY <1>7, CtrlWritten, Zenon
  <2>2. res' = res \cup ({what} \ {"probe", "enable"}) /\ res' = res /\ probe' = probe
        BY <1>7, Zenon
  <2>3. /\ mod' \in ShortModule /\ mod'.drv = mod.drv /\ mod'.drv \in ShortDrivers
        /\ mod'.phase = "up" /\ mod'.step = 1
        /\ 1 \in 1..Len(m_exit(mod'.drv)) /\ res' = ExitHeld(mod'.drv, 1)
    <3>1. ~(mod.step < Len(m_init(mod.drv)))
      <4>1. \A n \in 1..6 : ~(n < n)
            OBVIOUS
      <4> QED BY <1>2, <1>3, <1>7, <4>1, StepBounds, Zenon
    <3> QED BY <1>1, <1>7, <2>2, <3>1, Advanced, Zenon
  <2>4. ShortTypes'
        BY <1>1, <2>2, <2>3, Zenon DEF ShortTypes
  <2>5. ShortStages'
        BY <1>1, <1>3, <1>7, <2>2, <2>3, Zenon DEF ShortStages
  <2>6. ShortCalls' /\ ShortRows'
        BY <1>1, <2>1, <2>2, <2>3, CallsStay, RowsStay, Zenon
  <2>7. ShortReady'
        BY <1>1, <2>1, Zenon DEF ShortReady
  <2>8. ByteNotStuck'
        BY <1>2, <2>1, Zenon DEF ByteNotStuck
  <2>9. BytesTaken'
        BY <1>1, <2>1, <2>2, BytesStay, Zenon
  <2> QED BY <2>1, <2>4, <2>5, <2>6, <2>7, <2>8, <2>9, Zenon
<1> QED BY <1>4, <1>5, <1>6, <1>7, Zenon DEF InitStep

\* rmmod begins when no file is open.
LEMMA UnloadKeeps ==
  ASSUME ShortInv, Unload
  PROVE  ShortInv'
<1> USE DEF ShortInv
<1>1. /\ mod.phase = "up" /\ \A t \in ShortThreads : thr[t] = Idle
      /\ mod' = [mod EXCEPT !.phase = "exit"]
      /\ UNCHANGED <<io, irq, panel, res, lock, thr, handler, probe, width, entered, taken, bytes>>
      BY Zenon DEF Unload, ioVars, useVars, histVars
<1>2. mod' \in ShortModule /\ mod'.drv = mod.drv /\ mod'.phase = "exit" /\ mod'.step = mod.step
      BY <1>1, Zenon DEF ShortTypes, ShortModule
<1>3. Screen' /\ ShortTypes'
      BY <1>1, <1>2, Zenon DEF Screen, Follows, ShortTypes
<1>4. ShortStages'
      BY <1>1, <1>2, Zenon DEF ShortStages
<1>5. ShortCalls' /\ ShortRows'
      BY <1>1, CallsStay, RowsStay, Zenon
<1>6. ShortReady' /\ ByteNotStuck'
      BY <1>1, Zenon DEF ShortReady, ByteNotStuck
<1>7. BytesTaken'
  <2>1. probe.pc = "none"
        BY <1>1, Zenon DEF ShortStages
  <2> QED BY <1>1, <1>2, <2>1, BytesStay, Zenon
<1> QED BY <1>3, <1>4, <1>5, <1>6, <1>7, Zenon

\* After a step of m_exit the module holds one thing less, or is gone.
LEMMA Retreated ==
  ASSUME ShortTypes, ShortStages, mod.phase = "exit",
         res' = res \ {m_exit(mod.drv)[mod.step]},
         mod' = IF mod.step < Len(m_exit(mod.drv)) THEN [mod EXCEPT !.step = @ + 1]
                ELSE [drv |-> 0, phase |-> "none", step |-> 0]
  PROVE  /\ mod' \in ShortModule
         /\ \/ /\ mod'.phase = "exit" /\ mod'.drv = mod.drv /\ mod'.drv \in ShortDrivers
               /\ mod'.step = mod.step + 1 /\ mod'.step # 1
               /\ mod'.step \in 1..Len(m_exit(mod'.drv)) /\ res' = ExitHeld(mod'.drv, mod'.step)
            \/ mod'.phase = "none" /\ res' = {}
<1>0. mod.step \in 1..Len(m_exit(mod.drv))
      BY Zenon DEF ShortStages
<1>1. mod.drv \in ShortDrivers /\ res = ExitHeld(mod.drv, mod.step)
      BY Zenon DEF ShortStages
<1>2. Len(m_exit(mod.drv)) \in 1..6
      BY <1>1, StepBounds, Zenon
<1>3. res' = ExitHeld(mod.drv, mod.step + 1)
      BY <1>0, <1>1, OneGiven, Zenon
<1>4. CASE mod.step < Len(m_exit(mod.drv))
  <2>1. mod' = [mod EXCEPT !.step = mod.step + 1]
        BY <1>4, Zenon
  <2>2. mod.step + 1 \in 0..6 /\ mod.step + 1 \in 1..Len(m_exit(mod.drv)) /\ mod.step + 1 > 1
        BY <1>0, <1>2, <1>4, NextStep, Zenon
  <2>3. /\ mod' \in ShortModule /\ mod'.drv = mod.drv /\ mod'.phase = "exit"
        /\ mod'.step = mod.step + 1
        BY <2>1, <2>2, Zenon DEF ShortTypes, ShortModule
  <2>4. mod.step + 1 # 1
        BY <2>2
  <2> QED BY <1>1, <1>3, <2>2, <2>3, <2>4
<1>5. CASE ~(mod.step < Len(m_exit(mod.drv)))
  <2>1. mod' = [drv |-> 0, phase |-> "none", step |-> 0]
        BY <1>5, Zenon
  <2>2. mod.step = Len(m_exit(mod.drv))
        BY <1>0, <1>2, <1>5, NextStep, Zenon
  <2>3. 0 \in 0..6
        OBVIOUS
  <2>4. mod' \in ShortModule /\ mod'.phase = "none"
        BY <2>1, <2>3 DEF ShortModule
  <2>5. res' = {}
        BY <1>1, <1>3, <2>2, NoneHeld, Zenon
  <2> QED BY <2>4, <2>5, Zenon
<1> QED BY <1>4, <1>5, Zenon

\* A step of m_exit.
LEMMA ExitKeeps ==
  ASSUME ShortInv, ExitStep
  PROVE  ShortInv'
<1> USE DEF ShortInv
<1> DEFINE what == m_exit(mod.drv)[mod.step]
<1>1. /\ mod.phase = "exit"
      /\ mod' = IF mod.step < Len(m_exit(mod.drv)) THEN [mod EXCEPT !.step = @ + 1]
                ELSE [drv |-> 0, phase |-> "none", step |-> 0]
      /\ UNCHANGED <<lock, thr, handler, probe, width, entered, taken, bytes>>
      BY Zenon DEF ExitStep, useVars, histVars
<1>2. /\ mod.drv \in ShortDrivers /\ mod.step \in 1..Len(m_exit(mod.drv))
      /\ res = ExitHeld(mod.drv, mod.step)
      /\ probe.pc = "none" /\ (io.ctrl # {} => mod.drv \in {18, 19} /\ mod.step = 1)
      BY <1>1, Zenon DEF ShortStages
<1>3. what = "quiet" <=> mod.drv \in {18, 19} /\ mod.step = 1
      BY <1>2, ExitLine, Zenon
<1>4. \A t \in ShortThreads : thr[t] = Idle
      BY <1>1, NobodyCalls, Zenon
<1>5. /\ res' = res \ {what} /\ io'.ctrl = {} /\ Screen'
      /\ io'.matrix = io.matrix /\ io'.rx_ready = io.rx_ready /\ io'.data_in = io.data_in
      /\ what = "irq" => handler = "none"
  <2>1. CASE what = "quiet"
    <3>1. WriteCtrl({}) /\ res' = res
          BY <2>1, Zenon DEF ExitStep
    <3>2. "quiet" \notin res
          BY <1>2, Zenon DEF ExitHeld
    <3> QED BY <2>1, <3>1, <3>2, CtrlWritten, Zenon
  <2>2. CASE what # "quiet"
    <3>1. UNCHANGED <<io, irq, panel>> /\ res' = res \ {what} /\ (what = "irq" => handler = "none")
          BY <2>2 DEF ExitStep, ioVars
    <3>2. io.ctrl = {}
          BY <1>2, <1>3, <2>2, Zenon
    <3> QED BY <3>1, <3>2, Zenon DEF Screen, Follows
  <2> QED BY <2>1, <2>2, Zenon
<1>6. /\ mod' \in ShortModule
      /\ \/ /\ mod'.phase = "exit" /\ mod'.drv = mod.drv /\ mod'.drv \in ShortDrivers
            /\ mod'.step \in 1..Len(m_exit(mod'.drv)) /\ res' = ExitHeld(mod'.drv, mod'.step)
         \/ mod'.phase = "none" /\ res' = {}
      BY <1>1, <1>5, Retreated, Zenon
<1>7. ShortTypes'
      BY <1>1, <1>6, Zenon DEF ShortTypes
<1>8. handler' # "none" => "irq" \in res'
  <2>1. CASE handler = "none"
        BY <1>1, <2>1, Zenon
  <2>2. CASE handler # "none"
        BY <1>5, <2>2, Zenon DEF ShortStages
  <2> QED BY <2>1, <2>2, Zenon
<1>9. ShortStages'
      BY <1>1, <1>2, <1>5, <1>6, <1>8, Zenon DEF ShortStages
<1>10. ShortCalls' /\ ShortRows'
      BY <1>1, <1>4, CallsStay, RowsStay, Zenon
<1>11. ShortReady' /\ ByteNotStuck'
      BY <1>1, <1>5, Zenon DEF ShortReady, ByteNotStuck
<1>12. BytesTaken'
      BY <1>1, <1>2, <1>5, <1>6, BytesStay, Zenon
<1> QED BY <1>5, <1>7, <1>9, <1>10, <1>11, <1>12, Zenon

-------------------------------------------------------------------------------
(* Probing for the line, and the interrupt.                                *)

\* What a step of the probing does to the device: it may interrupt only between
\* ProbeCtrl and ProbeQuiet, and is empty at the end.
LEMMA Probed ==
  ASSUME Screen, ShortTypes, ByteNotStuck, handler = "none", handler' = "none",
         io.ctrl # {} => probe.pc \in {"data", "off", "quiet"},
         \/ ProbeDrain \/ ProbeOn \/ ProbeCtrl \/ ProbeData \/ ProbeOff \/ ProbeQuiet \/ ProbeAck
  PROVE  /\ Screen' /\ probe' \in ShortProbe /\ ByteNotStuck'
         /\ io'.ctrl # {} => probe'.pc \in {"data", "off", "quiet"}
         /\ probe'.pc = "none" => io'.rx_ready = FALSE /\ io'.ctrl = {}
<1>0. /\ probe.tries \in Nat /\ probe.found \in BOOLEAN
      /\ probe.pc \in {"none", "drain", "on", "ctrl", "data", "off", "quiet", "ack"}
      BY Zenon DEF ShortTypes, ShortProbe
<1>1. ASSUME NEW pc \in {"on", "ctrl", "data", "off", "ack"}, ProbeGoto(pc)
      PROVE  probe' \in ShortProbe /\ probe'.pc = pc
      BY <1>1, Zenon DEF ProbeGoto, ShortTypes, ShortProbe
<1>2. CASE ProbeDrain
  <2>1. CASE io.rx_ready
    <3>1. WriteStatus /\ probe' = probe /\ probe.pc = "drain"
          BY <1>2, <2>1, Zenon DEF ProbeDrain
    <3> QED BY <3>1, StatusWritten, Zenon DEF ByteNotStuck, ShortTypes
  <2>2. CASE ~io.rx_ready
    <3>1. ProbeGoto("on") /\ UNCHANGED <<io, irq, panel>> /\ probe.pc = "drain"
          BY <1>2, <2>2, Zenon DEF ProbeDrain, ioVars
    <3> QED BY <1>1, <2>2, <3>1, Zenon DEF ByteNotStuck, Screen, Follows
  <2> QED BY <2>1, <2>2, Zenon
<1>3. CASE ProbeOn
  <2>1. irq' = FALSE /\ ProbeGoto("ctrl") /\ UNCHANGED <<io, panel>> /\ probe.pc = "on"
        BY <1>3, Zenon DEF ProbeOn
  <2> QED BY <1>1, <2>1, Zenon DEF ByteNotStuck, Screen, Follows
<1>4. CASE ProbeCtrl
  <2>1. WriteCtrl({"IRQ_EN", "LOOPBACK"}) /\ ProbeGoto("data") /\ probe.pc = "ctrl"
        BY <1>4, Zenon DEF ProbeCtrl
  <2>2. /\ Screen' /\ io'.rx_ready = io.rx_ready
        /\ irq' = (irq \/ (io.rx_ready /\ "IRQ_EN" \in {"IRQ_EN", "LOOPBACK"} \ io.ctrl))
        BY <2>1, CtrlWritten, Zenon
  <2>3. ByteNotStuck'
        BY <2>1, <2>2, Zenon DEF ByteNotStuck
  <2> QED BY <1>1, <2>1, <2>2, <2>3, Zenon
<1>5. CASE ProbeData
  <2>1. WriteData(0) /\ ProbeGoto("off")
        BY <1>5, Zenon DEF ProbeData
  <2>2. /\ Screen' /\ io'.ctrl = io.ctrl
        /\ io'.rx_ready = (io.rx_ready \/ LoopsBack)
        /\ irq' = (irq \/ (LoopsBack /\ "IRQ_EN" \in io.ctrl))
        BY <2>1, DataWritten
  <2>3. ByteNotStuck'
        BY <2>2, Zenon DEF ByteNotStuck
  <2> QED BY <1>1, <2>1, <2>2, <2>3
<1>6. CASE ProbeOff
  <2>1. PICK found \in BOOLEAN : probe' = [probe EXCEPT !.pc = "quiet", !.found = found]
        BY <1>6, Zenon DEF ProbeOff, Screen
  <2>2. probe' \in ShortProbe /\ probe'.pc = "quiet" /\ UNCHANGED <<io, irq, panel>>
        BY <1>6, <2>1, Zenon DEF ProbeOff, ioVars, ShortTypes, ShortProbe
  <2> QED BY <2>2, Zenon DEF ByteNotStuck, Screen, Follows
<1>7. CASE ProbeQuiet
  <2>1. WriteCtrl({}) /\ ProbeGoto("ack")
        BY <1>7, Zenon DEF ProbeQuiet
  <2>2. Screen' /\ io'.ctrl = {}
        BY <2>1, CtrlWritten, Zenon
  <2> QED BY <1>1, <2>1, <2>2, Zenon DEF ByteNotStuck
<1>8. CASE ProbeAck
  <2>1. PICK pc \in {"none", "drain"} : probe' = [probe EXCEPT !.tries = @ + 1, !.pc = pc]
        BY <1>8, Zenon DEF ProbeAck
  <2>0. PICK k \in Nat : k = probe.tries + 1
        BY <1>0
  <2>2. probe' \in ShortProbe /\ probe'.pc = pc
        BY <2>0, <2>1, Zenon DEF ShortTypes, ShortProbe
  <2>3. Screen' /\ io'.ctrl = io.ctrl /\ io'.rx_ready = FALSE
        BY <1>8, StatusWritten, Zenon DEF ProbeAck
  <2>4. io.ctrl = {}
        BY <1>8, Zenon DEF ProbeAck
  <2> QED BY <2>2, <2>3, <2>4, Zenon DEF ByteNotStuck
<1> QED BY <1>2, <1>3, <1>4, <1>5, <1>6, <1>7, <1>8, Zenon

\* A step of short_probe_irq, and what the result leads to.
LEMMA ProbeKeeps ==
  ASSUME ShortInv, short_probe_irq
  PROVE  ShortInv'
<1> USE DEF ShortInv
<1>1. UNCHANGED <<lock, thr, handler, width, bytes>>
      BY Zenon DEF short_probe_irq, useVars
<1>2. probe.pc # "none"
      BY Zenon DEF short_probe_irq, ProbeDrain, ProbeOn, ProbeCtrl, ProbeData, ProbeOff,
         ProbeQuiet,
             ProbeAck
<1>3. handler = "none" /\ \A t \in ShortThreads : thr[t] = Idle
      BY <1>2, ProbeAlone, Zenon
<1>4. /\ mod.phase = "init" /\ mod.drv = 19 /\ mod.step = 2 /\ mod.drv \in ShortDrivers
      /\ mod.step \in 1..Len(m_init(mod.drv)) /\ res = InitHeld(mod.drv, mod.step)
      /\ (io.ctrl # {} => probe.pc \in {"data", "off", "quiet"})
      BY <1>2, Zenon DEF ShortStages
<1>5. m_init(mod.drv)[mod.step] = "probe"
      BY <1>4, InitTable
<1>6. "cdev" \notin res
      BY <1>4, <1>5, InitLine, Zenon
<1>7. /\ Screen' /\ probe' \in ShortProbe /\ ByteNotStuck'
      /\ io'.ctrl # {} => probe'.pc \in {"data", "off", "quiet"}
      /\ probe'.pc = "none" => io'.rx_ready = FALSE /\ io'.ctrl = {}
      BY <1>1, <1>3, <1>4, Probed, Zenon DEF short_probe_irq
<1>8. \A t \in ShortThreads : thr'[t].pc = "idle"
      BY <1>1, <1>3, CallTypes, Zenon
<1>9. ShortRows' /\ ShortReady'
      BY <1>1, <1>3, <1>8, RowsStay, Zenon DEF ShortReady
<1>10. CASE probe'.pc # "none"
  <2>1. UNCHANGED <<mod, res, entered, taken>>
        BY <1>10, Zenon DEF short_probe_irq, drvVars, histVars
  <2>2. ShortTypes'
        BY <1>1, <1>7, <2>1, Zenon DEF ShortTypes
  <2>3. ShortStages'
        BY <1>1, <1>3, <1>4, <1>7, <2>1, Zenon DEF ShortStages
  <2>4. ShortCalls'
        BY <1>1, <1>3, CallsStay, Zenon
  <2>5. BytesTaken'
        BY <1>10, Zenon DEF BytesTaken
  <2> QED BY <1>7, <1>9, <2>2, <2>3, <2>4, <2>5, Zenon
<1>11. CASE probe'.pc = "none"
  <2>1. entered' = <<>> /\ taken' = <<>> /\ ((Advance /\ res' = res) \/ Unwind)
        BY <1>11, Zenon DEF short_probe_irq
  <2>2. CASE Advance /\ res' = res
    <3>1. res' = res \cup ({m_init(mod.drv)[mod.step]} \ {"probe", "enable"})
          BY <1>5, <2>2, Zenon
    <3>2. /\ mod' \in ShortModule /\ mod'.drv = mod.drv /\ mod'.drv \in ShortDrivers
          /\ \/ /\ mod'.phase = "init"
                /\ mod'.step \in 1..Len(m_init(mod'.drv)) /\ res' = InitHeld(mod'.drv, mod'.step)
             \/ /\ mod'.phase = "up" /\ mod'.step = 1
                /\ 1 \in 1..Len(m_exit(mod'.drv)) /\ res' = ExitHeld(mod'.drv, 1)
          BY <1>4, <2>2, <3>1, Advanced, Zenon
    <3>3. ShortTypes'
          BY <1>1, <1>7, <2>1, <3>2 DEF ShortTypes
    <3>4. ShortStages'
          BY <1>1, <1>3, <1>7, <1>11, <3>2, Zenon DEF ShortStages
    <3>5. ShortCalls'
          BY <1>1, <1>3, CallsStay, Zenon
    <3>6. BytesTaken'
      <4>1. Waiting' = <<>>
            BY <1>7, <1>11, Zenon DEF Waiting
      <4> QED BY <2>1, <4>1 DEF BytesTaken
    <3> QED BY <1>7, <1>9, <3>3, <3>4, <3>5, <3>6, Zenon
  <2>3. CASE Unwind
    <3>1. mod' \in ShortModule
      <4>1. 0 \in 0..6
            OBVIOUS
      <4> QED BY <2>3, <4>1, Zenon DEF Unwind, ShortModule
    <3>2. ShortTypes'
          BY <1>1, <1>7, <2>1, <3>1 DEF ShortTypes
    <3> QED BY <1>1, <1>4, <1>6, <1>7, <1>11, <2>3, <3>2, Unwound, Zenon
  <2> QED BY <2>1, <2>2, <2>3
<1> QED BY <1>10, <1>11, Zenon

\* A step that leaves the module and its calls alone.
LEMMA Steady ==
  ASSUME ShortInv, UNCHANGED <<mod, res, probe, lock, thr>>, io'.ctrl = io.ctrl,
         io'.matrix = io.matrix, handler' # "none" => "irq" \in res
  PROVE  ShortStages' /\ ShortCalls' /\ ShortRows'
<1> USE DEF ShortInv
<1>1. ShortStages'
      BY Zenon DEF ShortStages
<1>2. ShortCalls' /\ ShortRows'
      BY CallsStay, RowsStay, Zenon
<1> QED BY <1>1, <1>2, Zenon

\* The bytes with nothing appended, and with one byte more.
LEMMA OneByte ==
  ASSUME NEW s \in Seq(Nat), NEW b \in Nat
  PROVE  /\ s \o <<>> = s /\ s \o <<b>> = Append(s, b)
         /\ Append(s, b) \in Seq(Nat)
OBVIOUS

\* A pulse starts the handler, and without one the device is silent.
LEMMA PulseKeeps ==
  ASSUME ShortInv, Pulse
  PROVE  ShortInv'
<1> USE DEF ShortInv
<1>1. /\ probe.pc = "none" /\ handler = "none" /\ irq' = FALSE
      /\ handler' = IF "irq" \in res THEN "status" ELSE "none"
      /\ UNCHANGED <<io, panel, mod, res, lock, thr, probe, width, entered, taken, bytes>>
      BY Zenon DEF Pulse, drvVars, useVars, histVars
<1>2. handler' \in {"none", "status"} /\ (handler' # "none" <=> "irq" \in res)
      BY <1>1, Zenon
<1>3. "irq" \notin res => io.ctrl = {}
  <2> SUFFICES ASSUME io.ctrl # {} PROVE "irq" \in res
        BY Zenon
  <2>1. mod.drv \in {18, 19} /\ mod.phase \in {"up", "exit"} /\ mod.step = 1
        BY <1>1, Zenon DEF ShortStages
  <2>2. /\ mod.drv \in ShortDrivers /\ mod.step \in 1..Len(m_exit(mod.drv))
        /\ res = ExitHeld(mod.drv, mod.step)
        BY <2>1, Zenon DEF ShortStages
  <2> QED BY <2>1, <2>2, ExitLine, Zenon
<1>4. Screen' /\ ShortTypes'
      BY <1>1, <1>2, Zenon DEF Screen, Follows, ShortTypes
<1>5. ShortStages' /\ ShortCalls' /\ ShortRows'
      BY <1>1, <1>2, Steady, Zenon
<1>6. ShortReady'
      BY <1>1, <1>2, Zenon DEF ShortReady
<1>7. ByteNotStuck'
      BY <1>1, <1>2, <1>3, Zenon DEF ByteNotStuck
<1>8. BytesTaken'
  <2>1. Waiting' = Waiting
        BY <1>1, Zenon DEF Waiting
  <2> QED BY <1>1, <1>2, <2>1, Zenon DEF BytesTaken, At
<1> QED BY <1>4, <1>5, <1>6, <1>7, <1>8, Zenon

\* A step of the handler.
LEMMA HandlerKeeps ==
  ASSUME ShortInv, short_interrupt
  PROVE  ShortInv'
<1> USE DEF ShortInv
<1>1. UNCHANGED <<mod, res, lock, thr, probe, width, entered, bytes>> /\ handler # "none"
      BY Zenon DEF short_interrupt, drvVars, useVars
<1>2. /\ mod.phase # "none" /\ probe.pc = "none" /\ "irq" \in res
      /\ \A t \in ShortThreads : thr[t].pc \notin {"data", "ack"}
      BY <1>1, HandlerAlone, Zenon
<1>3. entered = taken \o IF handler = "ack" THEN <<>> ELSE Waiting
      BY <1>2, Zenon DEF BytesTaken, At
<1>4. ASSUME entered = taken' \o IF handler' = "ack" THEN <<>> ELSE Waiting'
      PROVE  BytesTaken'
      BY <1>1, <1>2, <1>4, Zenon DEF BytesTaken, At
<1>5. io.data_in \in Nat /\ taken \in Seq(Nat) /\ io.rx_ready \in BOOLEAN
      BY Zenon DEF Screen, Regs, ShortTypes
<1>6. CASE /\ handler = "status" /\ handler' = IF io.rx_ready THEN "data" ELSE "none"
           /\ UNCHANGED <<io, irq, panel, taken>>
  <2>1. handler' \in {"none", "data"} /\ (handler' = "data" <=> io.rx_ready)
        BY <1>6, Zenon
  <2>2. Screen' /\ ShortTypes'
        BY <1>1, <1>6, <2>1, Zenon DEF Screen, Follows, ShortTypes
  <2>3. ShortStages' /\ ShortCalls' /\ ShortRows'
        BY <1>1, <1>2, <1>6, Steady, Zenon
  <2>4. ShortReady' /\ ByteNotStuck'
        BY <1>1, <1>2, <1>6, <2>1, Zenon DEF ShortReady, ByteNotStuck
  <2>5. BytesTaken'
    <3>1. Waiting' = Waiting
          BY <1>6, Zenon DEF Waiting
    <3> QED BY <1>3, <1>4, <1>6, <2>1, <3>1, Zenon
  <2> QED BY <2>2, <2>3, <2>4, <2>5, Zenon
<1>7. CASE /\ handler = "data" /\ taken' = Append(taken, io.data_in) /\ handler' = "ack"
           /\ UNCHANGED <<io, irq, panel>>
  <2>1. io.rx_ready
        BY <1>7, Zenon DEF ShortReady
  <2>2. Append(taken, io.data_in) \in Seq(Nat)
        BY <1>5, OneByte, Zenon
  <2>3. Screen' /\ ShortTypes'
        BY <1>1, <1>7, <2>2, Zenon DEF Screen, Follows, ShortTypes
  <2>4. ShortStages' /\ ShortCalls' /\ ShortRows'
        BY <1>1, <1>2, <1>7, Steady, Zenon
  <2>5. ShortReady' /\ ByteNotStuck'
        BY <1>1, <1>2, <1>7, <2>1, Zenon DEF ShortReady, ByteNotStuck
  <2>6. BytesTaken'
    <3>1. entered = taken \o <<io.data_in>>
          BY <1>3, <1>7, <2>1, Zenon DEF Waiting
    <3>2. entered = taken' \o <<>>
          BY <1>5, <1>7, <2>2, <3>1, OneByte, Zenon
    <3> QED BY <1>4, <1>7, <3>2, Zenon
  <2> QED BY <2>3, <2>4, <2>5, <2>6, Zenon
<1>8. CASE handler = "ack" /\ WriteStatus /\ handler' = "count" /\ taken' = taken
  <2>1. /\ Screen' /\ io'.ctrl = io.ctrl /\ io'.matrix = io.matrix /\ io'.rx_ready = FALSE
        BY <1>8, StatusWritten, Zenon
  <2>2. ShortTypes'
        BY <1>1, <1>8, Zenon DEF ShortTypes
  <2>3. ShortStages' /\ ShortCalls' /\ ShortRows'
        BY <1>1, <1>2, <2>1, Steady
  <2>4. ShortReady' /\ ByteNotStuck'
        BY <1>1, <1>2, <1>8, <2>1, Zenon DEF ShortReady, ByteNotStuck
  <2>5. BytesTaken'
    <3>1. Waiting' = <<>>
          BY <2>1 DEF Waiting
    <3> QED BY <1>3, <1>4, <1>8, <3>1
  <2> QED BY <2>1, <2>2, <2>3, <2>4, <2>5, Zenon
<1>9. CASE handler = "count" /\ handler' = "none" /\ UNCHANGED <<io, irq, panel, taken>>
  <2>1. Screen' /\ ShortTypes'
        BY <1>1, <1>9, Zenon DEF Screen, Follows, ShortTypes
  <2>2. ShortStages' /\ ShortCalls' /\ ShortRows'
        BY <1>1, <1>9, Steady, Zenon
  <2>3. ShortReady' /\ ByteNotStuck'
        BY <1>1, <1>2, <1>9 DEF ShortReady, ByteNotStuck
  <2>4. BytesTaken'
    <3>1. Waiting' = Waiting
          BY <1>9, Zenon DEF Waiting
    <3> QED BY <1>3, <1>4, <1>9, <3>1, Zenon
  <2> QED BY <2>1, <2>2, <2>3, <2>4, Zenon
<1> QED BY <1>6, <1>7, <1>8, <1>9, Zenon DEF short_interrupt, HandlerOrder, ioVars

\* A key is typed, only when no byte is waiting.
LEMMA KeyKeeps ==
  ASSUME ShortInv, Key
  PROVE  ShortInv'
<1> USE DEF ShortInv
<1>1. /\ ldd_io_keyboard_receive(bytes + 1) /\ bytes' = bytes + 1
      /\ entered' = IF mod.phase = "none" THEN entered ELSE Append(entered, bytes + 1)
      /\ UNCHANGED <<mod, res, lock, thr, handler, probe, width, taken>>
      BY Zenon DEF Key, drvVars, useVars
<1>2. PICK b \in Nat : b = bytes + 1
      BY DEF ShortTypes
<1>3. /\ Screen' /\ io'.ctrl = io.ctrl /\ io'.matrix = io.matrix
      /\ io.rx_ready = FALSE /\ io'.rx_ready = TRUE /\ io'.data_in = b
      /\ irq' = (irq \/ "IRQ_EN" \in io.ctrl)
      BY <1>1, <1>2, KeyReceived, Zenon
<1>4. entered \in Seq(Nat) /\ taken \in Seq(Nat) /\ Append(entered, b) \in Seq(Nat)
      BY OneByte, Zenon DEF ShortTypes
<1>5. ShortTypes'
      BY <1>1, <1>2, <1>4, Zenon DEF ShortTypes
<1>6. ShortStages' /\ ShortCalls' /\ ShortRows'
  <2>1. handler' # "none" => "irq" \in res
        BY <1>1, Zenon DEF ShortStages
  <2> QED BY <1>1, <1>3, <2>1, Steady, Zenon
<1>7. ShortReady' /\ ByteNotStuck'
      BY <1>1, <1>3, Zenon DEF ShortReady, ByteNotStuck
<1>8. BytesTaken'
  <2> SUFFICES ASSUME mod.phase # "none", probe.pc = "none" PROVE BytesTaken'
        BY <1>1, Zenon DEF BytesTaken
  <2>1. handler # "ack" /\ \A t \in ShortThreads : thr[t].pc # "ack"
        BY <1>3, Zenon DEF ShortReady
  <2>2. Waiting = <<>> /\ Waiting' = <<b>>
        BY <1>3, Zenon DEF Waiting
  <2>3. entered = taken \o <<>>
        BY <2>1, <2>2, Zenon DEF BytesTaken, At
  <2>4. entered' = taken \o <<b>>
        BY <1>1, <1>2, <1>4, <2>3, OneByte
  <2> QED BY <1>1, <2>1, <2>2, <2>4, Zenon DEF BytesTaken, At
<1> QED BY <1>3, <1>5, <1>6, <1>7, <1>8, Zenon

\* The parameter of 17 is written.
LEMMA WidthKeeps ==
  ASSUME ShortInv, width_set
  PROVE  ShortInv'
<1> USE DEF ShortInv
<1>1. /\ width' \in Widths
      /\ UNCHANGED <<io, irq, panel, mod, res, lock, thr, handler, probe, entered, taken, bytes>>
      BY Zenon DEF width_set, ioVars, drvVars, useVars, histVars
<1>2. Screen' /\ ShortTypes'
      BY <1>1, ShortAssumption, Zenon DEF Screen, Follows, ShortTypes
<1>3. ShortStages' /\ ShortCalls' /\ ShortRows'
  <2>1. handler' # "none" => "irq" \in res
        BY <1>1, Zenon DEF ShortStages
  <2> QED BY <1>1, <2>1, Steady, Zenon
<1>4. ShortReady' /\ ByteNotStuck'
      BY <1>1, Zenon DEF ShortReady, ByteNotStuck
<1>5. BytesTaken'
  <2>1. Waiting' = Waiting
        BY <1>1, Zenon DEF Waiting
  <2> QED BY <1>1, <2>1, Zenon DEF BytesTaken, At
<1> QED BY <1>2, <1>3, <1>4, <1>5, Zenon

\* The machine is reset while no driver is loaded.
LEMMA ResetKeeps ==
  ASSUME ShortInv, Reset
  PROVE  ShortInv'
<1> USE DEF ShortInv
<1>1. /\ mod.phase = "none" /\ ldd_io_reset
      /\ UNCHANGED <<mod, res, lock, thr, handler, probe, width, entered, taken, bytes>>
      BY Zenon DEF Reset, drvVars, useVars, histVars
<1>2. Screen' /\ io'.ctrl = {} /\ io'.rx_ready = FALSE
      BY <1>1, DeviceReset, Zenon
<1>3. handler = "none" /\ \A t \in ShortThreads : thr[t] = Idle
      BY <1>1, NothingLoaded, Zenon
<1>4. ShortTypes'
      BY <1>1, Zenon DEF ShortTypes
<1>5. ShortStages'
      BY <1>1, <1>2, Zenon DEF ShortStages
<1>6. ShortCalls' /\ ShortRows'
      BY <1>1, <1>3, CallsStay, RowsStay, Zenon
<1>7. ShortReady' /\ ByteNotStuck' /\ BytesTaken'
  <2>1. \A t \in ShortThreads : thr'[t].pc = "idle"
        BY <1>1, <1>3, CallTypes, Zenon
  <2> QED BY <1>1, <1>2, <1>3, <2>1, ZenonT(40) DEF ShortReady, ByteNotStuck, BytesTaken
<1> QED BY <1>2, <1>4, <1>5, <1>6, <1>7, Zenon

\* The viewer of the panel does not touch the registers.
LEMMA ViewerKeeps ==
  ASSUME ShortInv, Viewer
  PROVE  ShortInv'
<1> USE DEF ShortInv
<1>1. /\ ldd_io_panel_writable \/ ldd_io_panel_event
      /\ UNCHANGED <<mod, res, lock, thr, handler, probe, width, entered, taken, bytes>>
      BY Zenon DEF Viewer, drvVars, useVars, histVars
<1>2. Screen' /\ UNCHANGED <<io, irq>>
      BY <1>1, ViewerMoved, Zenon
<1>3. ShortTypes'
      BY <1>1, Zenon DEF ShortTypes
<1>4. ShortStages' /\ ShortCalls' /\ ShortRows'
  <2>1. handler' # "none" => "irq" \in res
        BY <1>1, Zenon DEF ShortStages
  <2> QED BY <1>1, <1>2, <2>1, Steady, Zenon
<1>5. ShortReady' /\ ByteNotStuck'
      BY <1>1, <1>2, Zenon DEF ShortReady, ByteNotStuck
<1>6. BytesTaken'
  <2>1. Waiting' = Waiting
        BY <1>2, Zenon DEF Waiting
  <2> QED BY <1>1, <2>1, Zenon DEF BytesTaken, At
<1> QED BY <1>2, <1>3, <1>4, <1>5, <1>6, Zenon

-------------------------------------------------------------------------------
(* The calls.                                                              *)

\* A step of a call that fits the driver and has kept count of its rows.  Only
\* who is at the rows changes the matrix.
LEMMA CallMoves ==
  ASSUME ShortInv, NEW t \in ShortThreads, NEW c \in ShortCall,
         thr' = [thr EXCEPT ![t] = c],
         UNCHANGED <<mod, res, probe, handler, width>>, io'.ctrl = io.ctrl,
         entered' \in Seq(Nat), taken' \in Seq(Nat), bytes' \in Nat,
         Fitting(t, c, lock'), RowsRead(c)',
         lock' = lock \/ (lock = "free" /\ lock' = t) \/ (lock = t /\ lock' = "free"),
         io'.matrix = io.matrix \/ thr[t].pc = "rows"
  PROVE  /\ ShortTypes' /\ ShortStages' /\ ShortCalls' /\ ShortRows'
         /\ thr'[t] = c /\ \A u \in ShortThreads : u # t => thr'[u] = thr[u]
<1> USE DEF ShortInv
<1>1. /\ ShortCalls'
      /\ lock' \in ShortThreads \cup {"free"} /\ thr' \in [ShortThreads -> ShortCall]
      /\ thr'[t] = c /\ \A u \in ShortThreads : u # t => thr'[u] = thr[u]
      BY CallSteps, Zenon
<1>2. ShortTypes'
      BY <1>1, Zenon DEF ShortTypes
<1>3. ShortStages'
      BY Zenon DEF ShortStages
<1>4. ASSUME NEW u \in ShortThreads PROVE RowsRead(thr[u])'
  <2>1. CASE u = t
        BY <1>1, <2>1, Zenon DEF RowsRead
  <2>2. CASE u # t /\ io'.matrix = io.matrix
        BY <1>1, <2>2, Zenon DEF ShortRows, RowsRead
  <2>3. CASE u # t /\ thr[t].pc = "rows"
    <3>1. thr[u].pc # "rows" /\ RowsRead(thr[u]) /\ thr'[u] = thr[u]
          BY <1>1, <2>3, OneOwner, Zenon DEF ShortRows
    <3> QED BY <3>1, Zenon DEF RowsRead
  <2> QED BY <2>1, <2>2, <2>3, Zenon
<1> QED BY <1>1, <1>2, <1>3, <1>4, Zenon DEF ShortRows

\* A thread that is not in a call fits any driver.
LEMMA IdleFits ==
  ASSUME NEW t, NEW owner
  PROVE  /\ Idle \in ShortCall /\ Idle.pc = "idle" /\ Fitting(t, Idle, owner)
         /\ RowsRead(Idle) /\ RowsRead(Idle)'
<1>1. Idle.pc = "idle" /\ Idle \in ShortCall
      BY Zenon DEF Idle, ShortCall
<1>2. Idle \notin ReadCall \cup MatrixCall
      BY Zenon DEF Idle, ReadCall, MatrixCall
<1> QED BY <1>1, <1>2, Zenon DEF Fitting, RowsRead

\* A step of a call that leaves the device alone.
LEMMA CallOnly ==
  ASSUME ShortInv, NEW t \in ShortThreads, NEW c \in ShortCall,
         thr' = [thr EXCEPT ![t] = c],
         UNCHANGED <<io, irq, panel, mod, res, probe, handler, width, entered, taken>>,
         bytes' \in Nat, Fitting(t, c, lock'), RowsRead(c),
         lock' = lock \/ (lock = "free" /\ lock' = t) \/ (lock = t /\ lock' = "free"),
         thr[t].pc # "ack", c.pc # "ack", c.pc = "data" => io.rx_ready
  PROVE  ShortInv'
<1> USE DEF ShortInv
<1>1. RowsRead(c)'
      BY Zenon DEF RowsRead
<1>2. entered' \in Seq(Nat) /\ taken' \in Seq(Nat)
      BY Zenon DEF ShortTypes
<1>3. /\ ShortTypes' /\ ShortStages' /\ ShortCalls' /\ ShortRows'
      /\ thr'[t] = c /\ \A u \in ShortThreads : u # t => thr'[u] = thr[u]
      BY <1>1, <1>2, CallMoves, Zenon
<1>4. Screen' /\ ByteNotStuck'
      BY Zenon DEF Screen, Follows, ByteNotStuck
<1>5. ShortReady'
      BY <1>3, Zenon DEF ShortReady
<1>6. BytesTaken'
  <2>1. \A u \in ShortThreads : thr'[u].pc = "ack" <=> thr[u].pc = "ack"
        BY <1>3, Zenon
  <2>2. Waiting' = Waiting
        BY Zenon DEF Waiting
  <2> QED BY <2>1, <2>2, Zenon DEF BytesTaken, At
<1> QED BY <1>3, <1>4, <1>5, <1>6, Zenon

\* A call is made.
LEMMA CallKeeps ==
  ASSUME ShortInv, NEW t \in ShortThreads, Call(t)
  PROVE  ShortInv'
<1> USE DEF ShortInv
<1>1. /\ thr[t].pc = "idle" /\ "cdev" \in res /\ mod.phase \in {"init", "up"}
      /\ UNCHANGED <<io, irq, panel, mod, res, lock, handler, probe, width, entered, taken>>
      BY Zenon DEF Call, At, short_open, ioVars, drvVars, histVars
<1>2. ASSUME NEW c \in ShortCall, thr' = [thr EXCEPT ![t] = c], bytes' \in Nat,
             c.pc \in {"lock", "byte"}, mod.drv \in Polled <=> c.pc = "lock",
             c \notin ReadCall \cup MatrixCall \/ c.pc = "lock", RowsRead(c)
      PROVE  ShortInv'
  <2>1. Fitting(t, c, lock')
        BY <1>1, <1>2 DEF Fitting
  <2> QED BY <1>1, <1>2, <2>1, CallOnly, Zenon
<1>3. CASE /\ mod.drv \in Polled /\ bytes' = bytes
           /\ \E n \in 1..2, nb \in BOOLEAN :
                Set(t, [pc |-> "lock", call |-> "read", count |-> n, n |-> 0, nb |-> nb])
  <2>1. PICK n \in 1..2, nb \in BOOLEAN :
          thr' = [thr EXCEPT ![t] = [pc |-> "lock", call |-> "read", count |-> n, n |-> 0, nb |-> nb]]
        BY <1>3, Zenon DEF Set
  <2>0. n \in Nat /\ 0 \in Nat /\ nb \in BOOLEAN
        BY <2>1
  <2>2. PICK c \in ReadCall :
          c = [pc |-> "lock", call |-> "read", count |-> n, n |-> 0, nb |-> nb]
        BY <2>0, Zenon DEF ReadCall
  <2>3. c.pc = "lock" /\ c \notin MatrixCall
        BY <2>2, Zenon DEF MatrixCall
  <2>4. c \in ShortCall /\ RowsRead(c)
        BY <2>3, Zenon DEF ShortCall, RowsRead
  <2> QED BY <1>2, <1>3, <2>1, <2>2, <2>3, <2>4, Zenon DEF ShortTypes
<1>4. CASE /\ Set(t, [pc |-> IF mod.drv \in Polled THEN "lock" ELSE "byte",
                      call |-> "write", next |-> bytes + 1, last |-> bytes + 2])
           /\ bytes' = bytes + 2
  <2>1. PICK next \in Nat, last \in Nat : next = bytes + 1 /\ last = bytes + 2
        BY DEF ShortTypes
  <2>2. PICK pc \in {"lock", "byte"} : pc = IF mod.drv \in Polled THEN "lock" ELSE "byte"
        BY Zenon
  <2>3. PICK c \in WriteCall :
          c = [pc |-> pc, call |-> "write", next |-> next, last |-> last]
        BY Zenon DEF WriteCall
  <2>4. c.pc = pc /\ c \notin ReadCall \cup MatrixCall
        BY <2>3, Zenon DEF ReadCall, MatrixCall
  <2>5. c \in ShortCall /\ RowsRead(c)
        BY <2>4, Zenon DEF ShortCall, RowsRead
  <2>6. thr' = [thr EXCEPT ![t] = c] /\ bytes' \in Nat
        BY <1>4, <2>1, <2>2, <2>3, Zenon DEF Set
  <2> QED BY <1>2, <2>2, <2>4, <2>5, <2>6, Zenon
<1>5. CASE /\ short_open("matrix") /\ bytes' = bytes
           /\ \E s \in Spans, call \in {"mread", "mwrite"}, v \in 0..1 :
                Set(t, [pc |-> "lock", call |-> call, start |-> s[1], pos |-> s[1],
                        end |-> s[2], value |-> IF call = "mread" THEN 0 ELSE v,
                        sizes |-> {}, rows |-> <<>>])
  <2>1. mod.drv \in Polled
        BY <1>5, Zenon DEF short_open
  <2>2. PICK s \in Spans, call \in {"mread", "mwrite"}, v \in 0..1 :
          thr' = [thr EXCEPT ![t] =
                    [pc |-> "lock", call |-> call, start |-> s[1], pos |-> s[1],
                     end |-> s[2], value |-> IF call = "mread" THEN 0 ELSE v,
                     sizes |-> {}, rows |-> <<>>]]
        BY <1>5, Zenon DEF Set
  <2>3. PICK start \in 0..8, end \in 0..8 : s[1] = start /\ s[2] = end
        BY ShortAssumption, Zenon
  <2>4. PICK value \in 0..1 : value = IF call = "mread" THEN 0 ELSE v
        OBVIOUS
  <2>5. PICK c \in MatrixCall :
          c = [pc |-> "lock", call |-> call, start |-> start, pos |-> start, end |-> end,
               value |-> value, sizes |-> {}, rows |-> <<>>]
    <3>1. <<>> \in Seq(Nat)
          OBVIOUS
    <3> QED BY <2>2, <2>3, <2>4, <3>1, Zenon DEF MatrixCall
  <2>6. c.pc = "lock" /\ c.rows = <<>> /\ c.pos = start /\ c.start = start
        BY <2>5, Zenon
  <2>7. c \in ShortCall /\ RowsRead(c)
    <3>1. Len(c.rows) = 0 /\ start = start + 0
          BY <2>6
    <3> QED BY <2>6, <3>1, Zenon DEF ShortCall, RowsRead
  <2>8. thr' = [thr EXCEPT ![t] = c] /\ bytes' \in Nat
        BY <1>5, <2>2, <2>3, <2>4, <2>5, Zenon DEF ShortTypes
  <2> QED BY <1>2, <2>1, <2>6, <2>7, <2>8, Zenon
<1> QED BY <1>3, <1>4, <1>5, Zenon DEF Call

\* A read goes on.
LEMMA ReadMoves ==
  ASSUME ShortInv, NEW t \in ShortThreads, thr[t] \in ReadCall,
         NEW c \in ReadCall
  PROVE  /\ c \in ShortCall /\ RowsRead(c) /\ RowsRead(c)'
         /\ \A owner : (c.pc \in {"status", "data", "ack"} => owner = t) => Fitting(t, c, owner)
<1> USE DEF ShortInv
<1>1. c.pc \in {"lock", "status", "data", "ack", "poll"}
      BY Zenon DEF ReadCall
<1>2. c \in ShortCall /\ c \notin MatrixCall
      BY Zenon DEF ShortCall, ReadCall, MatrixCall
<1>3. RowsRead(c) /\ RowsRead(c)'
      BY <1>2, Zenon DEF RowsRead
<1>4. thr[t] # Idle
      BY CallTypes, Zenon
<1>5. mod.drv \in Polled /\ "cdev" \in res /\ mod.phase \in {"init", "up"}
      BY <1>4, Zenon DEF ShortCalls, Fitting
<1>6. \A owner : (c.pc \in {"status", "data", "ack"} => owner = t) => Fitting(t, c, owner)
      BY <1>1, <1>5, Zenon DEF Fitting
<1> QED BY <1>2, <1>3, <1>6, Zenon

\* The same, when only the place changes.
LEMMA ReadGoes ==
  ASSUME ShortInv, NEW t \in ShortThreads, thr[t] \in ReadCall,
         NEW pc \in {"lock", "status", "data", "ack", "poll"}, Goto(t, pc)
  PROVE  \E c \in ShortCall :
           /\ thr' = [thr EXCEPT ![t] = c] /\ c.pc = pc /\ RowsRead(c) /\ RowsRead(c)'
           /\ \A owner : (pc \in {"status", "data", "ack"} => owner = t) => Fitting(t, c, owner)
<1>1. PICK c : c = [thr[t] EXCEPT !.pc = pc]
      BY Zenon
<1>2. c \in ReadCall /\ c.pc = pc
      BY <1>1, Zenon DEF ReadCall
<1>3. thr' = [thr EXCEPT ![t] = c]
      BY <1>1, Zenon DEF Goto
<1>4. /\ c \in ShortCall /\ RowsRead(c) /\ RowsRead(c)'
      /\ \A owner : (c.pc \in {"status", "data", "ack"} => owner = t) => Fitting(t, c, owner)
      BY <1>2, ReadMoves, Zenon
<1> QED BY <1>2, <1>3, <1>4, Zenon

\* The rows one access moves are one, two, four or eight.
LEMMA SizesKnown ==
  ASSUME ShortTypes, mod.drv \in Polled, NEW c
  PROVE  Sizes(c) \subseteq {1, 2, 4, 8}
<1>1. matrix_put \subseteq {1, 2, 4, 8}
      BY Zenon DEF matrix_put, ShortTypes
<1>2. CASE mod.drv = 15
      BY <1>2 DEF Sizes, matrix_read_15, matrix_write_15
<1>3. CASE mod.drv = 16
      BY <1>3 DEF Sizes, matrix_read_16, matrix_write_16
<1>4. CASE mod.drv = 17
      BY <1>1, <1>4 DEF Sizes, matrix_read_17, matrix_write_17
<1> QED BY <1>2, <1>3, <1>4, Zenon DEF Polled

\* A call gets the lock, or gives up when it is interrupted.
LEMMA LockKeeps ==
  ASSUME ShortInv, NEW t \in ShortThreads, Lock(t)
  PROVE  ShortInv'
<1> USE DEF ShortInv
<1>1. /\ thr[t].pc = "lock"
      /\ UNCHANGED <<io, irq, panel, mod, res, handler, probe, width, entered, taken, bytes>>
      BY Zenon DEF Lock, At, ioVars, drvVars, histVars
<1>2. /\ thr[t] # Idle /\ thr[t] \in ShortCall
      BY <1>1, CallTypes, Zenon
<1>3. mod.drv \in Polled /\ "cdev" \in res /\ mod.phase \in {"init", "up"}
      BY <1>1, <1>2, Zenon DEF ShortCalls, Fitting
<1>4. ASSUME NEW c \in ShortCall, thr' = [thr EXCEPT ![t] = c], Fitting(t, c, lock'), RowsRead(c),
             lock' = lock \/ (lock = "free" /\ lock' = t), c.pc \notin {"ack", "data"}
      PROVE  ShortInv'
  <2>1. bytes' \in Nat
        BY <1>1, Zenon DEF ShortTypes
  <2> QED BY <1>1, <1>4, <2>1, CallOnly, Zenon
<1>5. CASE lock # "free" /\ Set(t, Idle) /\ lock' = lock
      BY <1>4, <1>5, IdleFits, Zenon DEF Set
<1>6. CASE TakeLock(t) /\ thr[t] \in ReadCall
  <2>1. Goto(t, "status")
    <3>1. thr[t].call = "read"
          BY <1>6, Zenon DEF ReadCall
    <3> QED BY <1>6, <3>1, Zenon DEF Lock, TakeLock
  <2>2. PICK c \in ShortCall :
          /\ thr' = [thr EXCEPT ![t] = c] /\ c.pc = "status" /\ RowsRead(c)
          /\ \A owner : ("status" \in {"status", "data", "ack"} => owner = t) => Fitting(t, c, owner)
        BY <1>6, <2>1, ReadGoes, Zenon
  <2>3. lock = "free" /\ lock' = t
        BY <1>6, Zenon DEF TakeLock
  <2> QED BY <1>4, <2>2, <2>3, Zenon
<1>7. CASE TakeLock(t) /\ thr[t] \in WriteCall
  <2>1. Goto(t, "byte")
    <3>1. thr[t].call = "write"
          BY <1>7, Zenon DEF WriteCall
    <3> QED BY <1>7, <3>1, Zenon DEF Lock, TakeLock
  <2>2. PICK c : c = [thr[t] EXCEPT !.pc = "byte"]
        BY Zenon
  <2>3. c \in WriteCall /\ c.pc = "byte"
        BY <1>7, <2>2, Zenon DEF WriteCall
  <2>6. c \in ShortCall /\ c \notin ReadCall \cup MatrixCall
        BY <2>3, Zenon DEF ShortCall, WriteCall, ReadCall, MatrixCall
  <2>4. lock = "free" /\ lock' = t /\ thr' = [thr EXCEPT ![t] = c]
        BY <1>7, <2>1, <2>2 DEF TakeLock, Goto
  <2>5. Fitting(t, c, lock') /\ RowsRead(c)
        BY <1>3, <2>3, <2>4, <2>6, Zenon DEF Fitting, RowsRead
  <2> QED BY <1>4, <2>3, <2>4, <2>5, <2>6, Zenon
<1>8. CASE TakeLock(t) /\ thr[t] \in MatrixCall
  <2>1. PICK sizes \in SUBSET {1, 2, 4, 8} : sizes = Sizes(thr[t])
        BY <1>3, SizesKnown, Zenon
  <2>2. Set(t, [thr[t] EXCEPT !.pc = "rows", !.sizes = sizes])
    <3>1. thr[t].call \notin {"read", "write"}
          BY <1>8, Zenon DEF MatrixCall
    <3> QED BY <1>8, <2>1, <3>1, Zenon DEF Lock, TakeLock
  <2>3. PICK c \in MatrixCall : c = [thr[t] EXCEPT !.pc = "rows", !.sizes = sizes]
        BY <1>8, Zenon DEF MatrixCall
  <2>4. c.pc = "rows" /\ c.rows = thr[t].rows /\ c.pos = thr[t].pos /\ c.start = thr[t].start
        BY <1>8, <2>3 DEF MatrixCall
  <2>5. lock = "free" /\ lock' = t /\ thr' = [thr EXCEPT ![t] = c]
        BY <1>8, <2>2, <2>3, Zenon DEF TakeLock, Set
  <2>6. c.rows = <<>> /\ c.pos = c.start /\ c.pos \in 0..8
        BY <1>1, <1>8, <2>4, Zenon DEF ShortRows, RowsRead, MatrixCall
  <2>7. RowsRead(c)
    <3>1. Len(c.rows) = 0 /\ c.start = c.start + 0
          BY <2>6
    <3>2. RowsOf(io.matrix, c.start, c.rows)
          BY <3>1 DEF RowsOf
    <3> QED BY <2>4, <2>6, <3>1, <3>2, Zenon DEF RowsRead
  <2>8. Fitting(t, c, lock') /\ c \in ShortCall
        BY <1>3, <2>4, <2>5, Zenon DEF Fitting, ShortCall
  <2> QED BY <1>4, <2>4, <2>5, <2>7, <2>8, Zenon
<1> QED BY <1>2, <1>5, <1>6, <1>7, <1>8, Zenon DEF Lock, ShortCall


\* data_take goes on, or data_read unlocks.
LEMMA StatusKeeps ==
  ASSUME ShortInv, NEW t \in ShortThreads, TakeStatus(t) \/ DataPoll(t),
         UNCHANGED <<mod, res, handler, probe, width, entered, bytes>>
  PROVE  ShortInv'
<1> USE DEF ShortInv
<1>1. thr[t].pc \in {"status", "poll"} /\ UNCHANGED <<io, irq, panel, taken>>
      BY Zenon DEF TakeStatus, DataPoll, At, ioVars
<1>2. thr[t] \in ReadCall
      BY <1>1, CallTypes, Zenon
<1>3. thr[t].pc = "status" => lock = t
      BY Zenon DEF ShortCalls, Fitting
<1>4. ASSUME NEW c \in ShortCall, thr' = [thr EXCEPT ![t] = c], Fitting(t, c, lock'), RowsRead(c),
             lock' = lock \/ (lock = t /\ lock' = "free"), c.pc # "ack",
             c.pc = "data" => io.rx_ready
      PROVE  ShortInv'
  <2>1. bytes' \in Nat
        BY Zenon DEF ShortTypes
  <2> QED BY <1>1, <1>4, <2>1, CallOnly, Zenon
<1>5. ASSUME NEW pc \in {"lock", "status", "data", "poll"}, Goto(t, pc),
             lock' = lock \/ (lock = t /\ lock' = "free"),
             pc \in {"status", "data"} => lock' = t, pc = "data" => io.rx_ready
      PROVE  ShortInv'
  <2>1. PICK c \in ShortCall :
          /\ thr' = [thr EXCEPT ![t] = c] /\ c.pc = pc /\ RowsRead(c)
          /\ \A owner : (pc \in {"status", "data", "ack"} => owner = t) => Fitting(t, c, owner)
        BY <1>2, <1>5, ReadGoes
  <2>2. Fitting(t, c, lock')
        BY <1>5, <2>1, Zenon
  <2> QED BY <1>4, <1>5, <2>1, <2>2, Zenon
<1>6. CASE Set(t, Idle) /\ (lock' = lock \/ (lock = t /\ lock' = "free"))
      BY <1>4, <1>6, IdleFits, Zenon DEF Set
<1>7. CASE DataPoll(t)
      BY <1>5, <1>6, <1>7, Zenon DEF DataPoll
<1>8. CASE TakeStatus(t)
  <2>1. lock = t
        BY <1>3, <1>8, Zenon DEF TakeStatus, At
  <2>2. CASE thr[t].n < thr[t].count /\ io.rx_ready
        BY <1>5, <1>8, <2>1, <2>2, Zenon DEF TakeStatus
  <2>3. CASE ~(thr[t].n < thr[t].count /\ io.rx_ready)
    <3>1. lock' = "free" /\ (Set(t, Idle) \/ Goto(t, "poll"))
          BY <1>8, <2>3, Zenon DEF TakeStatus
    <3> QED BY <1>5, <1>6, <2>1, <3>1, Zenon
  <2> QED BY <2>2, <2>3, Zenon
<1> QED BY <1>7, <1>8, Zenon

\* Who takes a byte in a call is alone: no handler, no other reader, no probing.
LEMMA ReaderAlone ==
  ASSUME ShortInv, NEW t \in ShortThreads, thr[t].pc \in {"data", "ack"}
  PROVE  /\ mod.phase # "none" /\ probe.pc = "none" /\ handler = "none" /\ io.rx_ready
         /\ lock = t /\ thr[t] \in ReadCall
         /\ \A u \in ShortThreads : u # t => thr[u].pc \notin {"data", "ack"}
<1> USE DEF ShortInv
<1>1. thr[t] # Idle /\ thr[t] \in ReadCall
      BY CallTypes, Zenon
<1>2. mod.phase # "none" /\ lock = t
      BY <1>1, Zenon DEF ShortCalls, Fitting
<1>3. handler = "none"
      BY HandlerAlone, Zenon
<1>4. probe.pc = "none"
      BY <1>1, ProbeAlone, Zenon
<1>5. \A u \in ShortThreads : u # t => thr[u].pc \notin {"data", "ack"}
      BY OneOwner, Zenon
<1> QED BY <1>1, <1>2, <1>3, <1>4, <1>5, Zenon DEF ShortReady

\* data_take reads the byte.
LEMMA DataKeeps ==
  ASSUME ShortInv, NEW t \in ShortThreads, TakeData(t),
         UNCHANGED <<mod, res, handler, probe, width, entered, bytes>>
  PROVE  ShortInv'
<1> USE DEF ShortInv
<1>1. /\ thr[t].pc = "data" /\ taken' = Append(taken, io.data_in)
      /\ Set(t, [thr[t] EXCEPT !.n = @ + 1, !.pc = "ack"])
      /\ UNCHANGED <<io, irq, panel, lock>>
      BY Zenon DEF TakeData, At, ioVars
<1>2. /\ mod.phase # "none" /\ probe.pc = "none" /\ handler = "none" /\ io.rx_ready
      /\ lock = t /\ thr[t] \in ReadCall
      /\ \A u \in ShortThreads : u # t => thr[u].pc \notin {"data", "ack"}
      BY <1>1, ReaderAlone, Zenon
<1>3. PICK n \in Nat : n = thr[t].n + 1
      BY <1>2 DEF ReadCall
<1>4. PICK c : c = [thr[t] EXCEPT !.n = n, !.pc = "ack"]
      BY Zenon
<1>5. thr' = [thr EXCEPT ![t] = c]
      BY <1>1, <1>3, <1>4, Zenon DEF Set
<1>0. c \in ReadCall /\ c.pc = "ack"
      BY <1>2, <1>3, <1>4, Zenon DEF ReadCall
<1>6. c \in ShortCall /\ c.pc = "ack" /\ RowsRead(c)' /\ Fitting(t, c, lock')
      BY <1>0, <1>1, <1>2, ReadMoves, Zenon
<1>7. /\ io.data_in \in Nat /\ taken \in Seq(Nat) /\ taken' \in Seq(Nat)
      /\ entered' \in Seq(Nat) /\ bytes' \in Nat
  <2>1. io.data_in \in Nat /\ taken \in Seq(Nat) /\ entered \in Seq(Nat) /\ bytes \in Nat
        BY Zenon DEF Screen, Regs, ShortTypes
  <2> QED BY <1>1, <2>1, OneByte, Zenon
<1>8. /\ ShortTypes' /\ ShortStages' /\ ShortCalls' /\ ShortRows'
      /\ thr'[t] = c /\ \A u \in ShortThreads : u # t => thr'[u] = thr[u]
      BY <1>1, <1>5, <1>6, <1>7, CallMoves, Zenon
<1>9. Screen' /\ ByteNotStuck'
      BY <1>1, Zenon DEF Screen, Follows, ByteNotStuck
<1>10. ShortReady'
      BY <1>1, <1>2, <1>8, Zenon DEF ShortReady
<1>11. BytesTaken'
  <2>1. \A u \in ShortThreads : thr[u].pc # "ack"
        BY <1>1, <1>2, Zenon
  <2>2. entered = taken \o <<io.data_in>>
        BY <1>2, <2>1, Zenon DEF BytesTaken, At, Waiting
  <2>3. entered' = taken' \o <<>>
        BY <1>1, <1>7, <2>2, OneByte
  <2>4. thr'[t].pc = "ack"
        BY <1>6, <1>8, ZenonT(40)
  <2> QED BY <2>3, <2>4, Zenon DEF BytesTaken, At
<1> QED BY <1>8, <1>9, <1>10, <1>11, Zenon

\* data_take acknowledges the byte it has read.
LEMMA AckKeeps ==
  ASSUME ShortInv, NEW t \in ShortThreads, TakeAck(t),
         UNCHANGED <<mod, res, handler, probe, width, entered, bytes>>
  PROVE  ShortInv'
<1> USE DEF ShortInv
<1>1. thr[t].pc = "ack" /\ WriteStatus /\ Goto(t, "status") /\ UNCHANGED <<lock, taken>>
      BY ZenonT(40) DEF TakeAck, At
<1>2. /\ mod.phase # "none" /\ probe.pc = "none" /\ handler = "none"
      /\ lock = t /\ thr[t] \in ReadCall
      /\ \A u \in ShortThreads : u # t => thr[u].pc \notin {"data", "ack"}
      BY <1>1, ReaderAlone, Zenon
<1>3. /\ Screen' /\ io'.ctrl = io.ctrl /\ io'.matrix = io.matrix /\ io'.rx_ready = FALSE
      BY <1>1, StatusWritten, Zenon
<1>4. PICK c \in ShortCall :
        /\ thr' = [thr EXCEPT ![t] = c] /\ c.pc = "status" /\ RowsRead(c)'
        /\ \A owner : ("status" \in {"status", "data", "ack"} => owner = t) => Fitting(t, c, owner)
      BY <1>1, <1>2, ReadGoes, Zenon
<1>5. entered' \in Seq(Nat) /\ taken' \in Seq(Nat) /\ bytes' \in Nat /\ Fitting(t, c, lock')
      BY <1>1, <1>2, <1>4 DEF ShortTypes
<1>6. /\ ShortTypes' /\ ShortStages' /\ ShortCalls' /\ ShortRows'
      /\ thr'[t] = c /\ \A u \in ShortThreads : u # t => thr'[u] = thr[u]
      BY <1>1, <1>3, <1>4, <1>5, CallMoves, Zenon
<1>7. \A u \in ShortThreads : thr'[u].pc \notin {"data", "ack"}
      BY <1>2, <1>4, <1>6
<1>8. ShortReady' /\ ByteNotStuck'
      BY <1>2, <1>3, <1>7, Zenon DEF ShortReady, ByteNotStuck
<1>9. BytesTaken'
  <2>1. entered = taken \o <<>>
        BY <1>1, <1>2, Zenon DEF BytesTaken, At
  <2>2. Waiting' = <<>>
        BY <1>3, Zenon DEF Waiting
  <2> QED BY <1>1, <2>1, <2>2, Zenon DEF BytesTaken
<1> QED BY <1>3, <1>6, <1>8, <1>9, ZenonT(40)

\* A byte goes to DATA; in loopback it comes back.
LEMMA WriteKeeps ==
  ASSUME ShortInv, NEW t \in ShortThreads, data_write(t)
  PROVE  ShortInv'
<1> USE DEF ShortInv
<1>1. /\ thr[t].pc = "byte"
      /\ UNCHANGED <<mod, res, handler, probe, width, taken, bytes>>
      BY DEF data_write, At, drvVars
<1>2. thr[t] \in WriteCall /\ thr[t] # Idle
      BY <1>1, CallTypes, Zenon
<1>3. PICK b \in Nat : b = thr[t].next
      BY <1>2, Zenon DEF WriteCall
<1>4. /\ WriteData(b) /\ entered' = IF LoopsBack THEN Append(entered, b) ELSE entered
      /\ IF b < thr[t].last THEN Set(t, [thr[t] EXCEPT !.next = b + 1]) /\ lock' = lock
         ELSE Set(t, Idle) /\ lock' = IF mod.drv \in Polled THEN "free" ELSE lock
      BY <1>3, Zenon DEF data_write
<1>5. /\ Screen' /\ io'.ctrl = io.ctrl /\ io'.matrix = io.matrix
      /\ io'.rx_ready = (io.rx_ready \/ LoopsBack)
      /\ io'.data_in = IF LoopsBack THEN b ELSE io.data_in
      /\ irq' = (irq \/ (LoopsBack /\ "IRQ_EN" \in io.ctrl))
      BY <1>4, DataWritten, Zenon
<1>6. /\ "cdev" \in res /\ mod.phase \in {"init", "up"} /\ (mod.drv \in Polled => lock = t)
      BY <1>1, <1>2, Zenon DEF ShortCalls, Fitting
<1>7. PICK c \in ShortCall :
        /\ thr' = [thr EXCEPT ![t] = c] /\ Fitting(t, c, lock') /\ RowsRead(c)'
        /\ c.pc \in {"idle", "byte"} /\ (lock' = lock \/ (lock = t /\ lock' = "free"))
  <2>1. CASE b < thr[t].last
    <3>1. PICK n \in Nat : n = b + 1
          OBVIOUS
    <3>0. PICK c : c = [thr[t] EXCEPT !.next = n]
          BY Zenon
    <3>2. c \in WriteCall /\ c.pc = "byte"
          BY <1>1, <1>2, <3>0, <3>1, Zenon DEF WriteCall
    <3>3. c \in ShortCall /\ c \notin ReadCall \cup MatrixCall
          BY <3>2, Zenon DEF ShortCall, WriteCall, ReadCall, MatrixCall
    <3>4. thr' = [thr EXCEPT ![t] = c] /\ lock' = lock
          BY <1>4, <2>1, <3>0, <3>1, ZenonT(40) DEF Set
    <3>5. Fitting(t, c, lock') /\ RowsRead(c)'
          BY <1>6, <3>2, <3>3, <3>4 DEF Fitting, RowsRead
    <3> QED BY <3>2, <3>3, <3>4, <3>5, Zenon
  <2>2. CASE ~(b < thr[t].last)
    <3>1. thr' = [thr EXCEPT ![t] = Idle] /\ lock' = IF mod.drv \in Polled THEN "free" ELSE lock
          BY <1>4, <2>2 DEF Set
    <3>2. lock' = lock \/ (lock = t /\ lock' = "free")
          BY <1>6, <3>1, Zenon
    <3> QED BY <3>1, <3>2, IdleFits, Zenon
  <2> QED BY <2>1, <2>2
<1>8. /\ entered \in Seq(Nat) /\ taken \in Seq(Nat) /\ Append(entered, b) \in Seq(Nat)
      /\ entered' \in Seq(Nat) /\ taken' \in Seq(Nat) /\ bytes' \in Nat
  <2>1. entered \in Seq(Nat) /\ taken \in Seq(Nat) /\ bytes \in Nat
        BY Zenon DEF ShortTypes
  <2>2. Append(entered, b) \in Seq(Nat)
        BY <2>1, OneByte
  <2> QED BY <1>1, <1>4, <2>1, <2>2, Zenon
<1>9. /\ ShortTypes' /\ ShortStages' /\ ShortCalls' /\ ShortRows'
      /\ thr'[t] = c /\ \A u \in ShortThreads : u # t => thr'[u] = thr[u]
      BY <1>1, <1>5, <1>7, <1>8, CallMoves, Zenon
<1>10. \A u \in ShortThreads :
         /\ thr'[u].pc = "ack" <=> thr[u].pc = "ack"
         /\ thr'[u].pc \in {"data", "ack"} => thr[u].pc \in {"data", "ack"}
      BY <1>1, <1>7, <1>9, Zenon
<1>11. ShortReady' /\ ByteNotStuck'
      BY <1>1, <1>5, <1>10, Zenon DEF ShortReady, ByteNotStuck
<1>12. BytesTaken'
  <2> SUFFICES ASSUME mod.phase # "none", probe.pc = "none" PROVE BytesTaken'
        BY <1>1, ZenonT(40) DEF BytesTaken
  <2>1. CASE LoopsBack
    <3>1. ~io.rx_ready
          BY <2>1, Zenon DEF LoopsBack
    <3>2. handler # "ack" /\ \A u \in ShortThreads : thr[u].pc # "ack"
          BY <3>1, Zenon DEF ShortReady
    <3>3. Waiting = <<>> /\ Waiting' = <<b>>
          BY <1>5, <2>1, <3>1, Zenon DEF Waiting
    <3>4. entered = taken \o <<>>
          BY <3>2, <3>3 DEF BytesTaken, At
    <3>5. entered' = taken' \o <<b>>
          BY <1>1, <1>4, <1>8, <2>1, <3>4, OneByte
    <3> QED BY <1>1, <1>10, <3>2, <3>3, <3>5 DEF BytesTaken, At
  <2>2. CASE ~LoopsBack
    <3>1. Waiting' = Waiting
          BY <1>5, <2>2, Zenon DEF Waiting
    <3> QED BY <1>1, <1>4, <1>10, <2>2, <3>1, Zenon DEF BytesTaken, At
  <2> QED BY <2>1, <2>2, Zenon
<1> QED BY <1>5, <1>9, <1>11, <1>12, Zenon

\* What ReadMatrix returns.
LEMMA RowsOfMatrix ==
  ASSUME io.matrix \in [Rows -> Nat], NEW row \in Nat, NEW k \in Nat, row + k <= 8
  PROVE  /\ ReadMatrix(row, k) \in Seq(Nat) /\ Len(ReadMatrix(row, k)) = k
         /\ RowsOf(io.matrix, row, ReadMatrix(row, k))
<1>1. \A i \in 1..k : io.matrix[row + i - 1] \in Nat
  <2> SUFFICES ASSUME NEW i \in 1..k PROVE io.matrix[row + i - 1] \in Nat
        BY Zenon
  <2>1. row + i - 1 \in Rows
        BY DEF Rows
  <2> QED BY <2>1, Zenon
<1> QED BY <1>1 DEF ReadMatrix, RowsOf

\* The rows read so far with those of one access more.
LEMMA RowsJoined ==
  ASSUME NEW m, NEW s \in Seq(Nat), NEW r \in Seq(Nat), NEW start \in Nat, NEW row \in Nat,
         row = start + Len(s), RowsOf(m, start, s), RowsOf(m, row, r)
  PROVE  /\ s \o r \in Seq(Nat) /\ Len(s \o r) = Len(s) + Len(r)
         /\ row + Len(r) = start + Len(s \o r) /\ RowsOf(m, start, s \o r)
<1> USE DEF RowsOf
<1>1. s \o r \in Seq(Nat) /\ Len(s \o r) = Len(s) + Len(r)
      OBVIOUS
<1>2. ASSUME NEW i \in 1..Len(s \o r) PROVE (s \o r)[i] = m[start + i - 1]
  <2>1. CASE i <= Len(s)
        BY <1>1, <2>1
  <2>2. CASE i > Len(s)
    <3>1. PICK j \in 1..Len(r) : i = Len(s) + j
      <4>1. i - Len(s) \in 1..Len(r) /\ i = Len(s) + (i - Len(s))
            BY <1>1, <2>2
      <4> QED BY <4>1, ZenonT(40)
    <3>2. (s \o r)[i] = r[j]
          BY <1>1, <2>2, <3>1
    <3>3. row + j - 1 = start + i - 1
          BY <3>1
    <3> QED BY <3>1, <3>2, <3>3, Zenon
  <2> QED BY <1>1, <2>1, <2>2
<1>3. RowsOf(m, start, s \o r)
      BY <1>2, Zenon
<1> HIDE DEF RowsOf
<1>4. Len(s) \in Nat /\ Len(r) \in Nat
      OBVIOUS
<1>5. row + Len(r) = start + Len(s \o r)
      BY <1>1, <1>4
<1> QED BY <1>1, <1>3, <1>5, Zenon

\* Rows that are those of a matrix one by one are a read of it.
LEMMA RowsWhole ==
  ASSUME NEW s \in Seq(Nat), NEW start, RowsOf(io.matrix, start, s)
  PROVE  s = ReadMatrix(start, Len(s))
<1>1. s = [i \in 1..Len(s) |-> s[i]]
      OBVIOUS
<1> QED BY <1>1, Zenon DEF RowsOf, ReadMatrix

\* Where an access of k rows ends.
LEMMA RowsBelow ==
  ASSUME NEW pos \in 0..8, NEW end \in 0..8, NEW k \in {1, 2, 4, 8}, pos + k <= end
  PROVE  pos + k \in 0..8 /\ pos + k <= 8 /\ pos \in Nat /\ k \in Nat
OBVIOUS

\* An access to the matrix, by who has the lock.
LEMMA MatrixKeeps ==
  ASSUME ShortInv, NEW t \in ShortThreads, MatrixRows(t)
  PROVE  ShortInv'
<1> USE DEF ShortInv
<1>1. /\ thr[t].pc = "rows"
      /\ UNCHANGED <<mod, res, handler, probe, width, entered, taken, bytes>>
      BY Zenon DEF MatrixRows, At, drvVars, histVars
<1>2. thr[t] \in MatrixCall /\ thr[t] # Idle
      BY <1>1, CallTypes, Zenon
<1>3. /\ lock = t /\ mod.drv \in Polled /\ "cdev" \in res /\ mod.phase \in {"init", "up"}
      BY <1>1, <1>2, Zenon DEF ShortCalls, Fitting
<1>4. entered' \in Seq(Nat) /\ taken' \in Seq(Nat) /\ bytes' \in Nat
      BY <1>1, Zenon DEF ShortTypes
<1>5. CASE Set(t, Idle) /\ lock' = "free" /\ UNCHANGED ioVars
  <2>1. thr' = [thr EXCEPT ![t] = Idle] /\ UNCHANGED <<io, irq, panel>>
        BY <1>5, Zenon DEF Set, ioVars
  <2>2. Idle \in ShortCall /\ Idle.pc = "idle" /\ Fitting(t, Idle, lock') /\ RowsRead(Idle)
        BY IdleFits, Zenon
  <2> QED BY <1>1, <1>3, <1>4, <1>5, <2>1, <2>2, CallOnly, Zenon
<1>6. ASSUME NEW k \in thr[t].sizes, thr[t].pos + k <= thr[t].end, lock' = lock,
             IF thr[t].call = "mread"
             THEN /\ Set(t, [thr[t] EXCEPT !.pos = @ + k,
                                           !.rows = @ \o ReadMatrix(thr[t].pos, k)])
                  /\ UNCHANGED ioVars
             ELSE /\ Set(t, [thr[t] EXCEPT !.pos = @ + k])
                  /\ WriteMatrix(thr[t].pos, [i \in 1..k |-> thr[t].value])
      PROVE  ShortInv'
  <2>1. /\ thr[t].pos \in 0..8 /\ thr[t].end \in 0..8 /\ thr[t].start \in 0..8
        /\ thr[t].value \in 0..1 /\ thr[t].rows \in Seq(Nat) /\ k \in {1, 2, 4, 8}
        BY <1>2, <1>6, Zenon DEF MatrixCall
  <2>2. PICK pos \in 0..8 : pos = thr[t].pos + k
        BY <1>6, <2>1, RowsBelow, Zenon
  <2>3. /\ thr[t].pos + k <= 8 /\ thr[t].pos \in Nat /\ k \in Nat /\ thr[t].start \in Nat
        /\ thr[t].value \in Nat
    <3>1. \A n \in 0..8 : n \in Nat
          OBVIOUS
    <3>2. \A n \in 0..1 : n \in Nat
          OBVIOUS
    <3> QED BY <1>6, <2>1, <3>1, <3>2, RowsBelow, Zenon
  <2>4. io.matrix \in [Rows -> Nat]
        BY Zenon DEF Screen, Regs
  <2>5. ASSUME NEW c \in MatrixCall, c.pc = "rows"
        PROVE  c \in ShortCall /\ Fitting(t, c, lock')
        BY <1>3, <1>6, <2>5 DEF ShortCall, Fitting
  <2>6. CASE thr[t].call = "mread"
    <3>1. PICK r : r = ReadMatrix(thr[t].pos, k)
          OBVIOUS
    <3>2. /\ r \in Seq(Nat) /\ Len(r) = k
          /\ RowsOf(io.matrix, thr[t].pos, r)
          BY <2>3, <2>4, <3>1, RowsOfMatrix, Zenon
    <3>3. thr[t].pos = thr[t].start + Len(thr[t].rows) /\ RowsOf(io.matrix, thr[t].start, thr[t].rows)
          BY <1>1, <1>2, <2>6, Zenon DEF ShortRows, RowsRead
    <3>4. PICK rows : rows = thr[t].rows \o r
          BY Zenon
    <3>0. /\ thr[t].rows \o r \in Seq(Nat)
          /\ thr[t].pos + Len(r) = thr[t].start + Len(thr[t].rows \o r)
          /\ RowsOf(io.matrix, thr[t].start, thr[t].rows \o r)
      <4>0. PICK m : m = io.matrix
            BY Zenon
      <4>1. PICK s \in Seq(Nat), start \in Nat, row \in Nat :
              s = thr[t].rows /\ start = thr[t].start /\ row = thr[t].pos
            BY <2>1, <2>3, Zenon
      <4>2. row = start + Len(s) /\ RowsOf(m, start, s) /\ RowsOf(m, row, r)
            BY <3>2, <3>3, <4>0, <4>1, Zenon
      <4>3. /\ s \o r \in Seq(Nat) /\ row + Len(r) = start + Len(s \o r)
            /\ RowsOf(m, start, s \o r)
            BY <3>2, <4>2, RowsJoined
      <4> QED BY <4>0, <4>1, <4>3, Zenon
    <3>5. /\ rows \in Seq(Nat) /\ thr[t].pos + k = thr[t].start + Len(rows)
          /\ RowsOf(io.matrix, thr[t].start, rows)
          BY <3>0, <3>2, <3>4, Zenon
    <3>6. PICK c \in MatrixCall : c = [thr[t] EXCEPT !.pos = pos, !.rows = rows]
          BY <1>2, <3>5, Zenon DEF MatrixCall
    <3>7. c.pc = "rows" /\ c.pos = pos /\ c.rows = rows /\ c.start = thr[t].start
          BY <1>1, <1>2, <3>6 DEF MatrixCall
    <3>9. RowsRead(c)
          BY <2>2, <3>5, <3>7, Zenon DEF RowsRead
    <3>10. thr' = [thr EXCEPT ![t] = c] /\ UNCHANGED <<io, irq, panel>>
          BY <1>6, <2>2, <2>6, <3>1, <3>4, <3>6 DEF Set, ioVars
    <3> QED BY <1>1, <1>3, <1>4, <1>6, <2>5, <3>7, <3>9, <3>10, CallOnly, ZenonT(40)
  <2>7. CASE thr[t].call # "mread"
    <3>1. /\ Set(t, [thr[t] EXCEPT !.pos = @ + k])
          /\ WriteMatrix(thr[t].pos, [i \in 1..k |-> thr[t].value])
          BY <1>6, <2>7, Zenon
    <3>2. /\ Screen' /\ io'.ctrl = io.ctrl /\ irq' = irq
          /\ io'.rx_ready = io.rx_ready /\ io'.data_in = io.data_in
          BY <2>3, <3>1, MatrixWritten, Zenon
    <3>3. PICK c \in MatrixCall : c = [thr[t] EXCEPT !.pos = pos]
          BY <1>2, Zenon DEF MatrixCall
    <3>4. c.pc = "rows" /\ c.call # "mread"
          BY <1>1, <1>2, <2>7, <3>3, Zenon DEF MatrixCall
    <3>5. RowsRead(c)'
          BY <3>4, Zenon DEF RowsRead
    <3>6. thr' = [thr EXCEPT ![t] = c]
          BY <2>2, <3>1, <3>3, Zenon DEF Set
    <3>7. /\ ShortTypes' /\ ShortStages' /\ ShortCalls' /\ ShortRows'
          /\ thr'[t] = c /\ \A u \in ShortThreads : u # t => thr'[u] = thr[u]
          BY <1>1, <1>4, <1>6, <2>5, <3>2, <3>4, <3>5, <3>6, CallMoves, Zenon
    <3>8. \A u \in ShortThreads :
            /\ thr'[u].pc = "ack" <=> thr[u].pc = "ack"
            /\ thr'[u].pc \in {"data", "ack"} => thr[u].pc \in {"data", "ack"}
          BY <1>1, <3>4, <3>7, Zenon
    <3>9. ShortReady' /\ ByteNotStuck'
          BY <1>1, <3>2, <3>8, Zenon DEF ShortReady, ByteNotStuck
    <3>10. BytesTaken'
      <4>1. Waiting' = Waiting
            BY <3>2, Zenon DEF Waiting
      <4> QED BY <1>1, <3>8, <4>1, Zenon DEF BytesTaken, At
    <3> QED BY <3>2, <3>7, <3>9, <3>10, Zenon
  <2> QED BY <2>6, <2>7, Zenon
<1> QED BY <1>5, <1>6, Zenon DEF MatrixRows

-------------------------------------------------------------------------------

\* No driver is loaded and the device is as a reset leaves it.
LEMMA ShortStarts == ShortInit => ShortInv
<1> SUFFICES ASSUME ShortInit PROVE ShortInv
      BY Zenon
<1>1. /\ mod = [drv |-> 0, phase |-> "none", step |-> 0] /\ res = {}
      /\ lock = "free" /\ thr = [t \in ShortThreads |-> Idle] /\ handler = "none"
      /\ probe = [pc |-> "none", tries |-> 0, found |-> FALSE]
      /\ width = 8 /\ entered = <<>> /\ taken = <<>> /\ bytes = 0
      BY Zenon DEF ShortInit
<1>2. Screen /\ io.ctrl = {}
  <2>1. PICK viewer \in {"none", "closed"} : IoInit(viewer)
        BY Zenon DEF ShortInit
  <2>2. Cleared \in Regs /\ Cleared.ctrl = {} /\ io = Cleared
        BY <2>1, Zenon DEF Cleared, Regs, IoInit
  <2>3. 0 \in 0..Pieces
        BY LddIoAssumption
  <2>4. panel \in PanelState /\ panel.viewer = viewer
        BY <2>1, <2>2, <2>3, Zenon DEF IoInit, PanelState
  <2>5. irq \in BOOLEAN
        BY <2>1, Zenon DEF IoInit
  <2> QED BY <2>1, <2>2, <2>4, <2>5, Zenon DEF Screen, Follows
<1>3. mod \in ShortModule /\ mod.phase = "none" /\ probe \in ShortProbe /\ probe.pc = "none"
  <2>1. 0 \in 0..6
        OBVIOUS
  <2> QED BY <1>1, <2>1, Zenon DEF ShortModule, ShortProbe
<1>4. \A t \in ShortThreads : thr[t] = Idle /\ Idle \in ShortCall /\ Idle.pc = "idle"
      BY <1>1, IdleFits, Zenon
<1>5. ShortTypes
      BY <1>1, <1>3, <1>4 DEF ShortTypes
<1>6. ShortStages
      BY <1>1, <1>2, <1>3, Zenon DEF ShortStages
<1>7. ShortCalls /\ ShortRows
      BY <1>4, IdleFits, Zenon DEF ShortCalls, ShortRows
<1>8. ShortReady /\ BytesTaken /\ ByteNotStuck
      BY <1>1, <1>2, <1>3, <1>4, Zenon DEF ShortReady, BytesTaken, ByteNotStuck
<1> QED BY <1>2, <1>5, <1>6, <1>7, <1>8, Zenon DEF ShortInv

\* The invariant holds throughout.
LEMMA ShortInvariant == ShortSpec => []ShortInv
<1>1. ShortInv /\ [ShortNext]_shortVars => ShortInv'
  <2> SUFFICES ASSUME ShortInv, [ShortNext]_shortVars PROVE ShortInv'
        BY Zenon
  <2>1. CASE UNCHANGED shortVars
    <3>1. UNCHANGED <<io, irq, panel, mod, res, lock, thr, handler, probe, width, entered,
                      taken, bytes>>
          BY <2>1, Zenon DEF shortVars, ioVars, drvVars, useVars, histVars
    <3>0. Screen' /\ ShortTypes'
          BY <3>1 DEF ShortInv, Screen, Follows, ShortTypes
    <3>2. ShortStages' /\ ShortReady' /\ ByteNotStuck'
          BY <3>1, ZenonT(40) DEF ShortInv, ShortStages, ShortReady, ByteNotStuck
    <3>3. ShortCalls' /\ ShortRows'
          BY <3>1, CallsStay, RowsStay, Zenon DEF ShortInv
    <3>4. BytesTaken'
      <4>1. Waiting' = Waiting
            BY <3>1, Zenon DEF Waiting
      <4> QED BY <3>1, <4>1, Zenon DEF ShortInv, BytesTaken, At
    <3> QED BY <3>0, <3>2, <3>3, <3>4, Zenon DEF ShortInv
  <2>2. CASE Load \/ InitStep \/ Unload \/ ExitStep \/ short_probe_irq
        BY <2>2, LoadKeeps, InitKeeps, UnloadKeeps, ExitKeeps, ProbeKeeps, Zenon
  <2>3. CASE Pulse \/ short_interrupt \/ Key \/ width_set \/ Reset \/ Viewer
        BY <2>3, PulseKeeps, HandlerKeeps, KeyKeeps, WidthKeeps, ResetKeeps, ViewerKeeps
  <2>4. ASSUME NEW t \in ShortThreads, Call(t) \/ Lock(t) \/ MatrixRows(t) \/ data_write(t)
        PROVE  ShortInv'
        BY <2>4, CallKeeps, LockKeeps, MatrixKeeps, WriteKeeps, Zenon
  <2>5. ASSUME NEW t \in ShortThreads, data_read(t) PROVE ShortInv'
        BY <2>5, StatusKeeps, DataKeeps, AckKeeps, Zenon DEF data_read, data_take, drvVars
  <2> QED BY <2>1, <2>2, <2>3, <2>4, <2>5, Zenon
          DEF ShortNext, short_interrupt_18, short_interrupt_19, data_read_15, data_read_16,
              data_read_17, data_write_15, data_write_16, data_write_17, short_write_18,
              short_write_19
<1> QED BY <1>1, ShortStarts, PTL DEF ShortSpec

\* The panel of ldd-io never falls behind for good: a viewer who is there sees the
\* registers, or is being sent them, or has a redraw coming after an older frame.
THEOREM PanelCurrent == ShortSpec => []PanelFollows
<1>1. ShortInv => PanelFollows
      BY Zenon DEF ShortInv, Screen, Follows, PanelFollows
<1> QED BY <1>1, ShortInvariant, PTL

\* Every byte the device receives is taken once and in order, by the readers of
\* 15 to 17 or the handler of 18 and 19, whoever reads, writes or types meanwhile.
THEOREM BytesComeThrough == ShortSpec => []BytesTaken
<1>1. ShortInv => BytesTaken
      BY Zenon DEF ShortInv
<1> QED BY <1>1, ShortInvariant, PTL

\* A byte never waits in a device that interrupts without a pulse on its way or
\* the handler about to take it.
THEOREM NoByteStuck == ShortSpec => []ByteNotStuck
<1>1. ShortInv => ByteNotStuck
      BY Zenon DEF ShortInv
<1> QED BY <1>1, ShortInvariant, PTL

\* The device interrupts only for a driver that has its handler registered or is
\* probing, and the handler runs only with the registers and the line held.
THEOREM LineOwned == ShortSpec => []InterruptOwned
<1>1. ShortInv => InterruptOwned
  <2> SUFFICES ASSUME ShortInv PROVE InterruptOwned
        BY Zenon
  <2> USE DEF ShortInv
  <2>1. mod.phase = "none" => res = {}
        BY Zenon DEF ShortStages
  <2>2. handler # "none" => {"region", "irq"} \subseteq res
        BY HandlerAlone, Zenon
  <2>3. ASSUME io.ctrl # {}, probe.pc = "none" PROVE "irq" \in res
    <3>1. mod.drv \in {18, 19} /\ mod.phase \in {"up", "exit"} /\ mod.step = 1
          BY <2>3, Zenon DEF ShortStages
    <3>2. /\ mod.drv \in ShortDrivers /\ mod.step \in 1..Len(m_exit(mod.drv))
          /\ res = ExitHeld(mod.drv, mod.step)
          BY <3>1, Zenon DEF ShortStages
    <3> QED BY <3>1, <3>2, ExitLine
  <2> QED BY <2>1, <2>2, <2>3, Zenon DEF InterruptOwned
<1> QED BY <1>1, ShortInvariant, PTL

\* A picture that matrix_read is reading is not written to until it has every row.
THEOREM PicturesWhole == ShortSpec => []PictureWhole
<1>1. ShortInv => PictureWhole
  <2> SUFFICES ASSUME ShortInv, NEW t \in ShortThreads, thr[t].pc = "rows",
                      thr[t].call = "mread"
               PROVE  thr[t].rows = ReadMatrix(thr[t].start, Len(thr[t].rows))
        BY Zenon DEF PictureWhole, At
  <2> USE DEF ShortInv
  <2>1. thr[t] \in MatrixCall /\ thr[t].rows \in Seq(Nat)
        BY CallTypes, Zenon DEF MatrixCall
  <2>2. RowsOf(io.matrix, thr[t].start, thr[t].rows)
        BY <2>1, Zenon DEF ShortRows, RowsRead
  <2> QED BY <2>1, <2>2, RowsWhole, Zenon
<1> QED BY <1>1, ShortInvariant, PTL
================================================================================
