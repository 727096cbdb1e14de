-------------------------------- MODULE LddIo ---------------------------------
(***************************************************************************)
(* ldd-io, the QEMU device behind 15_short_ioport to 19_short_irq_probe:   *)
(* LEDs, a receive register with an edge interrupt, an LED matrix, and the *)
(* panel that shows all of it to a viewer who may be slow or go away.  A   *)
(* value wider than a byte is the sequence of its bytes, the lowest offset *)
(* first.  A frame of the panel stands for the registers it was drawn      *)
(* from; the chardev takes it in pieces.                                   *)
(***************************************************************************)
EXTENDS Integers, Sequences

CONSTANT Pieces \* the pieces a frame may be taken in

ASSUME LddIoAssumption == Pieces \in Nat \ {0}

VARIABLES
  io,   \* the registers
  irq,  \* a pulse of the interrupt line not yet taken by the CPU
  panel \* viewer, the frame being sent and what is left of it, dirty, watch, shown

ioVars == <<io, irq, panel>>

Rows == 0..7

\* ldd_io_reset_enter.
Cleared == [data_out |-> 0, data_in |-> 0, rx_ready |-> FALSE, ctrl |-> {},
            matrix |-> [r \in Rows |-> 0]]

\* viewer: "none" without a chardev, "closed", "open", or "gone" when a write
\* failed and the event that says so has not come yet.
IoInit(viewer) ==
  /\ io = Cleared /\ irq = FALSE
  /\ panel = [viewer |-> viewer, left |-> 0, frame |-> Cleared, dirty |-> FALSE,
              watch |-> FALSE, shown |-> Cleared]

-------------------------------------------------------------------------------
(* The panel.                                                              *)

\* External, qemu_chr_fe_write: what the chardev does with the frame of p, all of
\* it taken, some of it left, or an error.  Without a viewer it is swallowed, and
\* with it the redraw put off, or fails again.
SendFrame(p) ==
  IF p.viewer = "open"
  THEN {[p EXCEPT !.left = 0, !.shown = p.frame],
        [p EXCEPT !.left = 0, !.frame = p.shown, !.viewer = "gone"]}
       \cup {[p EXCEPT !.left = k, !.watch = TRUE] : k \in 1..p.left}
  ELSE {[p EXCEPT !.left = 0, !.frame = p.shown, !.dirty = d] : d \in {p.dirty, FALSE}}

ldd_io_build_panel(p, regs) == [p EXCEPT !.frame = regs, !.left = Pieces]

\* Mutant: what was drawn while the frame was on its way is forgotten.
FlushOnce(p, regs) == SendFrame(p)

\* A frame that is out makes room for the redraw put off until then.
ldd_io_panel_flush(p, regs) ==
  UNION {IF q.left = 0 /\ q.viewer = "open" /\ q.dirty
         THEN SendFrame(ldd_io_build_panel([q EXCEPT !.dirty = FALSE], regs))
         ELSE {q} : q \in SendFrame(p)}

ldd_io_draw_panel(p, regs) ==
  IF p.viewer = "none" THEN {p}
  ELSE IF p.left > 0 THEN {[p EXCEPT !.dirty = TRUE]}
  ELSE ldd_io_panel_flush(ldd_io_build_panel(p, regs), regs)

\* The registers become regs and the panel is redrawn.
Redraw(regs) == io' = regs /\ panel' \in ldd_io_draw_panel(panel, regs)

\* The watch fires: the chardev can take more.
ldd_io_panel_writable ==
  /\ panel.watch
  /\ panel' \in ldd_io_panel_flush([panel EXCEPT !.watch = FALSE], io)
  /\ UNCHANGED <<io, irq>>

ldd_io_panel_drop(p) ==
  [p EXCEPT !.watch = FALSE, !.left = 0, !.frame = p.shown, !.dirty = FALSE]

\* A viewer comes, and gets a cleared screen, or goes.
ldd_io_panel_event ==
  /\ \/ /\ panel.viewer = "closed"
        /\ panel' \in ldd_io_panel_flush(
                        ldd_io_build_panel(
                          [ldd_io_panel_drop(panel) EXCEPT !.viewer = "open"], io), io)
     \/ /\ panel.viewer \in {"open", "gone"}
        /\ panel' = [ldd_io_panel_drop(panel) EXCEPT
                       !.viewer = "closed", !.shown = Cleared, !.frame = Cleared]
  /\ UNCHANGED <<io, irq>>

-------------------------------------------------------------------------------
(* Input and the registers.                                                *)

\* Rule 1 of the interrupt.
ldd_io_receive_byte(regs, b) == [regs EXCEPT !.data_in = b, !.rx_ready = TRUE]

ldd_io_keyboard_can_receive == ~io.rx_ready /\ "LOOPBACK" \notin io.ctrl

ldd_io_keyboard_receive(b) ==
  /\ ldd_io_keyboard_can_receive
  /\ irq' = (irq \/ "IRQ_EN" \in io.ctrl)
  /\ Redraw(ldd_io_receive_byte(io, b))

\* In loopback a byte written is received too, unless one is waiting.
LoopsBack == "LOOPBACK" \in io.ctrl /\ ~io.rx_ready

WriteData(b) ==
  LET regs == [io EXCEPT !.data_out = b] IN
    /\ irq' = (irq \/ (LoopsBack /\ "IRQ_EN" \in io.ctrl))
    /\ Redraw(IF LoopsBack THEN ldd_io_receive_byte(regs, b) ELSE regs)

\* RX_READY written to STATUS: the next byte may come in.
WriteStatus ==
  /\ Redraw([io EXCEPT !.rx_ready = FALSE])
  /\ UNCHANGED irq

\* Mutant: enabling the interrupt does not look for a byte that is waiting.
WriteCtrlNoPulse(c) ==
  /\ Redraw([io EXCEPT !.ctrl = c])
  /\ UNCHANGED irq

\* Rule 2: enabled while a byte is waiting.
WriteCtrl(c) ==
  /\ irq' = (irq \/ (io.rx_ready /\ "IRQ_EN" \in c \ io.ctrl))
  /\ Redraw([io EXCEPT !.ctrl = c])

\* Accesses to the matrix are aligned.
ldd_io_accepts(row, size) == row % size = 0 /\ row + size <= 8

\* One access, one redraw, whatever its width.
WriteMatrix(row, value) ==
  /\ ldd_io_accepts(row, Len(value))
  /\ Redraw([io EXCEPT !.matrix =
               [r \in Rows |-> IF r \in row..(row + Len(value) - 1)
                               THEN value[r - row + 1] ELSE io.matrix[r]]])
  /\ UNCHANGED irq

ReadMatrix(row, size) == [i \in 1..size |-> io.matrix[row + i - 1]]

ldd_io_reset == Redraw(Cleared) /\ irq' = FALSE

-------------------------------------------------------------------------------
\* A viewer who is there either sees the registers as they are, or is being sent
\* a frame of them, or of older ones and then another; and whatever is left of a
\* frame is waiting for the chardev.
PanelFollows ==
  panel.viewer = "open" =>
    \/ panel.left = 0 /\ panel.shown = io
    \/ panel.left > 0 /\ panel.watch /\ (panel.frame = io \/ panel.dirty)
===============================================================================
