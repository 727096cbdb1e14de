--------------------------------- MODULE Tty ----------------------------------
(***************************************************************************)
(* examples/31_tty/main.c: one line of the fake tty.  A timer feeds it a   *)
(* character at a time while it is open, and what is written to it is      *)
(* collected and printed in lines.  The tty layer serialises open, close   *)
(* and hangup of a line; the timer, the writes and the echoes of what the  *)
(* timer inserted go on meanwhile.  set_termios only logs.                 *)
(***************************************************************************)
EXTENDS Integers, Sequences, FiniteSetsExt

CONSTANTS
  TtyFiles,
  LINE_LONG, \* LDD_LINE_LONG
  TtyTexts,  \* bound: what a write may hold
  MaxText,   \* bound: characters written
  MaxFlip    \* characters the flip buffer has room for

ASSUME TtyAssumption ==
  /\ IsFiniteSet(TtyFiles)
  /\ LINE_LONG \in Nat \ {0} /\ MaxText \in Nat /\ MaxFlip \in Nat
  /\ \A s \in TtyTexts : s \in Seq({"a", "b", "\r", "\n"})

VARIABLES
  tty_module, \* "none", "loaded" or "gone"
  tty_file,   \* each file: "closed", "open" or "hung" up
  tty_port,   \* the port: count and initialized
  tty_down,   \* how far a shutdown of the port is: "none", "timer", "flush"
  tty_timer,  \* armed, and where ldd_tty_timer_func is
  tty_flip,   \* characters inserted and not yet received
  tty_buf,    \* buffer, the line being collected
  tty_lines,  \* the lines printed
  tty_text    \* history: all that was written; "shut" where the port was shut down

ttyVars == <<tty_module, tty_file, tty_port, tty_down, tty_timer, tty_flip, tty_buf,
             tty_lines, tty_text>>

TtyInit ==
  /\ tty_module = "none" /\ tty_file = [f \in TtyFiles |-> "closed"]
  /\ tty_port = [count |-> 0, initialized |-> FALSE] /\ tty_down = "none"
  /\ tty_timer = [armed |-> FALSE, pc |-> "idle"] /\ tty_flip = 0
  /\ tty_buf = <<>> /\ tty_lines = <<>> /\ tty_text = <<>>

\* m_init, after whose failure nothing is left, and m_exit, which needs every file
\* of the line closed.
tty_m_init ==
  /\ tty_module = "none" /\ tty_module' \in {"loaded", "gone"}
  /\ UNCHANGED <<tty_file, tty_port, tty_down, tty_timer, tty_flip, tty_buf, tty_lines,
                 tty_text>>

tty_m_exit ==
  /\ tty_module = "loaded" /\ tty_down = "none"
  /\ \A f \in TtyFiles : tty_file[f] = "closed"
  /\ tty_module' = "gone" /\ tty_flip' = 0
  /\ UNCHANGED <<tty_file, tty_port, tty_down, tty_timer, tty_buf, tty_lines,
                 tty_text>>

-------------------------------------------------------------------------------
(* The timer.                                                              *)

ldd_tty_timer_func ==
  /\ \/ /\ tty_timer.armed /\ tty_timer.pc = "idle"
        /\ tty_timer' = [armed |-> FALSE, pc |-> "insert"]
        /\ UNCHANGED tty_flip
     \/ /\ tty_timer.pc = "insert"
        /\ tty_flip' = IF tty_flip < MaxFlip THEN tty_flip + 1 ELSE tty_flip
        /\ tty_timer' = [tty_timer EXCEPT !.pc = "rearm"]
     \/ /\ tty_timer.pc = "rearm"
        /\ tty_timer' = [armed |-> TRUE, pc |-> "idle"]
        /\ UNCHANGED tty_flip
  /\ UNCHANGED <<tty_module, tty_file, tty_port, tty_down, tty_buf, tty_lines,
                 tty_text>>

-------------------------------------------------------------------------------
(* Open, close and hangup.  External, the tty_port_* functions: activate   *)
(* on the first open, shutdown on the last close or the hangup.            *)

ldd_port_activate == tty_timer' = [tty_timer EXCEPT !.armed = TRUE]

ldd_tty_open(f) ==
  /\ tty_module = "loaded" /\ Len(tty_text) < MaxText /\ tty_down = "none"
  /\ tty_file[f] = "closed"
  /\ tty_file' = [tty_file EXCEPT ![f] = "open"]
  /\ tty_port' = [count |-> tty_port.count + 1, initialized |-> TRUE]
  /\ IF tty_port.initialized THEN UNCHANGED tty_timer ELSE ldd_port_activate
  /\ UNCHANGED <<tty_module, tty_down, tty_flip, tty_buf, tty_lines, tty_text>>

\* The port is not open any more; its hardware is shut down if it was running.
TtyPortShutdown ==
  /\ tty_port' = [count |-> 0, initialized |-> FALSE]
  /\ tty_down' = IF tty_port.initialized THEN "timer" ELSE "none"

ldd_tty_close(f) ==
  /\ tty_down = "none" /\ tty_file[f] # "closed"
  /\ tty_file' = [tty_file EXCEPT ![f] = "closed"]
  /\ IF tty_file[f] = "hung" THEN UNCHANGED <<tty_port, tty_down>>
     ELSE IF tty_port.count = 1 THEN TtyPortShutdown
     ELSE tty_port' = [tty_port EXCEPT !.count = @ - 1] /\ UNCHANGED tty_down
  /\ UNCHANGED <<tty_module, tty_timer, tty_flip, tty_buf, tty_lines, tty_text>>

ldd_tty_hangup ==
  /\ tty_down = "none" /\ \E f \in TtyFiles : tty_file[f] = "open"
  /\ tty_file' = [f \in TtyFiles |-> IF tty_file[f] = "open" THEN "hung" ELSE tty_file[f]]
  /\ TtyPortShutdown
  /\ UNCHANGED <<tty_module, tty_timer, tty_flip, tty_buf, tty_lines, tty_text>>

ldd_tty_flush(w) ==
  IF w.buf = <<>> THEN w ELSE [buf |-> <<>>, lines |-> Append(w.lines, w.buf)]

\* Mutant: the timer is deleted, its function not waited for.
timer_delete == TRUE

\* External: it waits for a running function, then deletes what it re-armed.
timer_delete_sync == tty_timer.pc = "idle"

ldd_port_shutdown ==
  /\ \/ /\ tty_down = "timer" /\ timer_delete_sync
        /\ tty_timer' = [tty_timer EXCEPT !.armed = FALSE]
        /\ tty_down' = "flush"
        /\ UNCHANGED <<tty_buf, tty_lines, tty_text>>
     \/ /\ tty_down = "flush"
        /\ LET w == ldd_tty_flush([buf |-> tty_buf, lines |-> tty_lines]) IN
             tty_buf' = w.buf /\ tty_lines' = w.lines
        /\ tty_text' = Append(tty_text, "shut")
        /\ tty_down' = "none"
        /\ UNCHANGED tty_timer
  /\ UNCHANGED <<tty_module, tty_file, tty_port, tty_flip>>

-------------------------------------------------------------------------------
(* Writing.                                                                *)

\* Mutant: a line is cut one character late.
LineTooLong(buf) == Len(buf) > LINE_LONG

LineFull(buf) == Len(buf) >= LINE_LONG

\* The loop over the characters of s; w is the line being collected and the lines
\* printed.  A "\n" after "\r" in the same call is skipped.
ldd_tty_printk(s, w) ==
  LET Cut(v) == IF LineFull(v.buf)
                THEN ldd_tty_flush([v EXCEPT !.buf = Append(@, "\\")]) ELSE v
      Step(c, v) == IF c \in {"\r", "\n"} THEN ldd_tty_flush(v)
                                          ELSE [v EXCEPT !.buf = Append(@, c)]
      after[i \in 0..Len(s)] ==
        IF i = 0 THEN w
        ELSE IF i > 1 /\ s[i] = "\n" /\ s[i - 1] = "\r" THEN after[i - 1]
        ELSE Step(s[i], Cut(after[i - 1]))
  IN  after[Len(s)]

ldd_tty_write(s) ==
  /\ LET w == ldd_tty_printk(s, [buf |-> tty_buf, lines |-> tty_lines]) IN
       tty_buf' = w.buf /\ tty_lines' = w.lines
  /\ tty_text' = tty_text \o s

\* External, a write(2): the tty layer passes on what there is room for.
TtyWrite(f) ==
  /\ tty_file[f] = "open" /\ tty_down = "none"
  /\ \E s \in TtyTexts : Len(tty_text) + Len(s) <= MaxText /\ ldd_tty_write(s)
  /\ UNCHANGED <<tty_module, tty_file, tty_port, tty_down, tty_timer, tty_flip>>

\* External, the line discipline: it receives what was inserted, and echoes it,
\* also while the port is being shut down.
TtyReceive ==
  /\ tty_module = "loaded" /\ tty_flip > 0 /\ tty_flip' = tty_flip - 1
  /\ \/ UNCHANGED <<tty_buf, tty_lines, tty_text>>
     \/ Len(tty_text) < MaxText /\ ldd_tty_write(<<"a">>)
  /\ UNCHANGED <<tty_module, tty_file, tty_port, tty_down, tty_timer>>

TtyFinished == tty_module = "gone" /\ UNCHANGED ttyVars

TtyNext ==
  \/ tty_m_init \/ tty_m_exit \/ TtyFinished
  \/ ldd_tty_timer_func \/ ldd_tty_hangup \/ ldd_port_shutdown \/ TtyReceive
  \/ \E f \in TtyFiles : \/ ldd_tty_open(f) \/ ldd_tty_close(f)
                         \/ TtyWrite(f)

TtySpec == TtyInit /\ [][TtyNext]_ttyVars

-------------------------------------------------------------------------------
\* The timer runs only while somebody has the line open: once the port is shut down
\* it is neither armed nor running, although its function re-arms it, and so m_exit
\* frees no armed timer.
TimerOff ==
  (~tty_port.initialized /\ tty_down # "timer") \/ tty_module = "gone" =>
    ~tty_timer.armed /\ tty_timer.pc = "idle"

\* The text in lines: each begins after the end of another, or LINE_LONG characters
\* after the beginning of one, and is printed when something follows it, with a
\* mark when it is full and more was written.
LinesOf(text) ==
  LET End(i) == text[i] \in {"\r", "\n", "shut"}
      Run(i) == i - Max({0} \cup {k \in 1..i : End(k)})
      Starts == {i \in DOMAIN text : ~End(i) /\ (Run(i) - 1) % LINE_LONG = 0}
      Stop(i) == Max({j \in DOMAIN text : /\ i <= j /\ j < i + LINE_LONG
                                          /\ \A k \in i..j : ~End(k)})
      Full(i) == Stop(i) = i + LINE_LONG - 1 /\ text[Stop(i) + 1] # "shut"
      Line(i) == SubSeq(text, i, Stop(i)) \o IF Full(i) THEN <<"\\">> ELSE <<>>
      Printed == {i \in Starts : Stop(i) < Len(text)}
      Nth(k) == CHOOSE i \in Printed : Cardinality({j \in Printed : j < i}) = k - 1
  IN  [lines |-> [k \in 1..Cardinality(Printed) |-> Line(Nth(k))],
       buf |-> IF \E i \in Starts : Stop(i) = Len(text)
               THEN SubSeq(text, CHOOSE i \in Starts : Stop(i) = Len(text), Len(text))
               ELSE <<>>]

\* What is printed, and what is still collected, depends on the text alone, not on
\* how it was cut into writes nor on the opens and closes between them: no character
\* is lost, printed twice or put in another line.
LinesAsWritten == LinesOf(tty_text) = [lines |-> tty_lines, buf |-> tty_buf]
===============================================================================
