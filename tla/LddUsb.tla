-------------------------------- MODULE LddUsb --------------------------------
(***************************************************************************)
(* ldd-usb, the QEMU device behind 21_usb_skel: a timer that ticks, an     *)
(* interrupt endpoint that reports a tick once, a bulk endpoint with the   *)
(* time of the last tick and one that sets the interval.  The host's time  *)
(* is the number of the tick it was stamped at.  The timer may fire at any *)
(* moment, so the interval itself is left out.                             *)
(***************************************************************************)
EXTENDS Integers

CONSTANT MaxTicks \* bound: ticks of the device

ASSUME LddUsbAssumption == MaxTicks \in Nat

VARIABLES tick_pending, time

usb == <<tick_pending, time>>

\* ldd_usb_handle_reset.
UsbInit == tick_pending = FALSE /\ time = 0

UsbTypeOK == tick_pending \in BOOLEAN /\ time \in 0..MaxTicks

\* The timer fires: ticks that were not reported collapse into one.
ldd_usb_tick ==
  /\ time < MaxTicks
  /\ time' = time + 1
  /\ tick_pending' = TRUE

\* Bulk OUT: the timer restarts and a tick not yet reported is dropped.
ldd_usb_set_interval == tick_pending' = FALSE /\ UNCHANGED time

\* Interrupt IN with a tick pending; without one the transfer is NAKed and stays.
ldd_usb_report_tick ==
  /\ tick_pending
  /\ tick_pending' = FALSE
  /\ UNCHANGED time
===============================================================================
