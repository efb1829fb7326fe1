----------------------------- MODULE MCCapture -----------------------------
(* The capture thread for TLC: two devices. *)
EXTENDS Capture

CONSTANTS d1, d2

MCDevices == {d1, d2}
MCBoth == BOOLEAN
MCOff == {FALSE}
=============================================================================
