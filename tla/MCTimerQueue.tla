---------------------------- MODULE MCTimerQueue ----------------------------
(* TimerQueue with two addresses, so that they are reused. *)
EXTENDS TimerQueue
=============================================================================
