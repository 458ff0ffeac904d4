---------------------------- MODULE MCEventLoop ----------------------------
(* EventLoop on small instances; liveness is checked, so nothing is symmetric. *)
EXTENDS EventLoop
=============================================================================
