-------------------------- MODULE MCEventLoopThread --------------------------
(* EventLoopThread with a few threads; they are started in order, so they are *)
(* not symmetric.                                                             *)
EXTENDS EventLoopThread
=============================================================================
