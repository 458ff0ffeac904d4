----------------------------- MODULE MCTcpServer -----------------------------
(* Bounds for model checking TcpServer. *)
EXTENDS TcpServer
=============================================================================
