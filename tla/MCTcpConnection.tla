--------------------------- MODULE MCTcpConnection ---------------------------
(* Bounds for model checking TcpConnection. *)
EXTENDS TcpConnection
=============================================================================
