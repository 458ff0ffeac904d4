---------------------------- MODULE MCKcpServer ----------------------------
(* KcpServer with two clients, whose UDP addresses may be the same.          *)
EXTENDS KcpServer
=============================================================================
