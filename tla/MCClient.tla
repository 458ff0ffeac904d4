------------------------------ MODULE MCClient -------------------------------
(* Bounds for model checking Client. *)
EXTENDS Client
=============================================================================
