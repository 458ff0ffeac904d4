--------------------------- MODULE MCAsyncLogging ---------------------------
(* Bounds for model checking AsyncLogging. *)
EXTENDS AsyncLogging
=============================================================================
