--------------------------- MODULE MCSelectPoller ---------------------------
(* SelectPoller with a few channels and descriptors.                           *)
EXTENDS SelectPoller
=============================================================================
