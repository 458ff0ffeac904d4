------------------------------- MODULE MCCodec -------------------------------
(* Bounds for model checking Codec: no message, one, and one too long. *)
EXTENDS Codec

MCMessages == {<<>>, <<2, 0, 1>>, <<2, 2, 2, 2, 2>>}
=============================================================================
