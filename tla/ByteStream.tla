----------------------------- MODULE ByteStream ------------------------------
(***************************************************************************)
(* What a connection promises for the data sent over it, whether by TCP,   *)
(* by KCP or in framed messages: messages go into the stream whole, each   *)
(* at most once, the other side gets the stream from its beginning, and    *)
(* an end comes after everything accepted.                                 *)
(***************************************************************************)
EXTENDS Naturals, Sequences, SequencesExt

\* The messages, each a sequence of bytes.  A byte stands for its place in its
\* message: no two messages have one in common.
CONSTANT Messages

VARIABLES
  stream,   \* all bytes accepted
  got,      \* those of them that the other side has got
  over      \* "open", "ended" (half closed) or "abandoned" (closed)

vars == <<stream, got, over>>

Init ==
  /\ stream = <<>>
  /\ got = <<>>
  /\ over = "open"

\* A message that has not been accepted before.
Accept(m) ==
  /\ over # "ended"
  /\ \A i \in DOMAIN stream, k \in DOMAIN m : stream[i] # m[k]
  /\ stream' = stream \o m

Next ==
  /\ stream' = stream \/ \E m \in Messages : Accept(m)
  /\ IsPrefix(got, got') /\ IsPrefix(got', stream')
  /\ \/ over' = over
     \/ over = "open" /\ over' = "ended" /\ got' = stream'
     \/ over' = "abandoned"

Spec == Init /\ [][Next]_vars
=============================================================================
