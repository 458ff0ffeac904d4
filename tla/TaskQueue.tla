------------------------------ MODULE TaskQueue ------------------------------
(****************************************************************************)
(* What EventLoop::queueInLoop promises its callers: the functors handed to  *)
(* one loop are executed one at a time, each at most once, in the order in   *)
(* which they were queued.  EventLoop.tla is shown to implement this module. *)
(****************************************************************************)
EXTENDS Sequences, SequencesExt

CONSTANT Tasks      \* the functors; queueing a functor twice is two tasks

VARIABLES
  queue,            \* tasks queued and not yet executed, oldest first
  executed          \* tasks executed, in the order of their execution

vars == <<queue, executed>>

Known(t) == t \in ToSet(queue) \cup ToSet(executed)

Init == queue = <<>> /\ executed = <<>>

Submit(t) ==
  /\ ~Known(t)
  /\ queue' = Append(queue, t)
  /\ UNCHANGED executed

Execute ==
  /\ queue # <<>>
  /\ executed' = Append(executed, Head(queue))
  /\ queue' = Tail(queue)

Next == Execute \/ \E t \in Tasks : Submit(t)

Spec == Init /\ [][Next]_vars
=============================================================================
