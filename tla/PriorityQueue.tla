---------------------------- MODULE PriorityQueue ----------------------------
(* What MinHeap promises: a set of elements of which pop() removes one with   *)
(* the least key, and erase() any given one.  MinHeap.tla implements it.      *)
EXTENDS Integers

CONSTANTS Elems, Key, NoElem

VARIABLES
  members,  \* the elements in the queue
  popped    \* what the call that ended last has returned, if it was a pop()

vars == <<members, popped>>

Init == members = {} /\ popped = NoElem

Push(e) ==
  /\ e \notin members
  /\ members' = members \cup {e}
  /\ popped' = NoElem

Pop ==
  \E e \in members :
    /\ \A f \in members : Key[e] <= Key[f]
    /\ members' = members \ {e}
    /\ popped' = e

Erase(e) ==
  /\ e \in members
  /\ members' = members \ {e}
  /\ popped' = NoElem

Next == Pop \/ \E e \in Elems : Push(e) \/ Erase(e)

Spec == Init /\ [][Next]_vars
=============================================================================
