------------------------------- MODULE MinHeap -------------------------------
(****************************************************************************)
(* sznet::MinHeap, the binary heap of the timers: an array of pointers, each  *)
(* element knowing its own index.  One step is one iteration of the loop of   *)
(* shiftUp_ or shiftDown_, so the states in between are states here too.      *)
(* Indices count from 0 as in the code.  What lies in the array beyond m_size *)
(* is never read and is NoElem here.                                          *)
(****************************************************************************)
EXTENDS Integers

CONSTANTS
  Elems,    \* the elements
  Key,      \* what the comparison function compares
  NoElem,   \* nullptr
  MaxSize,  \* bound: elements in the heap
  InitialCapacity   \* the 8 of reserve()

ASSUME HeapAssumption ==
  /\ Key \in [Elems -> Int]
  /\ NoElem \notin Elems
  /\ MaxSize \in Nat \ {0}
  /\ InitialCapacity \in Nat \ {0}

VARIABLES
  arr,       \* m_ptrArr
  size,      \* m_size
  capacity,  \* m_capacity
  idx,       \* min_heap_idx of each element, -1: in no heap
  pc,        \* "idle", or in the loop of shiftUp_ ("up") or shiftDown_ ("down")
  hole,      \* hole_index
  elem,      \* the element looking for a place
  victim,    \* the element that leaves the heap when the loop ends
  popping,   \* the call is pop()
  popped     \* what the call that ended last has returned, if it was a pop()

heapVars == <<arr, size, capacity, idx, pc, hole, elem, victim, popping, popped>>

Indices == 0..(MaxSize - 1)

HeapTypeOK ==
  /\ arr \in [Indices -> Elems \cup {NoElem}]
  /\ size \in 0..MaxSize
  /\ capacity \in 0..(InitialCapacity + 2 * MaxSize)
  /\ idx \in [Elems -> Indices \cup {-1}]
  /\ pc \in {"idle", "up", "down"}
  /\ hole \in Indices
  /\ elem \in Elems \cup {NoElem}
  /\ victim \in Elems \cup {NoElem}
  /\ popping \in BOOLEAN
  /\ popped \in Elems \cup {NoElem}

HeapInit ==
  /\ arr = [i \in Indices |-> NoElem]
  /\ size = 0
  /\ capacity = 0
  /\ idx = [e \in Elems |-> -1]
  /\ pc = "idle"
  /\ hole = 0
  /\ elem = NoElem
  /\ victim = NoElem
  /\ popping = FALSE
  /\ popped = NoElem

\* mutant: rounded the wrong way.
ParentRounded(i) == i \div 2

Parent(i) == IF i = 0 THEN 0 ELSE (i - 1) \div 2
RightChild(i) == (i + 1) * 2

Larger(a, b) == IF a < b THEN b ELSE a

\* reserve(n)
Reserved(n) ==
  IF capacity >= n THEN capacity
  ELSE Larger(n, IF capacity = 0 THEN InitialCapacity ELSE capacity * 2)

\* m_ptrArr[--m_size]
TakeLast ==
  /\ size' = size - 1
  /\ elem' = arr[size - 1]
  /\ arr' = [arr EXCEPT ![size - 1] = NoElem]

Push(e) ==
  /\ pc = "idle"
  /\ idx[e] = -1
  /\ size < MaxSize
  /\ capacity' = Reserved(size + 1)
  /\ size' = size + 1
  /\ hole' = size
  /\ elem' = e
  /\ victim' = NoElem
  /\ popping' = FALSE
  /\ pc' = "up"
  /\ UNCHANGED <<arr, idx, popped>>

\* mutant: the last element always looks downwards.
EraseAlwaysDown(e) ==
  /\ pc = "idle"
  /\ idx[e] # -1
  /\ TakeLast
  /\ hole' = idx[e]
  /\ victim' = e
  /\ popping' = FALSE
  /\ pc' = "down"
  /\ UNCHANGED <<capacity, idx, popped>>

\* The last element takes the place of e, going up or down from there.
Erase(e) ==
  /\ pc = "idle"
  /\ idx[e] # -1
  /\ TakeLast
  /\ hole' = idx[e]
  /\ victim' = e
  /\ popping' = FALSE
  /\ pc' = IF idx[e] > 0 /\ Key[arr[Parent(idx[e])]] > Key[arr[size - 1]]
           THEN "up" ELSE "down"
  /\ UNCHANGED <<capacity, idx, popped>>

Pop ==
  /\ pc = "idle"
  /\ size > 0
  /\ TakeLast
  /\ hole' = 0
  /\ victim' = arr[0]
  /\ popping' = TRUE
  /\ pc' = "down"
  /\ UNCHANGED <<capacity, idx, popped>>

\* The element at i moves into the hole, and the hole to i.
MoveFrom(i) ==
  /\ arr' = [arr EXCEPT ![hole] = arr[i]]
  /\ idx' = [idx EXCEPT ![arr[i]] = hole]
  /\ hole' = i
  /\ UNCHANGED <<size, capacity, pc, elem, victim, popping, popped>>

\* The element has found its place; the call sets the victim's index and ends.
Place ==
  /\ arr' = [arr EXCEPT ![hole] = IF elem = victim THEN NoElem ELSE elem]
  /\ idx' = [e \in Elems |-> IF e = victim THEN -1 ELSE IF e = elem THEN hole ELSE idx[e]]
  /\ popped' = IF popping THEN victim ELSE NoElem
  /\ pc' = "idle"
  /\ hole' = 0
  /\ elem' = NoElem
  /\ victim' = NoElem
  /\ popping' = FALSE
  /\ UNCHANGED <<size, capacity>>

GoesUp == hole > 0 /\ Key[arr[Parent(hole)]] > Key[elem]

ShiftUp ==
  /\ pc = "up"
  /\ IF GoesUp THEN MoveFrom(Parent(hole)) ELSE Place

\* mutant: the left child is taken even if the right one is smaller.
MinChildLeft == RightChild(hole) - 1

\* The child with the smaller key; the right one does not exist at m_size.
MinChild ==
  LET right == RightChild(hole)
  IN IF right = size \/ Key[arr[right]] > Key[arr[right - 1]] THEN right - 1 ELSE right

GoesDown == RightChild(hole) <= size /\ Key[elem] >= Key[arr[MinChild]]

ShiftDown ==
  /\ pc = "down"
  /\ IF GoesDown THEN MoveFrom(MinChild) ELSE Place

HeapNext ==
  \/ ShiftUp \/ ShiftDown \/ Pop
  \/ \E e \in Elems : Push(e) \/ Erase(e)

HeapSpec == HeapInit /\ [][HeapNext]_heapVars

------------------------------------------------------------------------------
(* Properties.                                                                *)

\* Between two calls no element is smaller than its parent (what checkHeap()
\* asserts), so top() is a least one.
HeapOrdered ==
  pc = "idle" => \A i \in 1..(size - 1) : Key[arr[Parent(i)]] <= Key[arr[i]]

\* Between two calls each element's own index is where it is in the array, which
\* erase() relies on.
IndexAgrees ==
  pc = "idle" =>
    /\ \A i \in 0..(size - 1) : arr[i] # NoElem /\ idx[arr[i]] = i
    /\ \A e \in Elems : idx[e] # -1 => idx[e] < size /\ arr[idx[e]] = e

\* The array is never written or read beyond what reserve() has allocated.
WithinCapacity == size <= capacity /\ (pc # "idle" => hole < capacity)

\* What every call may rely on: order, indices and room.
WellFormed == HeapOrdered /\ IndexAgrees /\ WithinCapacity

\* The heap implements the priority queue: nothing is lost or added by the
\* rearrangements, and pop() returns a least element.
PQ == INSTANCE PriorityQueue WITH members <- {e \in Elems : idx[e] # -1}
ImplementsPriorityQueue == PQ!Spec
=============================================================================
