----------------------------- MODULE MCMinHeap -----------------------------
(* MinHeap with eight elements; two of them have equal keys. *)
EXTENDS MinHeap

MCElems == 1..8
MCKey == [e \in MCElems |-> IF e = 8 THEN 5 ELSE e]
=============================================================================
