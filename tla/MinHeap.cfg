\* Eight elements, up to seven in the heap, so that erase() must go up as well as
\* down; the array grows twice.
SPECIFICATION HeapSpec
CONSTANTS
  Elems <- MCElems
  Key <- MCKey
  NoElem = NoElem
  MaxSize = 7
  InitialCapacity = 2
INVARIANTS WellFormed
PROPERTY ImplementsPriorityQueue
