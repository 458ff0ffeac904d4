\* Two connections, served by the base loop or by one I/O loop, and another thread.
SPECIFICATION FairSpec
CONSTANTS
  MaxThreads = 1
  Users = {u}
  MaxConns = 2
  MaxQueue = 1
INVARIANTS Sound TableAgrees
PROPERTIES LifeInOrder ConnectionsSettle
CHECK_DEADLOCK FALSE
