\* One other thread; messages of two bytes over a kernel buffer of two.
SPECIFICATION FairSpec
CONSTANTS
  LoopThread = loop
  Users = {u}
  MessageSize = 2
  Capacity = 2
  HighWaterMark = 3
  MaxSends = 2
  MaxArrived = 1
INVARIANTS TypeOK SendingAgrees
PROPERTIES ImplementsByteStream DataServed
CHECK_DEADLOCK FALSE
