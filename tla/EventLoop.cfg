\* Two functors, two other threads, a socket pair (one wakeup read at a time).
SPECIFICATION FairSpec
CONSTANTS
  Tasks = {t1, t2}
  Users = {u1, u2}
  MaxTimers = 1
  WakeupCapacity = 2
  ReadDrainsAll = FALSE
INVARIANT NothingForgotten
PROPERTIES ImplementsTaskQueue RequestsServed
CHECK_DEADLOCK FALSE
