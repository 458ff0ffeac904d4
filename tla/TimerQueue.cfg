\* Two addresses, calls from the loop's thread and another, two queued functors.
SPECIFICATION FairSpec
CONSTANTS
  Addrs = {a1, a2}
  Free = Free
  None = None
  Users = {u1}
  Interval = 1
  MaxSeq = 3
  MaxTime = 1
  MaxPending = 2
INVARIANTS TimersAccounted CancelExact
PROPERTY RunsAsAsked
CHECK_DEADLOCK FALSE
