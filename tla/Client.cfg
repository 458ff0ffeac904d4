SPECIFICATION FairSpec
CONSTANTS
  InitDelay = 1
  MaxDelay = 2
  Kinds = {"tcp", "kcp"}
  Ids = {1, 2}
  None = None
  MaxStarts = 2
  MaxCalls = 2
INVARIANTS Sound OneAttempt
PROPERTIES  EndTogether Connects
CHECK_DEADLOCK FALSE
