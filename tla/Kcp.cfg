\* One end sends, the other one acknowledges.
SPECIFICATION KcpFairSpec
CONSTANTS
  Modes <- MCModes
  Lens = {1,4}
  Senders = {1}
  Mss = 3
  Overhead = 1
  RecvRoom = 3
  InputRoom = 2
  RcvWnd = 2
  MaxFrg = 2
  Threshold = 6
  FastLimit = 1
  MaxSends = 3
  MaxFaults = 3
  NetCap <- MCNetCap
  AckCap = 1
INVARIANTS KcpTypeOK WindowsHold
PROPERTIES ImplementsByteStream AllAcknowledged
CHECK_DEADLOCK FALSE
