\* Three channels over two descriptors, which are used again while their last
\* channel still exists.
SPECIFICATION PollerSpec
CONSTANTS
  Channels = {c1, c2, c3}
  Fds = {f1, f2}
  NoChannel = NoChannel
  NoFd = NoFd
INVARIANT ChannelsAgree BatchRegistered
CHECK_DEADLOCK FALSE
