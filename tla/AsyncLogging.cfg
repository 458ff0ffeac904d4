\* Buffers of two lines, of which the thread accepts two at a time; a day has two
\* seconds, a file room for two lines and one more append.
SPECIFICATION FairSpec
CONSTANTS
  BufLines = 2
  DropOver = 2
  MaxLines = 6
  RollSize = 2
  Day = 2
  FlushInterval = 1
  StdioSize = 2
  MaxTime = 4
INVARIANTS BuffersSuffice LinesInOrder
PROPERTIES FilesRoll LinesWritten
CHECK_DEADLOCK FALSE
