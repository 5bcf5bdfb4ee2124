\* Two writers with two lines each, buffers of 3 bytes (a line of 1 or 2
\* bytes), enough buffers for every one to be archived; a log file rolls
\* past 2 bytes, checks the day every 2 appends, and a day is 2 seconds.
CONSTANTS
  w1 = w1
  w2 = w2
  Writers <- MCWriters
  Lines = 2
  Cap = 3
  MaxBuffers = 7
  DropLen = 1
  MaxTime = 2
  RollSize = 2
  CheckEveryN = 2
  FlushInterval = 1
  RollPeriod = 2
SPECIFICATION Spec
INVARIANT TypeOK NoLineLostOrDuplicated WrittenInAppendOrder
PROPERTY AppendedLineFlushed
CHECK_DEADLOCK FALSE
