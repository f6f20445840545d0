SPECIFICATION FairSpec
CONSTANTS
  BufferLines = 2
  MaxBatch = 3
  MaxLines = 10
INVARIANTS SparesReady LinesInOrder
PROPERTIES EventuallyWritten StopEnds
CHECK_DEADLOCK FALSE
