CONSTANTS
  Data <- MCData
  PushSizes = {0, 1, 2, 4}
  FlushSize = 3
  InputFlushSize = 3
  BufferMaxSize = 4
SPECIFICATION FairSpec
INVARIANTS Bookkeeping
PROPERTIES FlushWritesAll ImplementsWriter EverythingWritten
CHECK_DEADLOCK FALSE
