CONSTANTS
  Input <- MCInput
  Ends <- MCEnds
  PullSize = 2
  MaxErrors = 2
  InitialAlloc = 4
  GrowFactor = 1
  GrowSlack = 0
  DownshiftLimit = 4
  Garbage = garbage
  FlushSize = 3
  InputFlushSize = 2
  BufferMaxSize = 4
  MaxChunk = 1
  Deflating = TRUE
  ClientInput <- MCClientInput
  PushSizes = {1, 2, 3}
  AdaptorFlushSize = 0
  OutputFlushSize = 2
  OutputInputFlushSize = 3
  OutputBufferMaxSize = 4
SPECIFICATION MCOutputSpec
INVARIANT OutputIsFaithful
CHECK_DEADLOCK FALSE
