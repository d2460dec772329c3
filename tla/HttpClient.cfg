CONSTANTS
  Responses <- MCResponses
  Bodies <- MCBodies
  Frames <- MCFrames
  Closes = TRUE
  Ends <- MCAnywhere
  PullSize = 1
  MaxErrors = 1
  InitialAlloc = 12
  GrowFactor = 1
  GrowSlack = 0
  DownshiftLimit = 100
  Garbage = garbage
SPECIFICATION FairSpec
INVARIANTS StaysInStep BodyIsFaithful
PROPERTY GetsEnd
CHECK_DEADLOCK FALSE
