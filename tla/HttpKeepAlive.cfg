CONSTANTS
  Responses <- MCIdentity
  Bodies <- MCOneBody
  Frames <- MCItsFrame
  Closes = FALSE
  Ends <- MCAtItsEnd
  PullSize = 100
  MaxErrors = 0
  InitialAlloc = 20
  GrowFactor = 1
  GrowSlack = 0
  DownshiftLimit = 100
  Garbage = garbage
SPECIFICATION FairSpec
PROPERTY GetsEnd
CHECK_DEADLOCK FALSE
