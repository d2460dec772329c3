CONSTANTS
  Source <- MCSource
  Ends = {3, 5}
  Garbage = garbage
  Targets = {0, 1, 3}
  Releases = {0, 1, 2, 4}
  InitialAlloc = 2
  GrowFactor = 1
  GrowSlack = 0
  DownshiftLimit = 4
  MaxConsumed = 7
  MaxErrors = 1
SPECIFICATION FairSpec
INVARIANTS TypeOK InPlace
PROPERTIES ImplementsReader Progress
