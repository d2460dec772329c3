CONSTANTS
  Bytes = {0, 1}
  Windows <- MCWindows
  Slots = {0, 1}
  SlotOf <- MCSlotOf
  IndexSize = 2
  FirstPlace = 1
  MinMatch = 1
  Prior <- MCPrior
  MaxChunks = 2
  Base = 2
  Modulus = 128
  CompactMax = 2
SPECIFICATION Spec
INVARIANTS WindowsComeBack ChunksAreIndependent CommandsAreWhole
CHECK_DEADLOCK FALSE
