CONSTANTS
  Block = 4
  NameMax = 4
  Items <- MCMixedUp
  MaxItems = 2
  MaxErrors = 0
  Spellings = {"", "r", "./r"}
  DirOf <- MCDirOf
  Paths <- MCPaths
  Packages <- MCPackages
  Configs <- MCConfigs
  MaxRuns = 2
  MaxFaults = 1
  Trees <- MCTrees
  Arguments <- MCArguments
  Script <- MCScript
  Edited <- MCEdited
  BufferLimit = 10
  ChunkLimit = 2
  DirSize = 2
  MaxPackEdits = 1
  MaxPackFaults = 1
SPECIFICATION MCTarSpec
INVARIANT ItemsAreFaithful
CHECK_DEADLOCK FALSE
