CONSTANTS
  Texts <- MCParenTexts
  Unreadable = unreadable
  Documents <- MCDocuments
  Files <- MCTrees
  NoName = NoName
  JsonTexts <- MCJsonTexts
  JsonKeys <- MCKeys
  JsonValues <- MCJsonValues
  GlbFiles <- MCGlbFiles
  GltfDocuments <- MCGltfDocuments
  IndexLimit = 100
  StreamReadSize = 4
  StreamMaxSize = 36
  Programs <- MCPrograms
  Codes <- MCCodes
  Chars <- MCChars
  FloatBits <- MCFloatBits
  RegisterSize = 2
  ByteValues = 6
  MemorySizes = {2, 12}
  LineTexts <- MCLineTexts
  Unset = "unset"
  InitialSize = 2
  LineGrowth = 1
  MaxLineErrors = 1
  Armors <- MCArmors
  FileContents <- MCFileContents
  StdinContents <- MCStdin
  FileLists <- MCFileLists
  HashLists <- MCHashLists
  FillLimit = 3
  MaxDigestFaults = 1
  Base = 128
  Modulus = 65536
  Threads = {t1, t2}
  Strings = {"", "a", "b", "x"}
  Real <- MCReal
  Hash <- MCHash
  FirstSize = 2
  MaxCalls = 2
  FsThreads = {h1, h2, h3}
  Digests <- MCDigests
  Offsets = {0, 1}
  TableSize = 2
  UserBlocks = 3
  SectorSize = 2
  MaxAccesses = 1
  MaxIoErrors = 2
  NetDescriptors = {0, 1, 2}
  MaxNetFaults = 2
  CallerTables = {{}, {0, 1, 2}, {0, 1, 2, 3}, {0, 1}, {0, 2}, {1, 2}, {0}}
  MaxDescriptor = 9
  Uninitialised <- MCUninitialised
  LibcCalls <- MCLibcCalls
  WordSize = 2
SPECIFICATION MCSpec
INVARIANTS TreeIsText ProgramIsMeaning DocumentIsRead LinesAreText DigestsAreOfGiven AddressIsString BytesAreMoved HeldIsAsked DescriptorsAreKept
PROPERTY EveryCallReturns
CHECK_DEADLOCK FALSE
