SPECIFICATION Spec
CONSTANTS
  Byte = {1, 2}
  IntBits = 32
  MaxOps = 4
  Shapes <- MCShapes
  Files <- MCFiles
  Op <- MCOp
  NumSets = 2
  Ways = 2
  BlockSize = 64
  IntMax = 2147483647
  Address <- MCAddress
  Sizes = {8}
  Line = {0, 1, 2, 3, 4, 5}
  MaxCounter = 5
  CompUnit <- MCCompUnit
  MemUnit <- MCMemUnit
  GivenThroughput <- MCThroughput
  BaseThroughput <- MCBase
  ParallelIssue <- MCParallelIssue
  AccessGranularity = 8
  MemoryWordSize = 8
  Latency <- MCLatency
  SplitTreeRange = 16
  ReservationStationSize = 3
  ReorderBufferSize = 4
  LoadBufferSize = 2
  StoreBufferSize = 1
  LineFillBufferSize = 1
  InstructionFetchBandwidth = 2
  L1CacheSize = 1
  L2CacheSize = 0
  LLCCacheSize = 2
  Instruction <- MCInstruction
  Blocks <- MCBlocks
  Addresses = {0, 1, 2, 4}
  CacheLineSize = 2
  Dice = {FALSE}
  MaxInstructions = 7
INVARIANTS HbExact RacesExact CommunicationsExact ReuseExact ReportHolds
PROPERTIES WaysImplementLru SimpleImplementsLru ImplementsIssueSlots
