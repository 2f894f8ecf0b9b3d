SPECIFICATION Spec
CONSTANTS
  Programs <- MCPrograms
  Threads = {1, 2}
  OpBytes = 6
  IdBytes = 3
  Margin = 200
  ElideLimit = 30
  BufferSize = 260
  SmallBuffer = 100
  MaxTurns = 2
  IdLow = 2
  IdHigh = 65536
INVARIANTS PathsKept BufferHolds DecodedAsStored
