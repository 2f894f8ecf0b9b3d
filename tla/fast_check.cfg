SPECIFICATION FairSpec
CONSTANTS
  Context = {0, 1, 2}
  Address = {100, 101, 200}
  Programs <- LocksOnly
  MaxBlocks = 1
  SignalThreshold = 4
INVARIANTS
  AllDelivered
