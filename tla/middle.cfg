SPECIFICATION FairSpec
CONSTANTS
  Context = {0, 1, 2}
  Address = {100, 101, 200}
  Programs <- AllPrograms
  MaxBlocks = 1
  SignalThreshold = 4
INVARIANTS
  TicketsAlternate QueuedTasksFinal AssertsHold GraphComplete BarrierMeets IteratorValid
PROPERTIES
  ImplementsTraceOrder Terminates
