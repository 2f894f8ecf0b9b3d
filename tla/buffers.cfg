SPECIFICATION FairSpec
CONSTANTS
  Thread = {m, a, b}
  Main = m
  MaxBuffers = 5
  MaxFlushes = 1
  SmallCopies = {FALSE, TRUE}
  MayIdle = FALSE
  Detached = {b}
CHECK_DEADLOCK FALSE
INVARIANTS BuffersAccounted SleepersAtLimit NoFault TraceComplete
PROPERTIES ImplementsTraceFile Terminates
