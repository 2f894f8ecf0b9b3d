SPECIFICATION FairSpec
CONSTANTS
  Thread = {m, a}
  Main = m
  MaxBuffers = 4
  MaxFlushes = 1
  SmallCopies = {FALSE}
  MayIdle = TRUE
  Detached = {}
CHECK_DEADLOCK FALSE
PROPERTY WaitsAgain
