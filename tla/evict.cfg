SPECIFICATION Spec
CONSTANTS
  Protocols = {"MSI", "MESI"}
  NumContexts = 2
  Addr = {0, 1}
  Ways = 1
  Active = {0, 1}
  NodeLatencies = {1}
  CacheLatencies = {0}
  Home <- MCHome
  SetIndex <- MCSetIndex
  InitialLines <- UsedBefore
  Tasks <- MCTasks
CHECK_DEADLOCK FALSE
INVARIANTS AckCountExact OneOutstanding OneTransaction
