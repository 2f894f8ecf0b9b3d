SPECIFICATION Spec
CONSTANTS
  Protocols = {"MSI"}
  NumContexts = 2
  Addr = {0, 1}
  Ways = 1
  Active = {0, 1}
  NodeLatencies = {1}
  CacheLatencies = {0}
  Home <- MCHome
  SetIndex <- MCSetIndex
  InitialLines <- Zeroed
  Tasks <- MCTasks
CHECK_DEADLOCK FALSE
INVARIANT CacheFindsLine
