SPECIFICATION Spec
CONSTANTS
  Protocols = {"MSI", "MESI"}
  NumContexts = 2
  Addr = {0, 1, 2, 3}
  Ways = 1
  NodeLatencies = {1}
  CacheLatencies = {0}
  Home <- MCHome
  SetIndex <- MCSetIndex
  InitialLines <- Zeroed
  Tasks <- PrivateTasks
  Active = {0, 1}
INVARIANTS StatusMatchesCache WriteBackFromOwner
