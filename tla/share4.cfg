SPECIFICATION FairSpec
CONSTANTS
  Protocols = {"MSI", "MESI"}
  NumContexts = 4
  Addr = {0}
  Ways = 4
  Active = {0, 1, 2}
  NodeLatencies = {0, 2}
  CacheLatencies = {1}
  Home <- MCHome
  SetIndex <- MCSetIndex
  InitialLines <- Zeroed
  Tasks <- MCTasks
INVARIANTS SingleWriter DirectoryCovers
