SPECIFICATION FairSpec
CONSTANTS
  Protocols = {"MSI", "MESI"}
  NumContexts = 2
  Addr = {0, 1}
  Ways = 4
  Active = {0, 1}
  NodeLatencies = {1}
  CacheLatencies = {0}
  Home <- MCHome
  SetIndex <- MCSetIndex
  InitialLines <- Zeroed
  Tasks <- MCTasks
INVARIANTS TypeOK OwnerAnswers NeverStops
PROPERTIES ImplementsMemory MemOpCompletes
