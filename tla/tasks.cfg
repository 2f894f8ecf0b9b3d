SPECIFICATION FairSpec
CONSTANTS
  NumContexts = 4
  Task <- MCTask
  Root = 1
  Succ <- MCSucc
  ContextId <- MCContextId
  NoMemOps = {4}
  UnfinishedTaskCap = 200
  NoTask = NoTask
CHECK_DEADLOCK FALSE
INVARIANTS DispatchedOnceReady CompletionsReleased
PROPERTY Terminates
