CONSTANTS
  main = main
  worker = worker
  other = other
  client = client
  a = a
  b = b
  c = c
  d = d
  None = None
  Loops = {worker}
  Clients = {client, other}
  Tasks = {a, b, c}
  Target <- OwnTarget
  Follow <- OwnFollow
  Creator <- PoolCreator
SPECIFICATION FairSpec
INVARIANTS TypeOK NoLostWakeup
PROPERTIES PendingStable ImplementsExecutor HandedOverIsRun QuitLeavesLoop JoinReturns
