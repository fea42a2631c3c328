CONSTANTS
  main = main
  worker = worker
  other = other
  client = client
  a = a
  b = b
  c = c
  d = d
  None = None
  Loops = {worker, other}
  Clients = {client}
  Tasks = {a, b, c, d}
  Target <- CrossTarget
  Follow <- CrossFollow
  Creator <- PoolCreator
SPECIFICATION Spec
INVARIANT NoLockCycle
