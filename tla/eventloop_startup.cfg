CONSTANTS
  main = main
  worker = worker
  other = other
  client = client
  a = a
  b = b
  c = c
  d = d
  None = None
  Loops = {main, worker}
  Clients = {client}
  Tasks = {b}
  Target <- ServerTarget
  Follow <- ServerFollow
  Creator <- ServerCreator
SPECIFICATION Spec
PROPERTY RunInLoopThread
