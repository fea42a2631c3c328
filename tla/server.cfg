CONSTANTS
  MaxConns = 2
  MaxFd = 2
  NumWorkers = 2
  SlotSize = 2
  None = None
  Tick = Tick
  Listen = Listen
SPECIFICATION FairSpec
INVARIANTS TypeOK RegisteredIsSound ExpiresInTime
PROPERTIES SilentIsClosed
CHECK_DEADLOCK FALSE
