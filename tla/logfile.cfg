CONSTANTS
  Logs = {l1, l2}
  Length <- MCLength
  StreamSize = 2
  MaxSize = 3
  GivenName = GivenName
  MaxSecond = 2
  MaxRuns = 2
  None = None
SPECIFICATION Spec
INVARIANTS TypeOK LinesAreKept
CHECK_DEADLOCK FALSE
