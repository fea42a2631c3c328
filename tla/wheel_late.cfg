CONSTANTS
  idle = idle
  retry = retry
  again = again
  fast = fast
  long = long
  None = None
  Timers = {idle, retry, long}
  TimeoutMs <- MCTimeoutMs
  Repeat = {idle}
  RoundSize = 3
  Interval = 1000
  MaxElapsed = 4
SPECIFICATION Spec
INVARIANT CalledEveryTimeout
