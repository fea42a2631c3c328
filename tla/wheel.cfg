CONSTANTS
  idle = idle
  retry = retry
  again = again
  fast = fast
  long = long
  None = None
  Timers = {retry, again, fast, long}
  TimeoutMs <- MCTimeoutMs
  Repeat = {fast, long}
  RoundSize = 2
  Interval = 1000
  MaxElapsed = 3
SPECIFICATION FairSpec
INVARIANTS TypeOK OnePlace AtMostOneRevolutionLate
PROPERTIES BarelyEarly TickEnds KeepsRepeating
