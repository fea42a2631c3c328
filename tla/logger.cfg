CONSTANTS
  Size = 4
  Messages <- Lines
  Bytes <- LineBytes
  BufferSize = 5
  HighWater = 3
  LowWater = 1
  None = None
SPECIFICATION FairSpec
INVARIANTS TypeOK NoDataRace LinesInOrder DrainTakesAll HeldAtMostThreeSeconds
PROPERTIES RingIsQueue ShortAppendFillsRing EventuallyWritten AppendEnds StopReturns
CHECK_DEADLOCK FALSE
