CONSTANTS
  Size = 5
  Messages <- RetryLines
  Bytes <- LineBytes
  BufferSize = 5
  HighWater = 3
  LowWater = 1
  None = None
SPECIFICATION Spec
INVARIANT RemainingLinesWritten
CHECK_DEADLOCK FALSE
