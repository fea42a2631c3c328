CONSTANTS
  sender = sender
  other = other
  Loop = loop
  None = None
  Senders = {sender, other}
  Messages <- MCMessages
  Bytes <- MCBytes
  Capacity = 3
  Room = 2
SPECIFICATION FairSpec
INVARIANTS TypeOK OutputArmed ClosedIsLeftAlone HealthyIsKept
PROPERTIES OutputIsQueue CutOnlyBehindOutput EventuallySent
CHECK_DEADLOCK FALSE
