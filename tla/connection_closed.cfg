CONSTANTS
  sender = sender
  other = other
  Loop = loop
  None = None
  Senders = {sender, other}
  Messages <- MCMessages
  Bytes <- MCBytes
  Capacity = 3
  Room = 2
SPECIFICATION Spec
INVARIANT ModifiesPolledEvents
CHECK_DEADLOCK FALSE
