CONSTANTS
  MaxRequests = 3
  MaxRetries = 3
  None = None
SPECIFICATION FairSpec
INVARIANTS TypeOK OneAnswerPerRequest DescriptorsAreOwned
PROPERTIES EveryRequestIsAnswered
CHECK_DEADLOCK FALSE
