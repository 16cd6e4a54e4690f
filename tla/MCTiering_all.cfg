CONSTANTS
  NObjects = 3
  Begin <- Scenarios
SPECIFICATION FairSpec
INVARIANTS NoUpdateLost CleanIsFlushed InOrder CountsRight
PROPERTY EveryOpAnswered
CHECK_DEADLOCK FALSE
