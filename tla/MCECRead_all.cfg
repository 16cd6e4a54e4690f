SPECIFICATION FairSpec
CONSTANTS
  K = 2
  M = 1
  SubChunks = TRUE
  PgShard <- Acting3
  Acting <- Acting3
  NObjects = 2
  CheckForErrors = FALSE
  Persistent = TRUE
  MaxReads = 2
  MaxErrors = 2
  MaxLost = 1
  MaxInterval = 1
CHECK_DEADLOCK FALSE
INVARIANTS NoAssertFails AnsweredInOrder AnswersRight
PROPERTY EveryReadAnswered
