CONSTANTS
  NObjects = 1
  Begin <- Several
SPECIFICATION FairSpec
INVARIANTS InOrder AnswersAreDurable ReadsCurrent NoAssertFails
PROPERTY EveryOpAnswered
CHECK_DEADLOCK FALSE
