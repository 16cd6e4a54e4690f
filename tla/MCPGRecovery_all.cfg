SPECIFICATION FairSpec
CONSTANTS
  NObjects = 3
  ScanMax = 1
  Primary <- MCPrimary
  Peer = {1, 2}
  Needed = 2
  HeadOf <- MCHeadOf
  InitVer <- MCInitVer
  Begin <- All
  LogTail = 2
  Op = {1, 2}
  MaxStart = 2
  MaxInterval = 1
  MaxTrim = 1
  MaxLost = 0
CHECK_DEADLOCK FALSE
INVARIANTS NoAssertFails BackfilledIsWhole
PROPERTIES BecomesClean PutOffIsDone
