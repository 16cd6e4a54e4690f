CONSTANTS
  NObjects = 2
  MaxTrims = 2
  Begin <- Several
SPECIFICATION FairSpec
INVARIANTS SnapReads OverlapsTrue ScrubFindsNothing NoAssertFails
PROPERTY SnapsAreTrimmed
CHECK_DEADLOCK FALSE
