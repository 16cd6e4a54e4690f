SPECIFICATION Spec
CONSTANTS
  K = 2
  M = 2
  SubChunks = TRUE
  PgShard <- MCPgShard
  Acting <- MCActing
  Primary <- MCPrimary
  NObjects = 2
  CheckForErrors = FALSE
  Pieces <- TwoPieces
  InitMissing <- Missings
  InitSources <- StrayOfBoth
  MaxBatch = 2
  MaxTid = 3
  MaxErrors = 2
  MaxDown = 0
  MaxInterval = 1
CHECK_DEADLOCK FALSE
INVARIANTS NoAssertFails
