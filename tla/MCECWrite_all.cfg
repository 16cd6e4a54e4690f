SPECIFICATION FairSpec
CONSTANTS
  p = p
  a = a
  c1 = c1
  c2 = c2
  Shards = {p, a}
  Primary = p
  MinSize = 1
  Cells <- MCCells
  Plans <- MixedPlans
  MaxTid = 3
  MaxInterval = 1
CHECK_DEADLOCK FALSE
INVARIANTS RollForwardSafe AckedOnEveryShard RepliesExpected ReadsLatest PipelineDrains
PROPERTIES WritesAreLogged EveryOpFinishes RollsForward
