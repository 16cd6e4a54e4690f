\* The profile of MCMyClayPlugin_k6m2.cfg: encode permutes the data chunks.
CONSTANTS
  K = 6
  M = 2
  D = 7
  MyMode = "myclay"
  Order <- Gray4
  Junk = Junk
SPECIFICATION Spec
INVARIANT DataVerbatim
