\* k=4 m=4 d=5 (q=2, t=4): both nodes of a column can be aloof.
CONSTANTS
  K = 4
  M = 4
  D = 5
  MyMode = "clay"
  Order <- Identity
  Junk = Junk
SPECIFICATION Spec
INVARIANT LostChunkRight

