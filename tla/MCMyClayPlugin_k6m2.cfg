\* k=6 m=2 d=7 (q=2, t=4, 16 planes) with the order table init() has for it:
\* every erasure pattern of encode and decode, every single loss of a repair.
CONSTANTS
  K = 6
  M = 2
  D = 7
  MyMode = "myclay"
  Order <- Gray4
  Junk = Junk
SPECIFICATION Spec
INVARIANTS IInv AllChunksRight AssertionsHold
PROPERTIES RecoveredOnce CodecSpec
