SPECIFICATION FairSpec
CONSTANTS
  HalfSpace = 4
  InitialHeads <- MCHeads
  LastSeq <- NoSeq
  Reorder = 3
  Sizes <- MCLiveSizes
  SeedSize = 2
  TargetBytes = 2
  BaseMax = 3
  ResyncDistance = 2
  MaxConceal = 2
  TrimMargin = 1
  AdaptWindow = 1
  GrowShare = 2
  MaxExtraBytes = 3
PROPERTIES AudioAgain
INVARIANTS BoundedBuffer
