SPECIFICATION Spec
CONSTANTS
  HalfSpace = 9
  InitialHeads <- MCHeads
  LastSeq = 8
  Reorder = 5
  Sizes <- MCSizes
  SeedSize = 2
  TargetBytes = 2
  BaseMax = 5
  ResyncDistance = 4
  MaxConceal = 3
  TrimMargin = 2
  AdaptWindow = 2
  GrowShare = 2
  MaxExtraBytes = 2
INVARIANTS ExtraUnderCeiling TypeOK
PROPERTIES PopBoundsLatency ImplementsPlayout
