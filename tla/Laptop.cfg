SPECIFICATION FairSpec
CONSTANTS
  p1 = p1  p2 = p2
  c1 = c1  c2 = c2
  Phones <- MCPhones
  Conns <- MCConns
  MaxPairAttempts = 2
  Overlap = TRUE
INVARIANTS TypeOK SessionHasHandler StreamingMeansSession
PROPERTIES OnlyOwnPhoneEnds ScreenRecovers
