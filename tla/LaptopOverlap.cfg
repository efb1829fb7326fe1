SPECIFICATION Spec
CONSTANTS
  p1 = p1  p2 = p2
  c1 = c1  c2 = c2
  Phones <- MCOnePhone
  Conns <- MCConns
  MaxPairAttempts = 2
  Overlap = TRUE
PROPERTIES SessionEndsForCause
