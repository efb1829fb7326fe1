SPECIFICATION Spec
CONSTANTS
  t1 = t1  t2 = t2
  Tracks <- MCTracks
  NoTrack = NoTrack
  StalledLimit = 2
INVARIANTS ReleasedAtEnd
CHECK_DEADLOCK FALSE
