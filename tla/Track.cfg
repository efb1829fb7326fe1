SPECIFICATION FairSpec
CONSTANTS
  t1 = t1  t2 = t2
  Tracks <- MCTracks
  NoTrack = NoTrack
  StalledLimit = 2
INVARIANTS TypeOK OneTrack NoLostWakeup
PROPERTIES NoFalseAlarm LoopsEnd EvictionNoticed
CHECK_DEADLOCK FALSE
