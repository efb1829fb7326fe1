SPECIFICATION FairSpec
CONSTANTS
  d1 = d1
  d2 = d2
  Devices <- MCDevices
  SystemDefault = SystemDefault
  QueueLimit = 1
  MaxGeneration = 1
  Builds <- MCBoth
INVARIANTS TypeOK SelectionNotStale LastMuteTrue
PROPERTIES MuteTakesEffect CaptureRecovers
