SPECIFICATION FairSpec
CONSTANTS
  Formats <- MCFormats
  Modes <- MCModes
  SeedSize = 1920
  SeqSpace = 3
  SessionIds <- MCIds
  NoSession = NoSession
  SessionKey = SessionKey
INVARIANTS TypeOK SizesHold
PROPERTIES NonceFresh LearnsPacketSize
