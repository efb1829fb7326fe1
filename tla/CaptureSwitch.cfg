SPECIFICATION SteadySpec
CONSTANTS
  d1 = d1
  d2 = d2
  Devices <- MCDevices
  SystemDefault = SystemDefault
  QueueLimit = 1
  MaxGeneration = 1
  Builds <- MCOff
INVARIANTS RestartFixesMute
\* the process may have ended
CHECK_DEADLOCK FALSE
