SPECIFICATION FairSpec
CONSTANTS
  Window = 1
  AckTimeout = 0
  MaxAge = 1
  WarnLatency = 0
  SlowLatency = 1
  MaxLossPercent = 5
  None = None
  MaxSends = 1
  PriorStamps = 0
  RobotStates <- MCRobotStates
PROPERTIES
  CutIsReported
  GuidanceCatchesUp
