SPECIFICATION Spec
CONSTANTS
  Window = 1
  AckTimeout = 0
  MaxAge = 1
  WarnLatency = 0
  SlowLatency = 1
  MaxLossPercent = 5
  None = None
  MaxSends = 1
  PriorStamps = 1
  RobotStates <- MCRobotStates
INVARIANTS
  TypeOK
  CountedOnce
  FeedConsistent
