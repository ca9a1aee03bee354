SPECIFICATION FairSpec
CONSTANTS
  Joints = {"j1"}
  MaxStep <- MCMaxStep
  GripperStep = 1
  GripperClosed = 2
  SoftLower <- MCSoftLower
  SoftUpper <- MCSoftUpper
  HardLower <- MCHardLower
  HardUpper <- MCHardUpper
  Workspace <- MCWorkspace
  Bodies <- AllBodies
  MaxSends = 2
  CommandTimeout = 1
  ManualStop = TRUE
  None = None
INVARIANTS
  TypeOK
  HoldFreezesJoints
  WithinSoftLimits
  ResumesOnFresh
  LoopInv
PROPERTIES
  TargetsVetted
  BreachFreezesJoints
  ImplementsGate
  LossIsHeld
  CommandIsJudged
