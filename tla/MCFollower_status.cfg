SPECIFICATION Spec
CONSTANTS
  Joints = {"j1"}
  MaxStep <- MCMaxStep
  GripperStep = 1
  GripperClosed = 2
  SoftLower <- MCSoftLower
  SoftUpper <- MCSoftUpper
  HardLower <- MCHardLower
  HardUpper <- MCHardUpper
  Workspace <- MCWorkspace
  Bodies <- FewBodies
  MaxSends = 2
  CommandTimeout = 1
  ManualStop = FALSE
  None = None
INVARIANTS
  StopIsReported
