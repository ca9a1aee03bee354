SPECIFICATION Spec
CONSTANTS
  MaxConns = 1
  MaxSends = 2
PROPERTIES
  StoppedIsSilent
