SPECIFICATION Spec
CONSTANTS
  MaxEpisodes = 3
  MaxFrames = 2
  MaxNotes = 1
  MaxStamp = 1
  HaveEngine = TRUE
INVARIANTS
  TypeOK
  SavedStays
  Accounted
  CountsAgree
CHECK_DEADLOCK FALSE
