SPECIFICATION FairSpec
CONSTANTS
  Viewers = {"v"}
  MaxBreaks = 3
  Prompt = TRUE
INVARIANTS
  TypeOK
  OneConnectionPerSession
PROPERTIES
  ViewerGetsVideo
  ViewerIsLetGo
CHECK_DEADLOCK FALSE
