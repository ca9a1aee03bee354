SPECIFICATION FairSpec
CONSTANTS
  MaxConns = 3
  MaxMsgs = 2
INVARIANTS
  TypeOK
  OrderKept
PROPERTIES
  ImplementsLink
  LostOnlyWhenDown
  CloseEnds
  BackOnLine
CHECK_DEADLOCK FALSE
