SPECIFICATION Spec
CONSTANTS
  MaxConns = 2
  MaxSends = 4
INVARIANTS
  TypeOK
  OfferedFirst
  InOrder
