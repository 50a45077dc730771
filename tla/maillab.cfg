SPECIFICATION Spec
CONSTANTS
  MaxPieces = 2
  Lines = 2
INVARIANTS
  InStep
  Accepted
PROPERTY Finishes
CHECK_DEADLOCK FALSE
