SPECIFICATION Spec
CONSTANTS
  MaxPieces = 2
  Lines = 2
INVARIANT ResponsesPrinted
CHECK_DEADLOCK FALSE
