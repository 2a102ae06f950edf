SPECIFICATION Spec
CONSTANTS
  r1 = r1
  r2 = r2
  r3 = r3
  b1 = b1
  b2 = b2
  Free = Free
  Batch <- MCBatch
  Request <- MCRequest
  Quantity <- MCQuantity
  MaxMoves = 2
SYMMETRY Symmetry
INVARIANTS
  StockNonNegative
  CheckIsCurrent
  IInv
PROPERTIES
  BookSpec
CHECK_DEADLOCK FALSE
