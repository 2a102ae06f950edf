SPECIFICATION Spec
CONSTANTS
  p1 = p1
  p2 = p2
  r1 = r1
  r2 = r2
  r3 = r3
  serum = serum
  comb = comb
  n1 = n1
  n2 = n2
  Free = Free
  Nothing = Nothing
  Purchase <- MCPurchase
  Request <- MCRequest
  Product <- MCProduct
  Cost <- MCCost
  Name = {n1, n2}
  Basket <- MCBasket
SYMMETRY Symmetry
INVARIANTS
  ReceivedAsRecorded
  NumbersAreSequential
  LinesAreCurrent
  IInv
PROPERTIES
  BookSpec
CHECK_DEADLOCK FALSE
