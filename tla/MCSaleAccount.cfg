SPECIFICATION Spec
CONSTANTS
  r1 = r1
  r2 = r2
  r3 = r3
  r4 = r4
  s1 = s1
  s2 = s2
  Free = Free
  Sale <- MCSale
  Request <- MCRequest
  Amount <- MCAmount
  Cash <- MCCash
SYMMETRY Symmetry
INVARIANTS
  BooksBalance
  TotalsAreCurrent
  IInv
PROPERTIES
  HistoryIsKept
  BookSpec
CHECK_DEADLOCK FALSE
