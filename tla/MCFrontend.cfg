SPECIFICATION Spec
CONSTANTS
  MaxVersion = 3
  p = p
  q = q
  Product = {p, q}
  InStock <- MCStock
  Price <- MCPrice
  NewPrice <- MCNewPrice
  Cash = {4}
  MaxEdits = 4
  MaxOthers = 1
  NoLine = NoLine
  NoTicket = NoTicket
INVARIANTS
  TypeOK
  OwnWritesAreShown
  NothingIsRefused
  OneRowPerForm
  ShownRowsAreAsked
  UrlFitsItsTab
  DraftIsHeard
  SaleIsTheTicket
PROPERTIES
  EverySubmissionSettles
CHECK_DEADLOCK FALSE
