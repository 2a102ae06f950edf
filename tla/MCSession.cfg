SPECIFICATION FairSpec
CONSTANTS
  a = a
  b = b
  Tab = {a, b}
  Token = {1, 2, 3}
  NoToken = 0
  Does <- MCDoes
INVARIANTS
  TypeOK
  StoredIsNotSpent
  TabsHearOfTheEnd
PROPERTIES
  NobodyIsLeftWaiting
  LiveTokenIsKept
CHECK_DEADLOCK FALSE
