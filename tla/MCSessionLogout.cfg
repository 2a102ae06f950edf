SPECIFICATION Spec
CONSTANTS
  a = a
  b = b
  Tab = {a}
  Token = {1, 2, 3}
  NoToken = 0
  Does <- SoleDoes
PROPERTIES
  LogoutIsFinal
CHECK_DEADLOCK FALSE
