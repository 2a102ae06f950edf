SPECIFICATION FairSpec
CONSTANTS
  r1 = r1
  r2 = r2
  r3 = r3
  r4 = r4
  s1 = s1
  s2 = s2
  Free = Free
  Sale = {s1}
  Request = {r1, r2, r3}
  Amount <- MCAmount
  Cash <- MCCash
PROPERTIES
  EveryCallAnswered
CHECK_DEADLOCK FALSE
