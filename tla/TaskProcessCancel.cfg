CONSTANTS
  p1 = p1
  Request = {p1}
  MayDie = TRUE
SPECIFICATION FairSpec
PROPERTIES
  WaitReturns
CHECK_DEADLOCK FALSE
