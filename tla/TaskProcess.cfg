CONSTANTS
  p1 = p1
  Request = {p1}
  MayDie = TRUE
SPECIFICATION FairSpec
INVARIANTS
  TruthfulOutcome
  NothingOutlives
PROPERTIES
  HandlersStop
  WaitReturnsUnlessAbandoned
CHECK_DEADLOCK FALSE
