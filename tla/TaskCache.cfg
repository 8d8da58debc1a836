CONSTANTS
  x = x
  y = y
  Caller = {x, y}
  MaxAttempts = 2
  MaxFaults = 1
SPECIFICATION FairSpec
INVARIANTS
  OneResult
  OneComputes
  ClaimsAreUsed
PROPERTIES
  ResultsStay
  EverybodyEnds
CHECK_DEADLOCK FALSE
