CONSTANTS
  root = root
  a = a
  b = b
  c = c
  Node = {root, a, b, c}
  Root = root
  Parent <- FanParent
  Prereq <- CAfterBoth
  MaxAttempts <- Once
  UsesImage = {}
  Cached = {}
  Slots = 1
  MaxCalls = 1
  Joins = TRUE
  MaxOutside = 0
  MaxClaims = 1
  MaxFaults = 0
SPECIFICATION Spec
INVARIANTS
  FailedPrerequisiteIsLocal
CHECK_DEADLOCK FALSE
