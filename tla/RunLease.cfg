CONSTANTS
  root = root
  a = a
  b = b
  Action = {root, a, b}
  Root = root
  Parent <- ChainParent
  MaxAttempts <- TwiceA
  MaxClaims = 2
  MaxFaults = 1
SPECIFICATION Spec
INVARIANTS
  AttemptOnce
  OwnerKnows
PROPERTIES
  ClaimDecides
  OnlyFaultsStop
  NothingStartsAfterTheEnd
  KeepsLedger
CHECK_DEADLOCK FALSE
