CONSTANTS
  root = root
  a = a
  b = b
  c = c
  Node = {root, a}
  Root = root
  Parent <- PairParent
  Prereq <- NoPrereq
  MaxAttempts <- TwiceA
  UsesImage = {a}
  Cached = {a}
  Slots = 1
  MaxCalls = 1
  Joins = TRUE
  MaxOutside = 1
  MaxClaims = 3
  MaxFaults = 1
SPECIFICATION FairSpec
INVARIANTS
  CommittedIsVisible
PROPERTIES
  RunSettles
CHECK_DEADLOCK FALSE
