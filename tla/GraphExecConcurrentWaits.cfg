CONSTANTS
  root = root
  a = a
  b = b
  c = c
  Node = {root, a, b}
  Root = root
  Parent <- StarParent
  Prereq <- NoPrereq
  MaxAttempts <- Once
  UsesImage = {}
  Cached = {}
  Slots = 1
  MaxCalls = 2
  Joins = TRUE
  MaxOutside = 0
  MaxClaims = 1
  MaxFaults = 0
SPECIFICATION FairSpec
PROPERTIES
  RootFinishes
CHECK_DEADLOCK FALSE
