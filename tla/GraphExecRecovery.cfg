CONSTANTS
  root = root
  a = a
  b = b
  c = c
  Node = {root, a, b}
  Root = root
  Parent <- ChainParent
  Prereq <- NoPrereq
  MaxAttempts <- Once
  UsesImage = {}
  Cached = {}
  Slots = 1
  MaxCalls = 1
  Joins = FALSE
  MaxOutside = 0
  MaxClaims = 2
  MaxFaults = 1
SPECIFICATION Spec
INVARIANTS
  SubtreeClosed
PROPERTIES
  KeepsLedger
CHECK_DEADLOCK FALSE
