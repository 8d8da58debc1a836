CONSTANTS
  root = root
  a = a
  b = b
  c = c
  Node = {root, a, b}
  Root = root
  Parent <- StarParent
  Prereq <- NoPrereq
  MaxAttempts <- TwiceA
  UsesImage = {}
  Cached = {}
  Slots = 2
  MaxCalls = 2
  Joins = FALSE
  MaxOutside = 1
  MaxClaims = 1
  MaxFaults = 0
SPECIFICATION Spec
INVARIANTS
  TypeOK
  SlotConservation
  HeldIffRunning
  OneAttempt
PROPERTIES
  NeverPoisoned
CHECK_DEADLOCK FALSE
