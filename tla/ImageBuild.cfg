CONSTANTS
  u = u
  v = v
  w = w
  nobody = nobody
  Nobody = nobody
  Caller = {u, v, w}
  MaxFaults = 2
SPECIFICATION FairSpec
INVARIANTS
  SameImage
  OneBuilder
PROPERTIES
  ReadyIsFinal
  EverybodyEnds
CHECK_DEADLOCK FALSE
