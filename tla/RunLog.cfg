CONSTANTS
  x = x
  z = z
  once = once
  NoId = NoId
  Nobody = Nobody
  Writer = {x, z}
  AppendId <- Ids
  Entries <- Requests
  Wanted = {"mine"}
  BatchSize = 1
  MaxVersions = 2
  MaxEvents = 1
  MaxFaults = 1
SPECIFICATION FairSpec
INVARIANTS
  NothingSkipped
  SentOnce
  DoneIsComplete
  AppendedOnce
PROPERTIES
  NeverBackwards
  WatchEnds
  CatchesUp
CHECK_DEADLOCK FALSE
