CONSTANTS
  small = small
  large = large
  base = base
  app = app
  Digest = {small, large}
  Large = {large}
  Id = {o1, o2}
  MaxFaults = 1
  Env = {base, app}
  Sources <- SourcesOf
  Deps <- DepsOf
  Key = {k}
  Input = {x1, x2}
  Run = {r1, r2}
  Caller = {c1, c2}
SPECIFICATION DeployFairSpec
INVARIANTS
  FewLeftBehind
  RegisteredIsUsable
  OneRunPerKey
PROPERTIES
  KeepsContent
  SessionsEnd
CHECK_DEADLOCK FALSE
