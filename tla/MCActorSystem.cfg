CONSTANTS
  Ids = {i1, i2}
  Calls = {c1, c2}
  Removals = {u1}
  None = None
SPECIFICATION FairSpec
INVARIANTS
  CountTracksRegistry
  OnlyLateAreForgotten
  NoneOutlivesShutdown
PROPERTIES
  ShutdownReturns
CHECK_DEADLOCK FALSE
