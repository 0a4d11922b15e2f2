CONSTANTS
  Ids = {1, 2, 3}
  MaxTimers = 2
  MaxLate = 2
SPECIFICATION FairSpec
CHECK_DEADLOCK FALSE
INVARIANTS
  ArmedAreCounted
  DestroyedIsSilent
PROPERTIES
  HookEnds
