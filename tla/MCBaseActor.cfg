CONSTANTS
  Starts = {a1, a2}
  Stops = {s1}
  Msgs = {m1, m2}
  InboxCap = 1
SPECIFICATION FairSpec
CHECK_DEADLOCK FALSE
INVARIANTS
  SingleRunner
  DrainedBeforeLeaving
  StopJoinsOwed
  OneStartNeverCrashes
  IInv
PROPERTIES
  ImplementsMailbox
  AcceptedIsHandled
  StopEventuallyReturns
