CONSTANTS
  Sockets = {s1, s2}
  MaxAttempts = 2
  MaxStray = 1
  Null = Null
SPECIFICATION FairSpec
INVARIANTS
  SocketIsSingle
PROPERTIES
  AttemptEnds
  ProxyEnds
