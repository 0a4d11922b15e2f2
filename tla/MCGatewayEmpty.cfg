CONSTANTS
  Conns = {c1, c2, c3}
  Players = {p1, p2}
  Rooms = {r1}
  None = None
  SendBuf = 1
  MaxEvents = 2
SYMMETRY Symmetry
CHECK_DEADLOCK FALSE
SPECIFICATION Spec
INVARIANTS
  EmptyRoomCleaned
