CONSTANTS
  Players = {p1, p2}
  MaxPlayers = 2
  NoOne = NoOne
  Faults = {"interval"}
  Requests = {r1, r2}
  InboxCap = 2
  MaxRestarts = 1
  Extras = {"action"}
SYMMETRY Symmetry
SPECIFICATION RSpec
INVARIANTS
  ClosedIsFinal
