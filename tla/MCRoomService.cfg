CONSTANTS
  Players = {p1, p2}
  MaxPlayers = 1
  NoOne = NoOne
  Faults = {"interval"}
  Requests = {r1, r2}
  InboxCap = 1
  MaxRestarts = 1
  Extras = {"action", "timer"}
SYMMETRY Symmetry
SPECIFICATION RSpec
INVARIANTS
  RowTracksActor
  PlayingRowHasGame
  SessionCoversGame
  MembersAreRecorded
PROPERTIES
  ImplementsRoom
  RosterFrozen
