CONSTANTS
  Players = {p1, p2, p3}
  MaxPlayers = 2
  NoOne = NoOne
  Faults = {"lost", "interval"}
SPECIFICATION GSpec
INVARIANTS
  WithinCapacity
  OwnerIsMember
  ScriptProtocol
  EmptyLobbyClosed
PROPERTIES
  ImplementsRoom
