------------------------------ MODULE MCGateway ------------------------------
(* Three connections of two players to one room: one of them comes, goes and   *)
(* comes back while the other stays, so the room is not always emptied.        *)
EXTENDS Gateway, TLC

Symmetry == Permutations(Conns) \union Permutations(Players)
==============================================================================
