--------------------------------- MODULE Room ---------------------------------
(***************************************************************************)
(* What a room promises to the players and to the lobby, with no message,  *)
(* inbox, handler or record in sight: who may enter and when, who owns the *)
(* room next, what the lobby shows, and what a crash leaves of it.  Both   *)
(* GameActor (pkg/actor/game_actor.go) and RoomService, where requests and *)
(* restarts come between (internal/game/service.go), are shown to          *)
(* implement this module.                                                  *)
(***************************************************************************)
EXTENDS Naturals, FiniteSets

CONSTANTS Players,     \* who may enter
          MaxPlayers,  \* the room's capacity
          NoOne        \* the owner of a room nobody has entered yet

VARIABLES members,  \* players in the room
          owner,
          on,       \* a game is on
          listed,   \* what the lobby shows: "waiting", "playing" or "closed"
          faulty    \* its actor can no longer take it off the lobby by closing it

roomVars == <<members, owner, on, listed, faulty>>

RoomInit == members = {} /\ owner = NoOne /\ on = FALSE /\ listed = "waiting" /\ faulty = FALSE

\* Between games, while there is a seat; the first to enter owns the room.
Enter(p) ==
  /\ ~on /\ p \notin members /\ Cardinality(members) < MaxPlayers
  /\ members' = members \union {p}
  /\ owner' = IF members = {} THEN p ELSE owner
  /\ UNCHANGED <<on, listed, faulty>>

\* An owner who leaves somebody behind is succeeded by one of them; the last to leave
\* between games takes the room off the lobby.
Depart(p) ==
  /\ p \in members /\ members' = members \ {p}
  /\ owner # p \/ members' = {} => owner' = owner
  /\ owner = p /\ members' # {} => owner' \in members'
  /\ listed' = IF members' = {} /\ ~on THEN "closed" ELSE listed
  /\ UNCHANGED <<on, faulty>>

Begin == ~on /\ on' /\ listed' = "playing" /\ UNCHANGED <<members, owner, faulty>>

\* Closed by its actor, which ends the game, or in the lobby alone.
Close == ~faulty /\ ~on' /\ listed' = "closed" /\ UNCHANGED <<members, owner, faulty>>
Unlist == listed' = "closed" /\ UNCHANGED <<members, owner, on, faulty>>

\* Closing it failed half way: the game has ended, and the lobby is not told, then or later.
Falter == faulty' /\ ~on' /\ UNCHANGED <<members, owner, listed>>

\* A crash: the lobby goes on showing what it showed.
Vanish == members' = {} /\ owner' = NoOne /\ ~on' /\ ~faulty' /\ UNCHANGED listed

RoomNext == \/ \E p \in Players : Enter(p) \/ Depart(p)
            \/ Begin \/ Close \/ Unlist \/ Falter \/ Vanish

RoomSpec == RoomInit /\ [][RoomNext]_roomVars
==============================================================================
