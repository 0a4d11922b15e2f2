---------------------------- MODULE MCRoomService ----------------------------
(***************************************************************************)
(* Two players and two requests under way at once.  MCRoomService.cfg: one  *)
(* seat and an inbox of one, with the timers, the shutdown of the actor     *)
(* system and a restart.  MCRoomServiceClosed.cfg: two seats and an inbox   *)
(* of two, for what CloseRoom leaves behind it.                             *)
(***************************************************************************)
EXTENDS RoomService, TLC

Symmetry == Permutations(Players) \union Permutations(Requests)
==============================================================================
