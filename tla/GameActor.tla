------------------------------ MODULE GameActor ------------------------------
(***************************************************************************)
(* pkg/actor/game_actor.go: the room.  All of its state is owned by the    *)
(* goroutine of one BaseActor, so a handler is one step; what reaches it,  *)
(* and in which order, is left open here and is RoomService's business.    *)
(*                                                                         *)
(* The two things a handler changes outside the actor are modelled with it:*)
(* the status column of the room's row (RoomManagerInterface), and what    *)
(* the hooks have told the game script (EngineInterface).  Broadcasts, the *)
(* private error events and tickCount are left out: no handler reads them. *)
(*                                                                         *)
(* A hook may fail: the script throws, runs out of its time, or is aborted *)
(* by the late Interrupt of an earlier hook (module Engine), and the       *)
(* handlers pass the error over.  And a hook may set an interval, on whose *)
(* placeholder Destroy panics.  Faults says which of the two happen.       *)
(***************************************************************************)
EXTENDS Naturals, FiniteSets

CONSTANTS Players,     \* player ids
          MaxPlayers,  \* the room's capacity
          NoOne,       \* ownerID before anybody joined ("")
          Faults       \* "lost": a hook may fail; "interval": it may set an interval

ASSUME PlayersAssumption == NoOne \notin Players
ASSUME FaultsAssumption == Faults \subseteq {"lost", "interval"}
ASSUME MaxPlayersAssumption == MaxPlayers \in Nat

VARIABLES
  players,   \* keys of ga.players
  ready,     \* players whose IsReady is set
  owner,     \* ga.ownerID
  isPlaying, \* ga.isPlaying
  engine,    \* "live", "broken" once Destroy() panicked, "destroyed" once it cleared the VM
  interval,  \* the script has set an interval, whose entry nothing removes
  status,    \* the row's status: "waiting", "playing", "closed"
  script,    \* the game script's view of the room, and whether a hook contradicted it
  used       \* history: somebody has been in the room

gvars == <<players, ready, owner, isPlaying, engine, interval, status, script, used>>

\* What the script was told: who is in, whether a game is on; the players whose last
\* onPlayerJoin or onPlayerLeave failed, and whether the last onGameStart or onGameEnd did.
Scripts == [joined : SUBSET Players, started : BOOLEAN,
            missed : SUBSET Players, blind : BOOLEAN, confused : BOOLEAN]
Untold == [joined |-> {}, started |-> FALSE, missed |-> {}, blind |-> FALSE, confused |-> FALSE]

\* The script's body may set an interval when it is loaded.
GInit == /\ players = {} /\ ready = {} /\ owner = NoOne
         /\ isPlaying = FALSE /\ engine = "live" /\ status = "waiting"
         /\ interval \in {FALSE, "interval" \in Faults}
         /\ script = Untold /\ used = FALSE

\* engine.TriggerHook: on a destroyed engine it answers an error (which only
\* handlePlayerAction looks at) and the script sees nothing; otherwise the script has
\* been told, or the hook failed.
Hook(told, lost) ==
  IF engine = "destroyed" THEN UNCHANGED <<script, interval>>
  ELSE /\ script' = told \/ ("lost" \in Faults /\ script' = lost)
       /\ interval' \in {interval, interval \/ "interval" \in Faults}

\* A hook contradicts the script's view if what it is about was not told otherwise by a
\* hook that failed.
Contradicts(wrong) == [script EXCEPT !.confused = @ \/ wrong]
Joined(p) == Hook([Contradicts(p \in script.joined \ script.missed)
                      EXCEPT !.joined = @ \union {p}, !.missed = @ \ {p}],
                  [script EXCEPT !.missed = @ \union {p}])
Left(p) == Hook([Contradicts(p \notin script.joined \union script.missed)
                    EXCEPT !.joined = @ \ {p}, !.missed = @ \ {p}],
                [script EXCEPT !.missed = @ \union {p}])
Started == Hook([Contradicts(script.started /\ ~script.blind)
                    EXCEPT !.started = TRUE, !.blind = FALSE],
                [script EXCEPT !.blind = TRUE])
Ended == Hook([Contradicts(~(script.started \/ script.blind))
                  EXCEPT !.started = FALSE, !.blind = FALSE],
              [script EXCEPT !.blind = TRUE])
InGame == Hook(Contradicts(~(script.started \/ script.blind)), script)
Acted(p) == Hook(Contradicts(\/ ~(script.started \/ script.blind)
                             \/ p \notin script.joined \union script.missed), script)

Refuse == UNCHANGED gvars

------------------------------------------------------------------------------
\* handlePlayerJoin, without the test on isPlaying: the service has read the row.
HandleJoinTrusting(p) ==
  \/ (Cardinality(players) >= MaxPlayers \/ p \in players) /\ Refuse
  \/ /\ p \notin players /\ Cardinality(players) < MaxPlayers
     /\ players' = players \union {p} /\ used' = TRUE
     /\ owner' = IF players = {} THEN p ELSE owner
     /\ Joined(p)
     /\ UNCHANGED <<ready, isPlaying, engine, status>>

\* ... with the capacity test off by one.
HandleJoinOverfull(p) ==
  \/ (isPlaying \/ Cardinality(players) > MaxPlayers \/ p \in players) /\ Refuse
  \/ /\ ~isPlaying /\ p \notin players /\ Cardinality(players) <= MaxPlayers
     /\ players' = players \union {p} /\ used' = TRUE
     /\ owner' = IF players = {} THEN p ELSE owner
     /\ Joined(p)
     /\ UNCHANGED <<ready, isPlaying, engine, status>>

\* ... without the test for a player who is already in.
HandleJoinTwice(p) ==
  \/ (isPlaying \/ Cardinality(players) >= MaxPlayers) /\ Refuse
  \/ /\ ~isPlaying /\ Cardinality(players) < MaxPlayers
     /\ players' = players \union {p} /\ used' = TRUE
     /\ owner' = IF players = {} THEN p ELSE owner
     /\ Joined(p)
     /\ UNCHANGED <<ready, isPlaying, engine, status>>

HandleJoin(p) ==
  \/ (isPlaying \/ Cardinality(players) >= MaxPlayers \/ p \in players) /\ Refuse
  \/ /\ ~isPlaying /\ p \notin players /\ Cardinality(players) < MaxPlayers
     /\ players' = players \union {p} /\ used' = TRUE
     /\ owner' = IF players = {} THEN p ELSE owner
     /\ Joined(p)
     /\ UNCHANGED <<ready, isPlaying, engine, status>>

\* Ownership handed to a player picked before the leaver is deleted.
HandleLeaveOwnerFirst(p) ==
  \/ p \notin players /\ Refuse
  \/ /\ p \in players
     /\ players' = players \ {p} /\ ready' = ready \ {p}
     /\ IF owner = p THEN owner' \in players ELSE owner' = owner
     /\ status' = IF players' = {} /\ ~isPlaying THEN "closed" ELSE status
     /\ Left(p)
     /\ UNCHANGED <<isPlaying, engine, used>>

\* The row is closed only by the owner's leaving, and only if he is the last.
HandleLeaveOwnerCloses(p) ==
  \/ p \notin players /\ Refuse
  \/ /\ p \in players
     /\ players' = players \ {p} /\ ready' = ready \ {p}
     /\ owner' = owner
     /\ status' = IF players' = {} /\ ~isPlaying /\ owner = p THEN "closed" ELSE status
     /\ Left(p)
     /\ UNCHANGED <<isPlaying, engine, used>>

\* handlePlayerLeave: a map iteration picks the next owner; the last one to leave a
\* room that is not playing closes its row.
HandleLeave(p) ==
  \/ p \notin players /\ Refuse
  \/ /\ p \in players
     /\ players' = players \ {p} /\ ready' = ready \ {p}
     /\ IF owner = p /\ players' # {} THEN owner' \in players' ELSE owner' = owner
     /\ status' = IF players' = {} /\ ~isPlaying THEN "closed" ELSE status
     /\ Left(p)
     /\ UNCHANGED <<isPlaying, engine, used>>

HandleReady(p) ==
  \/ p \notin players /\ Refuse
  \/ /\ p \in players
     /\ ready' = ready \union {p}
     /\ UNCHANGED <<players, owner, isPlaying, engine, interval, status, script, used>>

HandleAction(p) ==
  \/ ~(isPlaying /\ p \in players) /\ Refuse
  \/ /\ isPlaying /\ p \in players
     /\ Acted(p)
     /\ UNCHANGED <<players, ready, owner, isPlaying, engine, status, used>>

HandleTick ==
  \/ ~isPlaying /\ Refuse
  \/ /\ isPlaying
     /\ InGame
     /\ UNCHANGED <<players, ready, owner, isPlaying, engine, status, used>>

\* handleGameStart, with the row left as it was.
HandleStartNoRow ==
  \/ isPlaying /\ Refuse
  \/ /\ ~isPlaying /\ isPlaying' = TRUE
     /\ Started
     /\ UNCHANGED <<players, ready, owner, engine, status, used>>

\* handleGameStart: neither the caller, the number of players, nor their readiness
\* is looked at, and a room that was shut down starts like any other.
HandleStart ==
  \/ isPlaying /\ Refuse
  \/ /\ ~isPlaying /\ isPlaying' = TRUE /\ status' = "playing"
     /\ Started
     /\ UNCHANGED <<players, ready, owner, engine, used>>

\* handleTimer and handleRestore hand their message to the script, whatever the room does.
HandleTimer ==
  /\ Hook(script, script)
  /\ UNCHANGED <<players, ready, owner, isPlaying, engine, status, used>>

\* handleShutdown, with the row left to whoever asked for it.
HandleShutdownNoRow ==
  /\ isPlaying' = FALSE
  /\ IF isPlaying THEN Ended ELSE UNCHANGED <<script, interval>>
  /\ engine' = IF interval' THEN "broken" ELSE "destroyed"
  /\ UNCHANGED <<players, ready, owner, status, used>>

\* handleShutdown: onGameEnd if a game runs, which may be what sets the interval; then
\* Destroy, and the row is closed.  If Destroy panics, BaseActor recovers: the engine stays,
\* and the row is not written.  The actor stays registered and goes on receiving.
HandleShutdown ==
  /\ isPlaying' = FALSE
  /\ IF isPlaying THEN Ended ELSE UNCHANGED <<script, interval>>
  /\ \/ interval' /\ engine' = "broken" /\ status' = status
     \/ ~interval' /\ engine' = "destroyed" /\ status' = "closed"
  /\ UNCHANGED <<players, ready, owner, used>>

GNext == \/ \E p \in Players : \/ HandleJoin(p) \/ HandleLeave(p)
                               \/ HandleReady(p) \/ HandleAction(p)
         \/ HandleStart \/ HandleTick \/ HandleTimer \/ HandleShutdown

GSpec == GInit /\ [][GNext]_gvars

------------------------------------------------------------------------------
GTypeOK ==
  /\ players \in SUBSET Players /\ IsFiniteSet(players) /\ ready \in SUBSET players
  /\ owner \in Players \union {NoOne}
  /\ isPlaying \in BOOLEAN /\ used \in BOOLEAN
  /\ engine \in {"live", "broken", "destroyed"} /\ interval \in BOOLEAN
  /\ status \in {"waiting", "playing", "closed"} /\ script \in Scripts

\* The room never holds more than its capacity (game_actor.go:141), whatever joins,
\* leaves and duplicate joins were queued while it filled up.
WithinCapacity == Cardinality(players) <= MaxPlayers

\* A room with players always has an owner who is one of them, through any sequence
\* of owners leaving, the room emptying and being entered again (158-161, 224-233).
OwnerIsMember == players # {} => owner \in players

\* A game script that is running knows who is in the room and whether a game is on, but
\* for what the last hook about it failed to say; and no hook contradicts what the script
\* was told: an action before onGameStart or of a stranger, a second onPlayerJoin or
\* onGameStart, an onGameEnd with no game.  One failed hook misleads the script about its
\* own subject only, and only until the next hook about it.
ScriptProtocol ==
  /\ ~script.confused
  /\ engine # "destroyed" =>
       /\ \A p \in Players \ script.missed : p \in script.joined <=> p \in players
       /\ ~script.blind => script.started = isPlaying

\* A lobby everybody has left is closed, never listed as waiting again (235-238), and a
\* game that was shut down is not listed as playing, unless Destroy panicked (374-381).
EmptyLobbyClosed ==
  used /\ players = {} /\ ~isPlaying => status = "closed" \/ engine = "broken"

\* Nobody enters while a game is on (134-139).
RosterFrozen == [][isPlaying /\ isPlaying' => players' \subseteq players]_gvars

\* What the safety properties rest on together: Destroy panics for an interval and for
\* nothing else; ready \subseteq players ties the room's own state; the row's status, which
\* others may write too, and the history variable come on top.
EngineInv == (engine = "broken" => interval) /\ (engine = "destroyed" => ~interval)
RosterInv == GTypeOK /\ WithinCapacity /\ OwnerIsMember /\ ScriptProtocol /\ EngineInv
RowFollowsPlay == /\ isPlaying => status = "playing"
                  /\ status = "playing" => isPlaying \/ engine = "broken"
LobbyInv == RowFollowsPlay /\ EmptyLobbyClosed /\ (players # {} => used)
GInv == RosterInv /\ LobbyInv

\* The room is the one Room promises: a player enters only between games and below the
\* capacity, ownership passes to somebody present, and the lobby's view moves with the room
\* (behind the service, with a CloseRoom or a crash in between), until a Destroy that
\* panics makes it falter.
AsRoom == INSTANCE Room
            WITH members <- players, on <- isPlaying, listed <- status, faulty <- engine = "broken"
ImplementsRoom == AsRoom!RoomSpec
==============================================================================
