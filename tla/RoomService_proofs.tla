-------------------------- MODULE RoomService_proofs --------------------------
(***************************************************************************)
(* The room alone, then the room behind the service: its invariants, the   *)
(* agreement of row, records and actor, and that both implement Room, for  *)
(* any number of players and of requests under way, any capacity and       *)
(* inbox, and any number of restarts.                                      *)
(***************************************************************************)
EXTENDS RoomService, FiniteSetTheorems, TLAPS

------------------------------------------------------------------------------
(* The room alone: GameActor.                                               *)

\* One more member of a set that is below a bound stays within it; one less does too.
LEMMA CapacityStep ==
  ASSUME NEW S, IsFiniteSet(S), Cardinality(S) <= MaxPlayers, NEW p
  PROVE  /\ Cardinality(S) < MaxPlayers => Cardinality(S \union {p}) <= MaxPlayers
         /\ Cardinality(S \ {p}) <= MaxPlayers
         /\ IsFiniteSet(S \union {p}) /\ IsFiniteSet(S \ {p})
<1>1. Cardinality(S) \in Nat
  BY FS_CardinalityType
<1>2. /\ IsFiniteSet(S \union {p})
      /\ Cardinality(S \union {p}) = IF p \in S THEN Cardinality(S) ELSE Cardinality(S) + 1
  BY <1>1, FS_AddElement
<1>3. /\ IsFiniteSet(S \ {p})
      /\ Cardinality(S \ {p}) = IF p \in S THEN Cardinality(S) - 1 ELSE Cardinality(S)
  BY <1>1, FS_RemoveElement
<1> QED
  BY <1>1, <1>2, <1>3, MaxPlayersAssumption

\* The empty room is sound, at the start and after a crash, whatever the row says.
LEMMA EmptyRoster ==
  ASSUME players = {}, ready = {}, owner = NoOne, isPlaying = FALSE, engine = "live",
         interval \in BOOLEAN, script = Untold, used = FALSE,
         status \in {"waiting", "playing", "closed"}
  PROVE  RosterInv
<1>1. IsFiniteSet({}) /\ Cardinality({}) = 0 /\ 0 <= MaxPlayers
  BY FS_EmptySet, MaxPlayersAssumption
<1> QED
  BY <1>1 DEF RosterInv, GTypeOK, WithinCapacity, OwnerIsMember, ScriptProtocol, EngineInv,
              Scripts, Untold

\* A new room is sound, whether its script has set an interval at once or not.
LEMMA InitRoster == GInit => RosterInv
<1> SUFFICES ASSUME GInit PROVE RosterInv
  OBVIOUS
<1>1. interval \in BOOLEAN
  <2>1. CASE "interval" \in Faults
    <3>1. ("interval" \in Faults) = TRUE
      BY <2>1
    <3> QED
      BY <3>1 DEF GInit
  <2>2. CASE "interval" \notin Faults
    <3>1. ("interval" \in Faults) = FALSE
      BY <2>2
    <3> QED
      BY <3>1 DEF GInit
  <2> QED
    BY <2>1, <2>2
<1> QED
  BY <1>1, EmptyRoster DEF GInit

\* Who changes no more of the room than the row leaves it sound: a refused message, a step
\* of somebody else, a CloseRoom.
LEMMA SameRoster ==
  ASSUME RosterInv,
         UNCHANGED <<players, ready, owner, isPlaying, engine, interval, script, used>>,
         status' \in {"waiting", "playing", "closed"}
  PROVE  RosterInv'
BY DEF RosterInv, GTypeOK, WithinCapacity, OwnerIsMember, ScriptProtocol, EngineInv

LEMMA RefuseRoster == RosterInv /\ UNCHANGED gvars => RosterInv'
<1> SUFFICES ASSUME RosterInv, UNCHANGED gvars PROVE RosterInv'
  OBVIOUS
<1>1. /\ UNCHANGED <<players, ready, owner, isPlaying, engine, interval, script, used>>
      /\ status' \in {"waiting", "playing", "closed"}
  BY DEF gvars, RosterInv, GTypeOK
<1> QED
  BY <1>1, SameRoster

\* A view of the script's that fits the room as the step leaves it.
Fits(s) == /\ s \in Scripts /\ ~s.confused
           /\ \A p \in Players \ s.missed : p \in s.joined <=> p \in players'
           /\ ~s.blind => s.started = isPlaying'

\* A hook whose views fit, told or lost, leaves the script a view that fits; it sets an
\* interval at most, and none on a destroyed engine.
LEMMA HookScript ==
  ASSUME RosterInv, NEW told, NEW lost, Hook(told, lost),
         engine # "destroyed" => Fits(told) /\ Fits(lost),
         engine = "destroyed" => engine' = "destroyed"
  PROVE  /\ ScriptProtocol' /\ script' \in Scripts
         /\ interval' \in BOOLEAN /\ (interval => interval')
         /\ engine = "destroyed" => ~interval'
<1>1. CASE engine = "destroyed"
  BY <1>1 DEF RosterInv, GTypeOK, ScriptProtocol, EngineInv, Hook
<1>2. CASE engine # "destroyed"
  <2>1. Fits(script')
    BY <1>2 DEF Hook
  <2>2. interval' \in BOOLEAN /\ (interval => interval')
    BY <1>2 DEF Hook, RosterInv, GTypeOK
  <2> QED
    BY <1>2, <2>1, <2>2 DEF Fits, ScriptProtocol
<1> QED
  BY <1>1, <1>2

\* What the script knows before the step.
LEMMA ScriptKnows ==
  ASSUME RosterInv
  PROVE  /\ script \in Scripts /\ ~script.confused
         /\ engine # "destroyed" =>
              /\ \A p \in Players \ script.missed : p \in script.joined <=> p \in players
              /\ ~script.blind => script.started = isPlaying
BY DEF RosterInv, GTypeOK, ScriptProtocol

\* An admitted player: the capacity had room, and the first one becomes the owner.
LEMMA JoinRoster ==
  ASSUME RosterInv, NEW p \in Players, HandleJoin(p)
  PROVE  RosterInv'
<1>1. CASE Refuse
  BY <1>1, RefuseRoster DEF Refuse
<1>2. CASE ~Refuse
  <2>1. /\ ~isPlaying /\ p \notin players /\ Cardinality(players) < MaxPlayers
        /\ players' = players \union {p} /\ used' = TRUE
        /\ owner' = IF players = {} THEN p ELSE owner
        /\ Joined(p)
        /\ UNCHANGED <<ready, isPlaying, engine, status>>
    BY <1>2 DEF HandleJoin
  <2> DEFINE wrong == p \in script.joined \ script.missed
             told == [Contradicts(wrong) EXCEPT !.joined = @ \union {p}, !.missed = @ \ {p}]
             lost == [script EXCEPT !.missed = @ \union {p}]
  <2>2. Hook(told, lost)
    BY <2>1 DEF Joined
  <2>3. engine # "destroyed" => wrong = FALSE
    BY <2>1, ScriptKnows
  <2>4. engine # "destroyed" => Fits(told) /\ Fits(lost)
    <3> SUFFICES ASSUME engine # "destroyed" PROVE Fits(told) /\ Fits(lost)
      OBVIOUS
    <3> HIDE DEF wrong
    <3>1. /\ told \in Scripts /\ told.confused = FALSE
          /\ told.joined = script.joined \union {p} /\ told.missed = script.missed \ {p}
          /\ told.started = script.started /\ told.blind = script.blind
      BY <2>3, ScriptKnows DEF Contradicts, Scripts
    <3>2. /\ lost \in Scripts /\ lost.confused = FALSE
          /\ lost.joined = script.joined /\ lost.missed = script.missed \union {p}
          /\ lost.started = script.started /\ lost.blind = script.blind
      BY ScriptKnows DEF Scripts
    <3> HIDE DEF told, lost
    <3>3. Fits(told)
      BY <2>1, <3>1, ScriptKnows DEF Fits, Scripts
    <3>4. Fits(lost)
      BY <2>1, <3>2, ScriptKnows DEF Fits, Scripts
    <3> QED
      BY <3>3, <3>4
  <2> HIDE DEF told, lost
  <2>5. /\ ScriptProtocol' /\ script' \in Scripts /\ interval' \in BOOLEAN
        /\ (interval => interval') /\ (engine = "destroyed" => ~interval')
    BY <2>1, <2>2, <2>4, HookScript
  <2>6. WithinCapacity' /\ IsFiniteSet(players')
    BY <2>1, CapacityStep DEF RosterInv, WithinCapacity, GTypeOK
  <2>7. GTypeOK' /\ OwnerIsMember'
    BY <2>1, <2>5, <2>6 DEF RosterInv, GTypeOK, OwnerIsMember
  <2>8. EngineInv'
    <3>1. EngineInv /\ engine' = engine
      BY <2>1 DEF RosterInv
    <3> QED
      BY <2>5, <3>1, Zenon DEF EngineInv
  <2> QED
    BY <2>5, <2>6, <2>7, <2>8 DEF RosterInv
<1> QED
  BY <1>1, <1>2

\* A leaver: the owner's place is taken over.
LEMMA LeaveRoster ==
  ASSUME RosterInv, NEW p \in Players, HandleLeave(p)
  PROVE  RosterInv'
<1>1. CASE Refuse
  BY <1>1, RefuseRoster DEF Refuse
<1>2. CASE ~Refuse
  <2>1. /\ p \in players /\ players' = players \ {p} /\ ready' = ready \ {p}
        /\ IF owner = p /\ players' # {} THEN owner' \in players' ELSE owner' = owner
        /\ status' = IF players' = {} /\ ~isPlaying THEN "closed" ELSE status
        /\ Left(p)
        /\ UNCHANGED <<isPlaying, engine, used>>
    BY <1>2 DEF HandleLeave
  <2> DEFINE wrong == p \notin script.joined \union script.missed
             told == [Contradicts(wrong) EXCEPT !.joined = @ \ {p}, !.missed = @ \ {p}]
             lost == [script EXCEPT !.missed = @ \union {p}]
  <2>2. Hook(told, lost)
    BY <2>1 DEF Left
  <2>3. engine # "destroyed" => wrong = FALSE
    BY <2>1, ScriptKnows
  <2>4. engine # "destroyed" => Fits(told) /\ Fits(lost)
    <3> SUFFICES ASSUME engine # "destroyed" PROVE Fits(told) /\ Fits(lost)
      OBVIOUS
    <3> HIDE DEF wrong
    <3>1. /\ told \in Scripts /\ told.confused = FALSE
          /\ told.joined = script.joined \ {p} /\ told.missed = script.missed \ {p}
          /\ told.started = script.started /\ told.blind = script.blind
      BY <2>3, ScriptKnows DEF Contradicts, Scripts
    <3>2. /\ lost \in Scripts /\ lost.confused = FALSE
          /\ lost.joined = script.joined /\ lost.missed = script.missed \union {p}
          /\ lost.started = script.started /\ lost.blind = script.blind
      BY ScriptKnows DEF Scripts
    <3> HIDE DEF told, lost
    <3>3. Fits(told)
      BY <2>1, <3>1, ScriptKnows DEF Fits, Scripts
    <3>4. Fits(lost)
      BY <2>1, <3>2, ScriptKnows DEF Fits, Scripts
    <3> QED
      BY <3>3, <3>4
  <2> HIDE DEF told, lost
  <2>5. /\ ScriptProtocol' /\ script' \in Scripts /\ interval' \in BOOLEAN
        /\ (interval => interval') /\ (engine = "destroyed" => ~interval')
    BY <2>1, <2>2, <2>4, HookScript
  <2>6. WithinCapacity' /\ IsFiniteSet(players')
    BY <2>1, CapacityStep DEF RosterInv, WithinCapacity, GTypeOK
  <2>7. OwnerIsMember'
    BY <2>1 DEF RosterInv, OwnerIsMember
  <2>9. EngineInv'
    <3>1. EngineInv /\ engine' = engine
      BY <2>1 DEF RosterInv
    <3> QED
      BY <2>5, <3>1, Zenon DEF EngineInv
  <2>8. GTypeOK'
    BY <2>1, <2>5, <2>6 DEF RosterInv, GTypeOK
  <2> QED
    BY <2>5, <2>6, <2>7, <2>8, <2>9 DEF RosterInv
<1> QED
  BY <1>1, <1>2

\* The hooks of a game that runs or begins leave the script told what fits.
LEMMA GameHooks ==
  ASSUME RosterInv, UNCHANGED players, engine = "destroyed" => engine' = "destroyed",
         \/ \E p \in players : isPlaying /\ isPlaying' = isPlaying /\ Acted(p)
         \/ isPlaying /\ isPlaying' = isPlaying /\ InGame
         \/ ~isPlaying /\ isPlaying' = TRUE /\ Started
         \/ isPlaying /\ isPlaying' = FALSE /\ Ended
         \/ isPlaying' = isPlaying /\ Hook(script, script)
         \/ isPlaying' = isPlaying /\ UNCHANGED <<script, interval>>
  PROVE  /\ ScriptProtocol' /\ script' \in Scripts
         /\ interval' \in BOOLEAN /\ (interval => interval')
         /\ engine = "destroyed" => ~interval'
<1>1. ASSUME NEW wrong, wrong = FALSE PROVE Contradicts(wrong) = script
  BY <1>1, ScriptKnows DEF Contradicts, Scripts
<1>2. ASSUME NEW p \in players, isPlaying, isPlaying' = isPlaying, Acted(p)
      PROVE  \E told, lost : Hook(told, lost)
                             /\ (engine # "destroyed" => Fits(told) /\ Fits(lost))
  <2> DEFINE wrong == \/ ~(script.started \/ script.blind)
                      \/ p \notin script.joined \union script.missed
  <2>1. Hook(Contradicts(wrong), script)
    BY <1>2 DEF Acted
  <2>2. engine # "destroyed" => wrong = FALSE
    BY <1>2, ScriptKnows DEF RosterInv, GTypeOK
  <2>3. engine # "destroyed" => Fits(Contradicts(wrong)) /\ Fits(script)
    <3> SUFFICES ASSUME engine # "destroyed" PROVE Fits(Contradicts(wrong)) /\ Fits(script)
      OBVIOUS
    <3>1. Fits(script)
      BY <1>2, ScriptKnows DEF Fits
    <3>2. Contradicts(wrong) = script
      BY <1>1, <2>2, Zenon
    <3> QED
      BY <3>1, <3>2
  <2> QED
    BY <2>1, <2>3
<1>3. ASSUME isPlaying, isPlaying' = isPlaying, InGame
      PROVE  \E told, lost : Hook(told, lost)
                             /\ (engine # "destroyed" => Fits(told) /\ Fits(lost))
  <2> DEFINE wrong == ~(script.started \/ script.blind)
  <2>1. Hook(Contradicts(wrong), script)
    BY <1>3 DEF InGame
  <2>2. engine # "destroyed" => wrong = FALSE
    BY <1>3, ScriptKnows
  <2>3. engine # "destroyed" => Fits(Contradicts(wrong)) /\ Fits(script)
    <3> SUFFICES ASSUME engine # "destroyed" PROVE Fits(Contradicts(wrong)) /\ Fits(script)
      OBVIOUS
    <3>1. Fits(script)
      BY <1>3, ScriptKnows DEF Fits
    <3>2. Contradicts(wrong) = script
      BY <1>1, <2>2, Zenon
    <3> QED
      BY <3>1, <3>2
  <2> QED
    BY <2>1, <2>3
<1>4. ASSUME ~isPlaying, isPlaying' = TRUE, Started
      PROVE  \E told, lost : Hook(told, lost)
                             /\ (engine # "destroyed" => Fits(told) /\ Fits(lost))
  <2> DEFINE wrong == script.started /\ ~script.blind
             told == [Contradicts(wrong) EXCEPT !.started = TRUE, !.blind = FALSE]
             lost == [script EXCEPT !.blind = TRUE]
  <2>1. Hook(told, lost)
    BY <1>4 DEF Started
  <2>2. engine # "destroyed" => wrong = FALSE
    BY <1>4, ScriptKnows DEF RosterInv, GTypeOK
  <2>3. engine # "destroyed" => Fits(told) /\ Fits(lost)
    <3> SUFFICES ASSUME engine # "destroyed" PROVE Fits(told) /\ Fits(lost)
      OBVIOUS
    <3> HIDE DEF wrong
    <3>1. /\ told \in Scripts /\ told.confused = FALSE
          /\ told.joined = script.joined /\ told.missed = script.missed
          /\ told.started = TRUE /\ told.blind = FALSE
      BY <2>2, ScriptKnows DEF Contradicts, Scripts
    <3>2. /\ lost \in Scripts /\ lost.confused = FALSE
          /\ lost.joined = script.joined /\ lost.missed = script.missed
          /\ lost.started = script.started /\ lost.blind = TRUE
      BY ScriptKnows DEF Scripts
    <3> HIDE DEF told, lost
    <3>3. Fits(told)
      BY <1>4, <3>1, ScriptKnows DEF Fits
    <3>4. Fits(lost)
      BY <1>4, <3>2, ScriptKnows DEF Fits
    <3> QED
      BY <3>3, <3>4
  <2> QED
    BY <2>1, <2>3
<1>5. ASSUME isPlaying, isPlaying' = FALSE, Ended
      PROVE  \E told, lost : Hook(told, lost)
                             /\ (engine # "destroyed" => Fits(told) /\ Fits(lost))
  <2> DEFINE wrong == ~(script.started \/ script.blind)
             told == [Contradicts(wrong) EXCEPT !.started = FALSE, !.blind = FALSE]
             lost == [script EXCEPT !.blind = TRUE]
  <2>1. Hook(told, lost)
    BY <1>5 DEF Ended
  <2>2. engine # "destroyed" => wrong = FALSE
    BY <1>5, ScriptKnows
  <2>3. engine # "destroyed" => Fits(told) /\ Fits(lost)
    <3> SUFFICES ASSUME engine # "destroyed" PROVE Fits(told) /\ Fits(lost)
      OBVIOUS
    <3> HIDE DEF wrong
    <3>1. /\ told \in Scripts /\ told.confused = FALSE
          /\ told.joined = script.joined /\ told.missed = script.missed
          /\ told.started = FALSE /\ told.blind = FALSE
      BY <2>2, ScriptKnows DEF Contradicts, Scripts
    <3>2. /\ lost \in Scripts /\ lost.confused = FALSE
          /\ lost.joined = script.joined /\ lost.missed = script.missed
          /\ lost.started = script.started /\ lost.blind = TRUE
      BY ScriptKnows DEF Scripts
    <3> HIDE DEF told, lost
    <3>3. Fits(told)
      BY <1>5, <3>1, ScriptKnows DEF Fits
    <3>4. Fits(lost)
      BY <1>5, <3>2, ScriptKnows DEF Fits
    <3> QED
      BY <3>3, <3>4
  <2> QED
    BY <2>1, <2>3
<1>6. ASSUME isPlaying' = isPlaying, Hook(script, script)
      PROVE  \E told, lost : Hook(told, lost)
                             /\ (engine # "destroyed" => Fits(told) /\ Fits(lost))
  <2>1. engine # "destroyed" => Fits(script)
    BY <1>6, ScriptKnows DEF Fits
  <2> QED
    BY <1>6, <2>1
<1>7. CASE isPlaying' = isPlaying /\ UNCHANGED <<script, interval>>
  BY <1>7 DEF RosterInv, GTypeOK, ScriptProtocol, EngineInv
<1>8. CASE ~(isPlaying' = isPlaying /\ UNCHANGED <<script, interval>>)
  <2>1. PICK told, lost : Hook(told, lost)
                          /\ (engine # "destroyed" => Fits(told) /\ Fits(lost))
    BY <1>2, <1>3, <1>4, <1>5, <1>6, <1>8
  <2> QED
    BY <2>1, HookScript
<1> QED
  BY <1>7, <1>8

\* The handlers that leave the roster alone: what the script is told fits what it knew.
LEMMA PlayRoster ==
  ASSUME RosterInv, \/ \E p \in Players : HandleReady(p) \/ HandleAction(p)
                    \/ HandleStart \/ HandleTick \/ HandleTimer \/ HandleShutdown
  PROVE  RosterInv'
<1>1. CASE Refuse
  BY <1>1, RefuseRoster DEF Refuse
<1>2. ASSUME NEW p \in Players, HandleReady(p), ~Refuse PROVE RosterInv'
  BY <1>2 DEF HandleReady, RosterInv, GTypeOK, WithinCapacity, OwnerIsMember, ScriptProtocol,
              EngineInv
<1>3. ASSUME ~Refuse, \/ \E p \in Players : HandleAction(p)
                      \/ HandleStart \/ HandleTick \/ HandleTimer
      PROVE  RosterInv'
  <2>1. UNCHANGED <<players, ready, owner, engine, used>>
    BY <1>3 DEF HandleAction, HandleStart, HandleTick, HandleTimer
  <2>2. isPlaying' \in BOOLEAN /\ status' \in {"waiting", "playing", "closed"}
    BY <1>3 DEF HandleAction, HandleStart, HandleTick, HandleTimer, RosterInv, GTypeOK
  <2>3. \/ \E p \in players : isPlaying /\ isPlaying' = isPlaying /\ Acted(p)
        \/ isPlaying /\ isPlaying' = isPlaying /\ InGame
        \/ ~isPlaying /\ isPlaying' = TRUE /\ Started
        \/ isPlaying' = isPlaying /\ Hook(script, script)
    BY <1>3 DEF HandleAction, HandleStart, HandleTick, HandleTimer
  <2>4. /\ ScriptProtocol' /\ script' \in Scripts /\ interval' \in BOOLEAN
        /\ (interval => interval') /\ (engine = "destroyed" => ~interval')
    BY <2>1, <2>3, GameHooks
  <2>5. EngineInv'
    <3>1. EngineInv /\ engine' = engine
      BY <2>1 DEF RosterInv
    <3> QED
      BY <2>4, <3>1, Zenon DEF EngineInv
  <2> QED
    BY <2>1, <2>2, <2>4, <2>5 DEF RosterInv, GTypeOK, WithinCapacity, OwnerIsMember
<1>4. CASE HandleShutdown
  <2>1. /\ UNCHANGED <<players, ready, owner, used>> /\ isPlaying' = FALSE
        /\ \/ interval' /\ engine' = "broken" /\ status' = status
           \/ ~interval' /\ engine' = "destroyed" /\ status' = "closed"
        /\ \/ isPlaying /\ Ended
           \/ ~isPlaying /\ UNCHANGED <<script, interval>>
    BY <1>4 DEF HandleShutdown
  <2>2. engine = "destroyed" => engine' = "destroyed"
    BY <2>1 DEF RosterInv, EngineInv, Ended, Hook
  <2>3. ~isPlaying => isPlaying' = isPlaying
    BY <2>1 DEF RosterInv, GTypeOK
  <2>4. /\ ScriptProtocol' /\ script' \in Scripts /\ interval' \in BOOLEAN
        /\ (interval => interval') /\ (engine = "destroyed" => ~interval')
    BY <2>1, <2>2, <2>3, GameHooks
  <2>5. status' \in {"waiting", "playing", "closed"}
    BY <2>1 DEF RosterInv, GTypeOK
  <2> QED
    BY <2>1, <2>4, <2>5 DEF RosterInv, GTypeOK, WithinCapacity, OwnerIsMember, EngineInv
<1> QED
  BY <1>1, <1>2, <1>3, <1>4

\* What the row says, and who has been there, go with the room.
LEMMA LobbyStep == RosterInv /\ LobbyInv /\ GNext => LobbyInv'
<1> SUFFICES ASSUME RosterInv, LobbyInv, GNext PROVE LobbyInv'
  OBVIOUS
<1> USE DEF LobbyInv, RowFollowsPlay, EmptyLobbyClosed
<1>1. CASE Refuse
  BY <1>1 DEF Refuse, gvars
<1>2. ASSUME NEW p \in Players, HandleJoin(p), ~Refuse PROVE LobbyInv'
  BY <1>2 DEF HandleJoin
<1>3. ASSUME NEW p \in Players, HandleLeave(p), ~Refuse PROVE LobbyInv'
  <2>1. /\ p \in players /\ players' = players \ {p}
        /\ status' = IF players' = {} /\ ~isPlaying THEN "closed" ELSE status
        /\ UNCHANGED <<isPlaying, engine, used>>
    BY <1>3 DEF HandleLeave
  <2> QED
    BY <2>1
<1>4. ASSUME NEW p \in Players, HandleReady(p) \/ HandleAction(p), ~Refuse PROVE LobbyInv'
  BY <1>4 DEF HandleReady, HandleAction
<1>5. CASE (HandleTick \/ HandleTimer) /\ ~Refuse
  BY <1>5 DEF HandleTick, HandleTimer
<1>6. CASE HandleStart /\ ~Refuse
  <2>1. isPlaying' = TRUE /\ status' = "playing" /\ UNCHANGED <<players, engine, used>>
    BY <1>6 DEF HandleStart
  <2> QED
    BY <2>1
<1>7. CASE HandleShutdown
  <2>1. /\ isPlaying' = FALSE /\ UNCHANGED <<players, used>>
        /\ engine' = "broken" \/ status' = "closed"
    BY <1>7 DEF HandleShutdown
  <2> QED
    BY <2>1
<1> QED
  BY <1>1, <1>2, <1>3, <1>4, <1>5, <1>6, <1>7 DEF GNext

\* The invariant of the room.
THEOREM RoomInvariance == GSpec => []GInv
<1>1. GInit => GInv
  <2> SUFFICES ASSUME GInit PROVE GInv
    OBVIOUS
  <2>1. RosterInv
    BY InitRoster
  <2> QED
    BY <2>1 DEF GInit, GInv, LobbyInv, RowFollowsPlay, EmptyLobbyClosed
<1>2. GInv /\ [GNext]_gvars => GInv'
  <2> SUFFICES ASSUME GInv, [GNext]_gvars PROVE GInv'
    OBVIOUS
  <2>1. CASE UNCHANGED gvars
    BY <2>1, RefuseRoster DEF gvars, GInv, LobbyInv, RowFollowsPlay, EmptyLobbyClosed
  <2>2. CASE GNext
    <3>1. RosterInv'
      BY <2>2, JoinRoster, LeaveRoster, PlayRoster DEF GNext, GInv
    <3> QED
      BY <2>2, <3>1, LobbyStep DEF GInv
  <2> QED
    BY <2>1, <2>2
<1> QED
  BY <1>1, <1>2, PTL DEF GSpec

\* A room with players has an owner among them (game_actor.go:158-161, 224-233).
THEOREM RoomOwned == GSpec => []OwnerIsMember
<1>1. GInv => OwnerIsMember
  BY DEF GInv, RosterInv, LobbyInv
<1> QED
  BY <1>1, RoomInvariance, PTL

\* The room never exceeds its capacity (game_actor.go:141-146).
THEOREM RoomCapacity == GSpec => []WithinCapacity
<1>1. GInv => WithinCapacity
  BY DEF GInv, RosterInv, LobbyInv
<1> QED
  BY <1>1, RoomInvariance, PTL

\* The script knows the room but for what its last failed hook was about, and no hook
\* contradicts it (game_actor.go:133-384).
THEOREM RoomScript == GSpec => []ScriptProtocol
<1>1. GInv => ScriptProtocol
  BY DEF GInv, RosterInv, LobbyInv
<1> QED
  BY <1>1, RoomInvariance, PTL

\* A room whose last player left between games is closed, unless a Destroy of its engine
\* panicked (game_actor.go:229-238, 374-381).
THEOREM EmptyLobby == GSpec => []EmptyLobbyClosed
<1>1. GInv => EmptyLobbyClosed
  BY DEF GInv, RosterInv, LobbyInv
<1> QED
  BY <1>1, RoomInvariance, PTL

\* Nobody enters during a game (game_actor.go:134-139).
THEOREM RoomFrozen == GSpec => RosterFrozen
<1>1. [GNext]_gvars => [isPlaying /\ isPlaying' => players' \subseteq players]_gvars
  BY DEF GNext, gvars, HandleJoin, HandleLeave, HandleReady, HandleAction, HandleStart,
         HandleTick, HandleTimer, HandleShutdown, Refuse
<1> QED
  BY <1>1, PTL DEF GSpec, RosterFrozen

\* Every handler is a step of the abstract room, or one that the abstract room does not see
\* (game_actor.go:133-384).
LEMMA HandlersImplement ==
  ASSUME RosterInv
  PROVE  /\ \A p \in Players : HandleJoin(p) \/ HandleLeave(p) \/ HandleReady(p) \/ HandleAction(p)
                                 => [AsRoom!RoomNext]_(AsRoom!roomVars)
         /\ HandleStart \/ HandleTick \/ HandleTimer \/ HandleShutdown
              => [AsRoom!RoomNext]_(AsRoom!roomVars)
<1>1. Refuse => UNCHANGED AsRoom!roomVars
  BY DEF Refuse, gvars, AsRoom!roomVars
<1>2. ASSUME NEW p \in Players, HandleJoin(p), ~Refuse PROVE AsRoom!Enter(p)
  <2>1. /\ ~isPlaying /\ p \notin players /\ Cardinality(players) < MaxPlayers
        /\ players' = players \union {p}
        /\ owner' = IF players = {} THEN p ELSE owner
        /\ UNCHANGED <<isPlaying, engine, status>>
    BY <1>2 DEF HandleJoin
  <2>2. Cardinality(players) = AsRoom!Cardinality(players)
    BY DEF Cardinality, AsRoom!Cardinality
  <2> QED
    BY <2>1, <2>2 DEF AsRoom!Enter
<1>3. ASSUME NEW p \in Players, HandleLeave(p), ~Refuse PROVE AsRoom!Depart(p)
  BY <1>3 DEF HandleLeave, AsRoom!Depart
<1>4. ASSUME NEW p \in Players, HandleReady(p) \/ HandleAction(p), ~Refuse
      PROVE  UNCHANGED AsRoom!roomVars
  BY <1>4 DEF HandleReady, HandleAction, AsRoom!roomVars
<1>5. HandleTick \/ HandleTimer => UNCHANGED AsRoom!roomVars
  BY <1>1 DEF HandleTick, HandleTimer, AsRoom!roomVars
<1>6. HandleStart /\ ~Refuse => AsRoom!Begin
  BY DEF HandleStart, AsRoom!Begin
<1>7. HandleShutdown => AsRoom!Close \/ AsRoom!Falter
  <2> SUFFICES ASSUME HandleShutdown PROVE AsRoom!Close \/ AsRoom!Falter
    OBVIOUS
  <2>1. CASE interval'
    <3>1. engine' = "broken" /\ isPlaying' = FALSE /\ UNCHANGED <<players, owner, status>>
      BY <2>1 DEF HandleShutdown
    <3> QED
      BY <3>1 DEF AsRoom!Falter
  <2>2. CASE ~interval'
    <3>1. engine' = "destroyed" /\ isPlaying' = FALSE /\ status' = "closed"
          /\ UNCHANGED <<players, owner>>
      BY <2>2 DEF HandleShutdown
    <3>2. engine # "broken"
      BY <2>2 DEF HandleShutdown, Ended, Hook, RosterInv, EngineInv, GTypeOK
    <3> QED
      BY <3>1, <3>2 DEF AsRoom!Close
  <2> QED
    BY <2>1, <2>2
<1> QED
  BY <1>1, <1>2, <1>3, <1>4, <1>5, <1>6, <1>7 DEF AsRoom!RoomNext

\* The actor alone implements the abstract room.
THEOREM ActorImplementsRoom == GSpec => ImplementsRoom
<1>1. GInit => AsRoom!RoomInit
  BY DEF GInit, AsRoom!RoomInit
<1>2. GInv /\ [GNext]_gvars => [AsRoom!RoomNext]_(AsRoom!roomVars)
  <2> SUFFICES ASSUME GInv, [GNext]_gvars PROVE [AsRoom!RoomNext]_(AsRoom!roomVars)
    OBVIOUS
  <2>1. CASE UNCHANGED gvars
    BY <2>1 DEF gvars, AsRoom!roomVars
  <2>2. CASE GNext
    BY <2>2, HandlersImplement DEF GNext, GInv
  <2> QED
    BY <2>1, <2>2
<1> QED
  BY <1>1, <1>2, RoomInvariance, PTL DEF GSpec, ImplementsRoom, AsRoom!RoomSpec

------------------------------------------------------------------------------
(* The room behind the service.                                             *)

HasStart(s) == \E i \in 1..Len(s) : s[i].type = "start"
HasJoin(s, p) == \E i \in 1..Len(s) : s[i].type = "join" /\ s[i].p = p

\* Whoever sends appends at most the one message, and only to a flagged actor.
Sends(m) == inbox' = inbox \/ (Flagged /\ inbox' = Append(inbox, m))

LEMMA SendToSends ==
  ASSUME NEW m, SendTo(m)
  PROVE  Sends(m) /\ (inbox' # inbox => Accepts)
BY DEF SendTo, Sends, Accepts

LEMMA Sent ==
  ASSUME inbox \in Seq(Messages), Len(inbox) <= InboxCap, NEW m \in Messages, Sends(m)
  PROVE  /\ inbox' \in Seq(Messages) /\ Len(inbox') <= InboxCap
         /\ HasStart(inbox') => HasStart(inbox) \/ (inbox' # inbox /\ m.type = "start")
         /\ \A p : HasJoin(inbox', p) =>
              HasJoin(inbox, p) \/ (inbox' # inbox /\ m.type = "join" /\ m.p = p)
<1>1. CASE inbox' # inbox
  <2>1. inbox' = Append(inbox, m) /\ Len(inbox) < InboxCap
    BY <1>1 DEF Sends, Flagged
  <2>2. /\ inbox' \in Seq(Messages) /\ Len(inbox') = Len(inbox) + 1
        /\ inbox'[Len(inbox) + 1] = m
        /\ \A i \in 1..Len(inbox) : inbox'[i] = inbox[i]
    BY <2>1
  <2>3. Len(inbox) \in Nat
    OBVIOUS
  <2> HIDE DEF Messages
  <2>4. Len(inbox') <= InboxCap
    BY <2>1, <2>2, <2>3, InboxCapAssumption
  <2>5. HasStart(inbox') => HasStart(inbox) \/ m.type = "start"
    BY <2>2, <2>3 DEF HasStart
  <2>6. ASSUME NEW p, HasJoin(inbox', p) PROVE HasJoin(inbox, p) \/ (m.type = "join" /\ m.p = p)
    BY <2>2, <2>3, <2>6 DEF HasJoin
  <2> QED
    BY <1>1, <2>2, <2>4, <2>5, <2>6
<1>2. CASE inbox' = inbox
  BY <1>2
<1> QED
  BY <1>1, <1>2

\* The actor takes the head and leaves the rest.
LEMMA Taken ==
  ASSUME inbox \in Seq(Messages), Len(inbox) <= InboxCap, inbox # <<>>, inbox' = Tail(inbox)
  PROVE  /\ inbox' \in Seq(Messages) /\ Len(inbox') <= InboxCap /\ Head(inbox) \in Messages
         /\ HasStart(inbox') => HasStart(inbox)
         /\ Head(inbox).type = "start" => HasStart(inbox)
         /\ \A p : HasJoin(inbox', p) => HasJoin(inbox, p)
         /\ Head(inbox).type = "join" => HasJoin(inbox, Head(inbox).p)
<1>1. /\ inbox' \in Seq(Messages) /\ Len(inbox') = Len(inbox) - 1
      /\ Head(inbox) \in Messages /\ Head(inbox) = inbox[1]
      /\ \A i \in 1..Len(inbox') : inbox'[i] = inbox[i + 1]
  OBVIOUS
<1>2. Len(inbox) \in Nat \ {0}
  OBVIOUS
<1> HIDE DEF Messages
<1>3. /\ HasStart(inbox') => HasStart(inbox)
      /\ Head(inbox).type = "start" => HasStart(inbox)
  BY <1>1, <1>2 DEF HasStart
<1>4. ASSUME NEW p, HasJoin(inbox', p) PROVE HasJoin(inbox, p)
  BY <1>1, <1>2, <1>4 DEF HasJoin
<1>5. Head(inbox).type = "join" => HasJoin(inbox, Head(inbox).p)
  BY <1>1, <1>2 DEF HasJoin
<1> QED
  BY <1>1, <1>2, <1>3, <1>4, <1>5, InboxCapAssumption

\* What a handler does to the row and the game: a game goes with its row, only a start
\* begins one, and only a join lets somebody in.
LEMMA HandlerEffect ==
  ASSUME NEW m \in Messages, Handle(m), RTypeOK
  PROVE  /\ (isPlaying => status = "playing") => (isPlaying => status = "playing")'
         /\ (status = "playing" => isPlaying \/ engine = "broken")
              => (status = "playing" => isPlaying \/ engine = "broken")'
         /\ isPlaying' => isPlaying \/ m.type = "start"
         /\ \A p \in players' : p \in players \/ (m.type = "join" /\ m.p = p)
<1>1. CASE m.type = "join" /\ HandleJoin(m.p)
  BY <1>1 DEF HandleJoin, Refuse, gvars
<1>2. CASE m.type = "leave" /\ HandleLeave(m.p)
  BY <1>2 DEF HandleLeave, Refuse, gvars
<1>3. CASE m.type = "ready" /\ HandleReady(m.p)
  BY <1>3 DEF HandleReady, Refuse, gvars
<1>4. CASE m.type = "action" /\ HandleAction(m.p)
  BY <1>4 DEF HandleAction, Refuse, gvars
<1>5. CASE m.type = "start" /\ HandleStart
  <2>1. CASE isPlaying
    BY <1>5, <2>1 DEF HandleStart, Refuse, gvars
  <2>2. CASE ~isPlaying
    <3>1. isPlaying' /\ status' = "playing" /\ players' = players
      BY <1>5, <2>2 DEF HandleStart
    <3> QED
      BY <1>5, <3>1
  <2> QED
    BY <2>1, <2>2
<1>6. CASE m.type = "timer" /\ HandleTimer
  BY <1>6 DEF HandleTimer
<1>7. CASE m.type = "shutdown" /\ HandleShutdown
  <2>1. /\ isPlaying' = FALSE /\ players' = players
        /\ engine' = "broken" \/ status' = "closed"
    BY <1>7 DEF HandleShutdown
  <2> QED
    BY <2>1
<1> QED
  BY <1>1, <1>2, <1>3, <1>4, <1>5, <1>6, <1>7 DEF Handle

\* A message leaves the room sound.
LEMMA HandlerRoster ==
  ASSUME NEW m \in Messages, Handle(m), RosterInv
  PROVE  RosterInv'
<1>1. m.type \in {"join", "leave", "ready", "action"} => m.p \in Players
  BY DEF Messages
<1> QED
  BY <1>1, JoinRoster, LeaveRoster, PlayRoster DEF Handle

\* A room without a row satisfies the invariant.
LEMMA RInitRInv == RInit => RInv
<1> SUFFICES ASSUME RInit PROVE RInv
  OBVIOUS
<1>1. RosterInv /\ GTypeOK
  BY InitRoster DEF RInit, RosterInv
<1>2. <<>> \in Seq(Messages) /\ Len(<<>>) = 0 /\ 0 <= InboxCap
  BY InboxCapAssumption
<1>3. RTypeOK
  BY <1>1, <1>2 DEF RInit, GInit, RTypeOK, Steps, Idle, RowExists
<1> QED
  BY <1>1, <1>2, <1>3 DEF RInit, GInit, RInv, RowTracksActor, PlayingRowHasGame,
                    SessionCoversGame, MembersAreRecorded, StartIsCovered, JoinsAreRecorded,
                    UntouchedBeforeStart, Idle

\* A request that is not at its record moves on: whoever else was, still is.
LEMMA RequestsStay ==
  ASSUME req \in [Requests -> Steps], NEW r \in Requests, NEW step \in Steps, Goto(r, step)
  PROVE  /\ req' \in [Requests -> Steps]
         /\ req[r].op # "startRecord" /\ Starting => Starting'
         /\ \A p : Recording(p) => Recording(p)' \/ req[r] = Doing("joinRecord", p)
<1>1. req' \in [Requests -> Steps] /\ \A q \in Requests : q # r => req'[q] = req[q]
  BY DEF Goto
<1>2. ASSUME req[r].op # "startRecord", Starting PROVE Starting'
  <2>1. PICK q \in Requests : req[q].op = "startRecord"
    BY <1>2 DEF Starting
  <2> QED
    BY <1>1, <1>2, <2>1 DEF Starting
<1>3. ASSUME NEW p, Recording(p) PROVE Recording(p)' \/ req[r] = Doing("joinRecord", p)
  <2>1. PICK q \in Requests : req[q] = Doing("joinRecord", p)
    BY <1>3 DEF Recording
  <2> QED
    BY <1>1, <2>1 DEF Recording
<1> QED
  BY <1>1, <1>2, <1>3

\* The conjuncts about games and players, for a step that leaves the room alone: what is
\* in the inbox or in the room stays covered if the requests and the records see to it.
LEMMA CoverStays ==
  ASSUME RInv, UNCHANGED <<players, isPlaying>>,
         session \/ Starting => session' \/ Starting',
         \A p \in Players : Accounted(p) => Accounted(p)',
         HasStart(inbox') => HasStart(inbox) \/ session' \/ Starting',
         \A p \in Players : HasJoin(inbox', p) => HasJoin(inbox, p) \/ Accounted(p)',
         inbox \in Seq(Messages), inbox' \in Seq(Messages)
  PROVE  SessionCoversGame' /\ MembersAreRecorded' /\ StartIsCovered' /\ JoinsAreRecorded'
<1>1. SessionCoversGame' /\ StartIsCovered'
  BY DEF RInv, SessionCoversGame, StartIsCovered, HasStart
<1>2. MembersAreRecorded'
  BY DEF RInv, MembersAreRecorded, RTypeOK, GTypeOK
<1>3. JoinsAreRecorded'
  <2>1. ASSUME NEW i \in 1..Len(inbox'), NEW p, inbox'[i].type = "join", inbox'[i].p = p
        PROVE  Accounted(p)'
    <3>1. inbox'[i] \in Messages
      OBVIOUS
    <3>2. p \in Players
      BY <2>1, <3>1 DEF Messages
    <3>3. HasJoin(inbox', p)
      BY <2>1 DEF HasJoin
    <3>4. HasJoin(inbox, p) => Accounted(p)
      BY DEF HasJoin, RInv, JoinsAreRecorded
    <3> QED
      BY <3>2, <3>3, <3>4
  <2> QED
    BY <2>1 DEF JoinsAreRecorded, Accounted, Recording
<1> QED
  BY <1>1, <1>2, <1>3

\* A request, a player's WebSocket or a timer sends the actor a message.
LEMMA SendRInv ==
  ASSUME RInv, NEW m \in Messages, Sends(m),
         UNCHANGED <<gvars, creating, creator, actorVars, dbVars, restarts>>,
         \/ UNCHANGED req
         \/ \E r \in Requests, step \in Steps :
              Goto(r, step) /\ req[r].op \notin {"startRecord", "joinRecord"},
         inbox' # inbox /\ m.type = "start" => session \/ Starting',
         inbox' # inbox /\ m.type = "join" => Accounted(m.p)'
  PROVE  RInv'
<1> USE DEF RInv, gvars, actorVars, dbVars
<1>1. /\ inbox' \in Seq(Messages) /\ Len(inbox') <= InboxCap
      /\ HasStart(inbox') => HasStart(inbox) \/ (inbox' # inbox /\ m.type = "start")
      /\ \A p : HasJoin(inbox', p) =>
           HasJoin(inbox, p) \/ (inbox' # inbox /\ m.type = "join" /\ m.p = p)
  BY Sent DEF RTypeOK
<1>2. /\ req' \in [Requests -> Steps] /\ (Starting => Starting')
      /\ \A p : Recording(p) => Recording(p)'
  <2>1. CASE UNCHANGED req
    BY <2>1 DEF RTypeOK, Starting, Recording
  <2>2. ASSUME NEW r \in Requests, NEW step \in Steps, Goto(r, step),
               req[r].op \notin {"startRecord", "joinRecord"}
        PROVE  /\ req' \in [Requests -> Steps] /\ (Starting => Starting')
               /\ \A p : Recording(p) => Recording(p)'
    <3>1. \A p : req[r] # Doing("joinRecord", p)
      BY <2>2 DEF Doing
    <3> QED
      BY <2>2, <3>1, RequestsStay DEF RTypeOK
  <2> QED
    BY <2>1, <2>2
<1>3. RTypeOK'
  BY <1>1, <1>2 DEF RTypeOK, GTypeOK, RowExists
<1>4. \A p \in Players : Accounted(p) => Accounted(p)'
  BY <1>2 DEF Accounted
<1>5. SessionCoversGame' /\ MembersAreRecorded' /\ StartIsCovered' /\ JoinsAreRecorded'
  <2>1. UNCHANGED <<players, isPlaying>> /\ (session \/ Starting => session' \/ Starting')
    BY <1>2
  <2>2. HasStart(inbox') => HasStart(inbox) \/ session' \/ Starting'
    BY <1>1
  <2>3. \A p \in Players : HasJoin(inbox', p) => HasJoin(inbox, p) \/ Accounted(p)'
    BY <1>1
  <2> HIDE DEF RInv
  <2>4. inbox \in Seq(Messages)
    BY DEF RInv, RTypeOK
  <2> QED
    BY <1>1, <1>4, <2>1, <2>2, <2>3, <2>4, CoverStays
<1>6. UntouchedBeforeStart'
  BY DEF UntouchedBeforeStart, Sends, Flagged
<1>7. RosterInv'
  BY RefuseRoster
<1> QED
  BY <1>3, <1>5, <1>6, <1>7 DEF RowTracksActor, PlayingRowHasGame

\* CreateRoom.
LEMMA CreateRInv ==
  ASSUME RInv, \/ \E p \in Players : CreateRow(p)
               \/ CreateStore \/ CreateStart \/ CreateSend
  PROVE  RInv'
<1>1. CASE \/ \E p \in Players : CreateRow(p)
           \/ CreateStore \/ CreateStart
  <2>1. UNCHANGED <<gvars, inbox, req, dbVars, restarts, shutdown, cancelled>>
    BY <1>1 DEF CreateRow, CreateStore, CreateStart, actorVars
  <2>2. RTypeOK'
    <3>1. /\ creating' \in {"store", "start", "send"} /\ creator' \in Players
          /\ actor' \in {"none", "stored", "running"} /\ reachable' \in BOOLEAN
      <4>1. ASSUME NEW p \in Players, CreateRow(p)
            PROVE  creating' = "store" /\ creator' = p /\ UNCHANGED <<actor, reachable>>
        BY <4>1 DEF CreateRow, actorVars
      <4>2. CASE CreateStore \/ CreateStart
        <5>1. creator' = creator /\ creator \in Players
          BY <4>2 DEF CreateStore, CreateStart, RInv, RTypeOK, RowExists
        <5> QED
          BY <4>2, <5>1 DEF CreateStore, CreateStart, RInv, RTypeOK
      <4>3. actor \in {"none", "stored", "running", "drained", "stopped"} /\ reachable \in BOOLEAN
        BY DEF RInv, RTypeOK
      <4>4. ASSUME NEW p \in Players, CreateRow(p) PROVE actor \in {"none", "stored"}
        BY <4>4 DEF CreateRow, RInv, UntouchedBeforeStart
      <4> QED
        BY <1>1, <4>1, <4>2, <4>3, <4>4
    <3>2. creator' # NoOne /\ creating' # "row"
      BY <3>1, PlayersAssumption
    <3> QED
      BY <2>1, <3>1, <3>2 DEF RInv, RTypeOK, GTypeOK, RowExists, gvars, dbVars
  <2>3. RowTracksActor' /\ PlayingRowHasGame' /\ UntouchedBeforeStart'
    BY <1>1, <2>1
       DEF RInv, RTypeOK, GTypeOK, RowTracksActor, PlayingRowHasGame, UntouchedBeforeStart,
           gvars, dbVars, actorVars, CreateRow, CreateStore, CreateStart
  <2>4. \A p \in Players : Accounted(p) => Accounted(p)'
    <3>1. creator' = creator \/ creator = NoOne
      BY <1>1 DEF CreateRow, CreateStore, CreateStart, RInv, RTypeOK, RowExists
    <3> QED
      BY <2>1, <3>1, PlayersAssumption DEF Accounted, Recording, dbVars
  <2>5. SessionCoversGame' /\ MembersAreRecorded' /\ StartIsCovered' /\ JoinsAreRecorded'
    <3>1. /\ UNCHANGED <<players, isPlaying, inbox>> /\ inbox \in Seq(Messages)
          /\ session \/ Starting => session' \/ Starting'
      BY <2>1 DEF gvars, dbVars, Starting, RInv, RTypeOK
    <3> QED
      BY <2>4, <3>1, CoverStays
  <2>6. RosterInv'
    BY <2>1, RefuseRoster DEF RInv
  <2> QED
    BY <2>2, <2>3, <2>5, <2>6 DEF RInv
<1>2. CASE CreateSend
  <2>1. PICK p \in Players : p = creator
    BY <1>2 DEF CreateSend, RInv, RTypeOK, RowExists
  <2> DEFINE m == Msg("join", p)
  <2>2. /\ SendTo(m) /\ creating = "send" /\ creating' = "done"
        /\ UNCHANGED <<gvars, creator, actorVars, req, dbVars, restarts>>
    BY <1>2, <2>1 DEF CreateSend
  <2>3. m \in Messages /\ m.type = "join" /\ m.p = p
    BY DEF Msg, Messages
  <2> HIDE DEF m
  <2>4. /\ inbox' \in Seq(Messages) /\ Len(inbox') <= InboxCap
        /\ HasStart(inbox') => HasStart(inbox)
        /\ \A q : HasJoin(inbox', q) => HasJoin(inbox, q) \/ q = p
    BY <2>2, <2>3, Sent, SendToSends DEF RInv, RTypeOK
  <2>5. RTypeOK'
    BY <2>2, <2>4 DEF RInv, RTypeOK, GTypeOK, RowExists, gvars, dbVars, actorVars
  <2>6. /\ \A q \in Players : Accounted(q) => Accounted(q)'
        /\ Accounted(p)'
    BY <2>1, <2>2 DEF Accounted, Recording, dbVars
  <2>7. SessionCoversGame' /\ MembersAreRecorded' /\ StartIsCovered' /\ JoinsAreRecorded'
    <3>1. /\ UNCHANGED <<players, isPlaying>> /\ inbox \in Seq(Messages)
          /\ session \/ Starting => session' \/ Starting'
      BY <2>2 DEF gvars, dbVars, Starting, RInv, RTypeOK
    <3> QED
      BY <2>4, <2>6, <3>1, CoverStays
  <2>8. RosterInv'
    BY <2>2, RefuseRoster DEF RInv
  <2> QED
    BY <2>2, <2>5, <2>7, <2>8
       DEF RInv, RowTracksActor, PlayingRowHasGame, UntouchedBeforeStart, gvars, dbVars, actorVars
<1> QED
  BY <1>1, <1>2

\* The reads and sends of the requests.
LEMMA RequestRInv ==
  ASSUME RInv, \/ \E r \in Requests, p \in Players : JoinRead(r, p) \/ LeaveSend(r, p)
               \/ \E r \in Requests : JoinSend(r) \/ StartSend(r) \/ CloseSend(r)
               \/ \E p \in Players : HandlePlayerAction(p)
               \/ \E type \in {"ready", "action"}, p \in Players : RouteWSMessage(type, p)
               \/ TimerSend
  PROVE  RInv'
<1>0. /\ Idle \in Steps /\ Idle.op = "idle"
      /\ \A op \in {"joinSend", "joinRecord", "leaveRecord"}, p \in Players : Doing(op, p) \in Steps
      /\ \A op \in {"startRecord", "closeRecord"} : Doing(op, NoOne) \in Steps
      /\ \A op, p : Doing(op, p).op = op
      /\ \A type \in {"join", "leave", "ready", "action"}, p \in Players : Msg(type, p) \in Messages
      /\ \A type \in {"start", "shutdown", "timer"} : Msg(type, NoOne) \in Messages
      /\ \A type, p : Msg(type, p).type = type /\ Msg(type, p).p = p
  BY DEF Idle, Doing, Msg, Steps, Messages
<1>1. ASSUME NEW r \in Requests, NEW p \in Players, JoinRead(r, p) PROVE RInv'
  <2>1. /\ Goto(r, Doing("joinSend", p)) /\ req[r].op = "idle"
        /\ UNCHANGED <<gvars, creating, creator, actorVars, inbox, dbVars, restarts>>
    BY <1>0, <1>1 DEF JoinRead
  <2>2. Doing("joinSend", p) \in Steps /\ req[r].op \notin {"startRecord", "joinRecord"}
    BY <1>0, <2>1
  <2>3. PICK m \in Messages : m.type = "shutdown"
    BY <1>0
  <2>4. Sends(m) /\ inbox' = inbox
    BY <2>1 DEF Sends
  <2> QED
    BY <2>1, <2>2, <2>3, <2>4, SendRInv
<1>2. ASSUME NEW r \in Requests, NEW p \in Players, LeaveSend(r, p) PROVE RInv'
  <2>1. /\ Msg("leave", p) \in Messages /\ Msg("leave", p).type = "leave"
        /\ Doing("leaveRecord", p) \in Steps /\ Goto(r, Doing("leaveRecord", p))
        /\ req[r].op \notin {"startRecord", "joinRecord"}
        /\ Sends(Msg("leave", p))
        /\ UNCHANGED <<gvars, creating, creator, actorVars, dbVars, restarts>>
    BY <1>0, <1>2, SendToSends DEF LeaveSend
  <2> QED
    BY <2>1, SendRInv
<1>3. ASSUME NEW r \in Requests, JoinSend(r) PROVE RInv'
  <2>1. PICK p \in Players : req[r].p = p
    BY <1>3 DEF JoinSend, RInv, RTypeOK, Steps
  <2>2. /\ Msg("join", p) \in Messages /\ Msg("join", p).type = "join" /\ Msg("join", p).p = p
        /\ SendTo(Msg("join", p)) /\ Sends(Msg("join", p)) /\ (inbox' # inbox => Accepts)
        /\ req[r].op \notin {"startRecord", "joinRecord"}
        /\ UNCHANGED <<gvars, creating, creator, actorVars, dbVars, restarts>>
    BY <1>0, <1>3, <2>1, SendToSends DEF JoinSend
  <2>3. CASE Accepts
    <3>1. Goto(r, Doing("joinRecord", p)) /\ Doing("joinRecord", p) \in Steps
      BY <1>0, <1>3, <2>1, <2>3 DEF JoinSend
    <3>2. Accounted(p)'
      BY <3>1 DEF Accounted, Recording, Goto, RInv, RTypeOK
    <3> QED
      BY <2>2, <3>1, <3>2, SendRInv
  <2>4. CASE ~Accepts
    <3>1. Goto(r, Idle) /\ Idle \in Steps
      BY <1>0, <1>3, <2>4 DEF JoinSend
    <3> QED
      BY <2>2, <2>4, <3>1, SendRInv
  <2> QED
    BY <2>3, <2>4
<1>4. ASSUME NEW r \in Requests, StartSend(r) PROVE RInv'
  <2>1. /\ Msg("start", NoOne) \in Messages /\ Msg("start", NoOne).type = "start"
        /\ Doing("startRecord", NoOne) \in Steps /\ Goto(r, Doing("startRecord", NoOne))
        /\ req[r].op \notin {"startRecord", "joinRecord"}
        /\ Sends(Msg("start", NoOne))
        /\ UNCHANGED <<gvars, creating, creator, actorVars, dbVars, restarts>>
    BY <1>0, <1>4, SendToSends DEF StartSend
  <2>2. Starting'
    BY <1>0, <2>1 DEF Goto, Starting, RInv, RTypeOK
  <2> QED
    BY <2>1, <2>2, SendRInv
<1>5. ASSUME NEW r \in Requests, CloseSend(r) PROVE RInv'
  <2>1. /\ Msg("shutdown", NoOne) \in Messages /\ Msg("shutdown", NoOne).type = "shutdown"
        /\ Doing("closeRecord", NoOne) \in Steps /\ Goto(r, Doing("closeRecord", NoOne))
        /\ req[r].op \notin {"startRecord", "joinRecord"}
        /\ Sends(Msg("shutdown", NoOne))
        /\ UNCHANGED <<gvars, creating, creator, actorVars, dbVars, restarts>>
    BY <1>0, <1>5, SendToSends DEF CloseSend
  <2> QED
    BY <2>1, SendRInv
<1>6. ASSUME NEW type \in {"ready", "action"}, NEW p \in Players, PlayerSend(type, p) PROVE RInv'
  <2>1. /\ Msg(type, p) \in Messages /\ Msg(type, p).type \in {"ready", "action"}
        /\ Sends(Msg(type, p))
        /\ UNCHANGED <<gvars, creating, creator, actorVars, req, dbVars, restarts>>
    BY <1>0, <1>6, SendToSends DEF PlayerSend
  <2> QED
    BY <2>1, SendRInv
<1>7. CASE TimerSend
  <2>1. /\ Msg("timer", NoOne) \in Messages /\ Msg("timer", NoOne).type = "timer"
        /\ Sends(Msg("timer", NoOne))
        /\ UNCHANGED <<gvars, creating, creator, actorVars, req, dbVars, restarts>>
    BY <1>0, <1>7 DEF TimerSend, Sends
  <2> QED
    BY <2>1, SendRInv
<1> QED
  BY <1>1, <1>2, <1>3, <1>4, <1>5, <1>6, <1>7 DEF HandlePlayerAction, RouteWSMessage

\* The records: whoever's record is written was about to have it, whoever loses it has left.
LEMMA RecordRInv ==
  ASSUME RInv, NEW r \in Requests,
         JoinRecord(r) \/ LeaveRecord(r) \/ StartRecord(r) \/ CloseRecord(r)
  PROVE  RInv'
<1>1. Idle \in Steps
  BY DEF Idle, Steps
<1>2. /\ Goto(r, Idle) /\ req \in [Requests -> Steps] /\ req' \in [Requests -> Steps]
      /\ UNCHANGED <<players, ready, owner, isPlaying, engine, interval, script, used>>
      /\ UNCHANGED <<creating, creator, actorVars, inbox, restarts>>
  BY <1>1 DEF JoinRecord, LeaveRecord, StartRecord, CloseRecord, RInv, RTypeOK, Goto, gvars
<1>3. session \/ Starting => session' \/ Starting'
  <2>1. CASE StartRecord(r)
    BY <2>1 DEF StartRecord
  <2>2. CASE JoinRecord(r) \/ LeaveRecord(r) \/ CloseRecord(r)
    <3>1. session' = session /\ req[r].op # "startRecord"
      BY <2>2 DEF JoinRecord, LeaveRecord, CloseRecord
    <3> QED
      BY <1>1, <1>2, <3>1, RequestsStay
  <2> QED
    BY <2>1, <2>2
<1>4. ASSUME NEW p \in Players, Accounted(p) PROVE Accounted(p)'
  <2>1. creator' = creator /\ (Recording(p) => Recording(p)' \/ req[r] = Doing("joinRecord", p))
    BY <1>1, <1>2, RequestsStay
  <2>2. req[r] = Doing("joinRecord", p) => p \in recorded'
    BY DEF JoinRecord, LeaveRecord, StartRecord, CloseRecord, Doing
  <2>3. p \in recorded \union left => p \in recorded' \union left'
    BY DEF JoinRecord, LeaveRecord, StartRecord, CloseRecord
  <2> QED
    BY <1>4, <2>1, <2>2, <2>3 DEF Accounted
<1>5. SessionCoversGame' /\ MembersAreRecorded' /\ StartIsCovered' /\ JoinsAreRecorded'
  <2>1. UNCHANGED <<players, isPlaying, inbox>> /\ inbox \in Seq(Messages)
    BY <1>2 DEF RInv, RTypeOK
  <2> QED
    BY <1>3, <1>4, <2>1, CoverStays
<1>6. RosterInv'
  <2>1. status' \in {"waiting", "playing", "closed"}
    BY DEF JoinRecord, LeaveRecord, StartRecord, CloseRecord, RInv, RTypeOK, GTypeOK, gvars
  <2> QED
    BY <1>2, <2>1, SameRoster DEF RInv
<1>7. \/ UNCHANGED <<status, closed>>
      \/ status' = "closed" /\ closed' = TRUE
  BY DEF JoinRecord, LeaveRecord, StartRecord, CloseRecord, gvars
<1>8. RTypeOK'
  <2>1. /\ recorded' \subseteq Players /\ left' \subseteq Players /\ session' \in BOOLEAN
        /\ closed' \in BOOLEAN
    BY DEF JoinRecord, LeaveRecord, StartRecord, CloseRecord, RInv, RTypeOK, Steps
  <2>2. GTypeOK'
    BY <1>6 DEF RosterInv
  <2> QED
    BY <1>2, <2>1, <2>2 DEF RInv, RTypeOK, RowExists, actorVars
<1>9. RowTracksActor' /\ PlayingRowHasGame' /\ UntouchedBeforeStart'
  BY <1>2, <1>7 DEF RInv, RowTracksActor, PlayingRowHasGame, UntouchedBeforeStart, actorVars
<1> QED
  BY <1>5, <1>6, <1>8, <1>9 DEF RInv

\* The actor handles a message.
LEMMA ActorRInv == RInv /\ ActorStep => RInv'
<1> SUFFICES ASSUME RInv, ActorStep PROVE RInv'
  OBVIOUS
<1>0. PICK m : m = Head(inbox)
  OBVIOUS
<1>1. /\ actor = "running" /\ inbox # <<>> /\ inbox' = Tail(inbox) /\ Handle(m)
      /\ UNCHANGED <<creating, creator, actorVars, req, dbVars, restarts>>
  BY <1>0 DEF ActorStep
<1>2. /\ inbox' \in Seq(Messages) /\ Len(inbox') <= InboxCap /\ m \in Messages
      /\ HasStart(inbox') => HasStart(inbox)
      /\ m.type = "start" => HasStart(inbox)
      /\ \A p : HasJoin(inbox', p) => HasJoin(inbox, p)
      /\ m.type = "join" => HasJoin(inbox, m.p)
  BY <1>0, <1>1, Taken DEF RInv, RTypeOK
<1>3. RTypeOK' /\ RosterInv'
  <2>1. RosterInv'
    BY <1>1, <1>2, HandlerRoster DEF RInv
  <2>2. GTypeOK'
    BY <2>1 DEF RosterInv
  <2> QED
    BY <1>1, <1>2, <2>1, <2>2 DEF RInv, RTypeOK, RowExists, actorVars, dbVars
<1>4. /\ (isPlaying => status = "playing") => (isPlaying => status = "playing")'
      /\ (status = "playing" => isPlaying \/ engine = "broken")
           => (status = "playing" => isPlaying \/ engine = "broken")'
      /\ isPlaying' => isPlaying \/ m.type = "start"
      /\ \A p \in players' : p \in players \/ (m.type = "join" /\ m.p = p)
  BY <1>1, <1>2, HandlerEffect DEF RInv
<1>5. RowTracksActor' /\ PlayingRowHasGame'
  BY <1>1, <1>4 DEF RInv, RowTracksActor, PlayingRowHasGame, actorVars, dbVars
<1>6. SessionCoversGame' /\ StartIsCovered'
  BY <1>1, <1>2, <1>4 DEF RInv, SessionCoversGame, StartIsCovered, HasStart, Starting, dbVars
<1>7. \A p : HasJoin(inbox, p) => Accounted(p)
  BY DEF RInv, JoinsAreRecorded, HasJoin
<1>8. \A p : Accounted(p) => Accounted(p)'
  BY <1>1 DEF Accounted, Recording, dbVars
<1>9. MembersAreRecorded'
  <2>1. ASSUME NEW p \in players' PROVE Accounted(p)'
    BY <1>2, <1>4, <1>7, <1>8 DEF RInv, MembersAreRecorded
  <2> QED
    BY <2>1 DEF MembersAreRecorded, Accounted, Recording
<1>10. JoinsAreRecorded'
  <2>1. ASSUME NEW i \in 1..Len(inbox'), NEW p, inbox'[i].type = "join", inbox'[i].p = p
        PROVE  Accounted(p)'
    <3>1. HasJoin(inbox', p)
      BY <2>1 DEF HasJoin
    <3> QED
      BY <1>2, <1>7, <1>8, <3>1
  <2> QED
    BY <2>1 DEF JoinsAreRecorded, Accounted, Recording
<1>11. UntouchedBeforeStart'
  BY <1>1 DEF RInv, UntouchedBeforeStart, actorVars
<1> QED
  BY <1>3, <1>5, <1>6, <1>9, <1>10, <1>11 DEF RInv

\* The shutdown of the actor system, and the actor's leaving, touch neither room nor row,
\* neither inbox nor requests.
LEMMA ShutdownRInv ==
  ASSUME RInv, ActorDrained \/ ActorStops \/ ShutdownRange \/ ShutdownReset
  PROVE  RInv'
<1>1. /\ UNCHANGED <<gvars, creating, creator, inbox, req, dbVars, restarts>>
      /\ actor' = actor \/ (actor \in {"running", "drained"} /\ actor' \in {"drained", "stopped"})
      /\ reachable' \in BOOLEAN /\ shutdown' \in {"none", "ranged", "done"}
      /\ cancelled' \in BOOLEAN
  BY DEF ActorDrained, ActorStops, ShutdownRange, ShutdownReset, RInv, RTypeOK
<1>2. RTypeOK'
  BY <1>1 DEF RInv, RTypeOK, GTypeOK, RowExists, gvars, dbVars
<1>3. RowTracksActor' /\ PlayingRowHasGame' /\ UntouchedBeforeStart'
  BY <1>1 DEF RInv, RowTracksActor, PlayingRowHasGame, UntouchedBeforeStart, gvars, dbVars
<1>4. SessionCoversGame' /\ MembersAreRecorded' /\ StartIsCovered' /\ JoinsAreRecorded'
  <2>1. /\ UNCHANGED <<players, isPlaying, inbox>> /\ inbox \in Seq(Messages)
        /\ session \/ Starting => session' \/ Starting'
        /\ \A p \in Players : Accounted(p) => Accounted(p)'
    BY <1>1 DEF gvars, dbVars, Starting, Accounted, Recording, RInv, RTypeOK
  <2> QED
    BY <2>1, CoverStays
<1>5. RosterInv'
  BY <1>1, RefuseRoster DEF RInv
<1> QED
  BY <1>2, <1>3, <1>4, <1>5 DEF RInv

\* A restart leaves a row without an actor, and no game.
LEMMA RestartRInv == RInv /\ Restart => RInv'
<1> SUFFICES ASSUME RInv, Restart PROVE RInv'
  OBVIOUS
<1> USE DEF RInv, Restart
<1>1. RosterInv' /\ GTypeOK'
  <2>1. IsFiniteSet({}) /\ Cardinality({}) = 0 /\ 0 <= MaxPlayers
    BY FS_EmptySet, MaxPlayersAssumption
  <2>2. Untold \in Scripts /\ Untold.confused = FALSE /\ Untold.joined = {}
        /\ Untold.started = FALSE
    BY DEF Untold, Scripts
  <2> QED
    BY <2>1, <2>2 DEF RosterInv, GTypeOK, RTypeOK, WithinCapacity, OwnerIsMember, ScriptProtocol,
                      EngineInv
<1>2. <<>> \in Seq(Messages) /\ Len(<<>>) = 0 /\ 0 <= InboxCap
  BY InboxCapAssumption
<1>3. RTypeOK'
  <2>1. creating' \in {"done", "lost"} /\ creator' = creator /\ creator # NoOne
        /\ creator \in Players \union {NoOne}
    BY DEF RTypeOK, RowExists
  <2>2. req' \in [Requests -> Steps] /\ restarts' \in Nat
    BY DEF RTypeOK, Steps, Idle
  <2> QED
    BY <1>1, <1>2, <2>1, <2>2 DEF RTypeOK, RowExists, dbVars
<1> QED
  BY <1>1, <1>2, <1>3 DEF RowTracksActor, PlayingRowHasGame, SessionCoversGame, StartIsCovered,
                    MembersAreRecorded, JoinsAreRecorded, UntouchedBeforeStart, RowExists, dbVars

\* Every step keeps the invariant.
LEMMA RNextRInv == RInv /\ [RNext]_rvars => RInv'
<1> SUFFICES ASSUME RInv, [RNext]_rvars PROVE RInv'
  OBVIOUS
<1>1. CASE UNCHANGED rvars
  <2>1. RosterInv'
    BY <1>1, RefuseRoster DEF rvars, RInv
  <2> QED
    BY <1>1, <2>1 DEF rvars, gvars, svars, actorVars, dbVars, RInv, RTypeOK, GTypeOK,
                      RowTracksActor, PlayingRowHasGame, SessionCoversGame, MembersAreRecorded,
                      Accounted, Recording, StartIsCovered, JoinsAreRecorded, Starting,
                      UntouchedBeforeStart, RowExists
<1>2. CASE RNext
  BY <1>2, CreateRInv, RequestRInv, RecordRInv, ActorRInv, ShutdownRInv, RestartRInv DEF RNext
<1> QED
  BY <1>1, <1>2

\* The invariant of the room behind the service.
THEOREM ServiceInvariance == RSpec => []RInv
BY RInitRInv, RNextRInv, PTL DEF RSpec

\* The row of a game that nobody closed says so, through a Destroy that panics and a
\* shutdown of the actors with requests still under way (service.go:202-208).
THEOREM RowFollowsActor == RSpec => []RowTracksActor
<1>1. RInv => RowTracksActor
  BY DEF RInv
<1> QED
  BY <1>1, ServiceInvariance, PTL

\* A row that says "playing" has a game behind it, or an actor whose shutdown died in
\* Destroy (service.go:308-324, game_actor.go:374-381).
THEOREM NoPhantomGame == RSpec => []PlayingRowHasGame
<1>1. RInv => PlayingRowHasGame
  BY DEF RInv
<1> QED
  BY <1>1, ServiceInvariance, PTL

\* A game that runs has a session, written or being written (service.go:260-273).
THEOREM GameHasSession == RSpec => []SessionCoversGame
<1>1. RInv => SessionCoversGame
  BY DEF RInv
<1> QED
  BY <1>1, ServiceInvariance, PTL

\* Whoever is in the room has a record, or is about to have one, or has been recorded as
\* gone, or created the room (service.go:183-187, 210-250).
THEOREM PlayersAreRecorded == RSpec => []MembersAreRecorded
<1>1. RInv => MembersAreRecorded
  BY DEF RInv
<1> QED
  BY <1>1, ServiceInvariance, PTL

\* The room stays within its capacity behind the service too, with duplicate joins, lost
\* sends and restarts in between (game_actor.go:141-146, service.go:195-227).
THEOREM ServiceCapacity == RSpec => []WithinCapacity
<1>1. RInv => WithinCapacity
  BY DEF RInv, RosterInv
<1> QED
  BY <1>1, ServiceInvariance, PTL

\* And it has an owner who is in it (game_actor.go:158-161, 224-233).
THEOREM ServiceOwned == RSpec => []OwnerIsMember
<1>1. RInv => OwnerIsMember
  BY DEF RInv, RosterInv
<1> QED
  BY <1>1, ServiceInvariance, PTL

\* And its script knows the room but for what its last failed hook was about, in whatever
\* order the requests, the WebSockets and the timers put their messages into the inbox
\* (game_actor.go:133-384).
THEOREM ServiceScript == RSpec => []ScriptProtocol
<1>1. RInv => ScriptProtocol
  BY DEF RInv, RosterInv
<1> QED
  BY <1>1, ServiceInvariance, PTL

\* The room behind the service implements the abstract room: a message handled is a step of
\* it, a shutdown that dies in Destroy makes it falter, CloseRoom's Save takes it off the
\* lobby, a restart empties it, and no other step of a request, nor of the actor system's
\* shutdown, is seen by it (service.go:130-331).
THEOREM ServiceImplementsRoom == RSpec => ImplementsRoom
<1>1. RInit => AsRoom!RoomInit
  BY DEF RInit, GInit, AsRoom!RoomInit
<1>2. RInv /\ [RNext]_rvars => [AsRoom!RoomNext]_(AsRoom!roomVars)
  <2> SUFFICES ASSUME RInv, [RNext]_rvars PROVE [AsRoom!RoomNext]_(AsRoom!roomVars)
    OBVIOUS
  <2>1. CASE ActorStep
    <3> DEFINE m == Head(inbox)
    <3>1. /\ Handle(m) /\ m \in Messages
      BY <2>1, Taken DEF ActorStep, RInv, RTypeOK
    <3> HIDE DEF m
    <3>2. m.type \in {"join", "leave", "ready", "action"} => m.p \in Players
      BY <3>1 DEF Messages
    <3> QED
      BY <3>1, <3>2, HandlersImplement DEF RInv, Handle
  <2>2. ASSUME NEW r \in Requests, CloseRecord(r) PROVE AsRoom!Unlist
    BY <2>2 DEF CloseRecord, AsRoom!Unlist
  <2>3. CASE Restart
    <3>1. AsRoom!Vanish
      BY <2>3 DEF Restart, AsRoom!Vanish
    <3> QED
      BY <3>1 DEF AsRoom!RoomNext
  <2>4. \/ UNCHANGED gvars \/ ActorStep \/ Restart
        \/ \E r \in Requests : CloseRecord(r)
    BY DEF RNext, rvars, CreateRow, CreateStore, CreateStart, CreateSend, JoinRead, JoinSend,
           JoinRecord, LeaveSend, LeaveRecord, StartSend, StartRecord, CloseSend,
           PlayerSend, HandlePlayerAction, RouteWSMessage, TimerSend, ActorDrained,
           ActorStops, ShutdownRange, ShutdownReset
  <2>5. UNCHANGED gvars => UNCHANGED AsRoom!roomVars
    BY DEF gvars, AsRoom!roomVars
  <2> QED
    BY <2>1, <2>2, <2>3, <2>4, <2>5 DEF AsRoom!RoomNext
<1> QED
  BY <1>1, <1>2, ServiceInvariance, PTL DEF RSpec, ImplementsRoom, AsRoom!RoomSpec

\* Behind the service too, nobody enters while a game is on, however old the row is that
\* JoinRoom read (service.go:195-217, game_actor.go:134-139).
THEOREM ServiceFrozen == RSpec => RosterFrozen
<1>1. [RNext]_rvars => [isPlaying /\ isPlaying' => players' \subseteq players]_gvars
  <2> SUFFICES ASSUME RNext, isPlaying, isPlaying'
               PROVE  players' \subseteq players
    BY DEF rvars, gvars
  <2>1. UNCHANGED players \/ ActorStep \/ Restart
    BY DEF RNext, gvars, CreateRow, CreateStore, CreateStart, CreateSend, JoinRead, JoinSend,
           JoinRecord, LeaveSend, LeaveRecord, StartSend, StartRecord, CloseSend, CloseRecord,
           PlayerSend, HandlePlayerAction, RouteWSMessage, TimerSend, ActorDrained,
           ActorStops, ShutdownRange, ShutdownReset
  <2>2. CASE ActorStep
    BY <2>2 DEF ActorStep, Handle, HandleJoin, HandleLeave, HandleReady, HandleAction, HandleStart,
                HandleTimer, HandleShutdown, Refuse, gvars
  <2>3. CASE Restart
    BY <2>3 DEF Restart
  <2> QED
    BY <2>1, <2>2, <2>3
<1> QED
  BY <1>1, PTL DEF RSpec, RosterFrozen
==============================================================================
