----------------------------- MODULE RoomService -----------------------------
(***************************************************************************)
(* internal/game/service.go: the HTTP handlers of one room, its row, its    *)
(* records and the GameActor behind them.  A handler reads the row, sends   *)
(* the actor a message and writes a record; other handlers, the actor, the *)
(* shutdown of the actor system and the end of the process come between.   *)
(* The actor's handlers are those of GameActor; one message is one step,   *)
(* since nothing but the row's status is visible outside and a handler     *)
(* writes that once.                                                       *)
(*                                                                         *)
(* Reading the row is a step of its own in JoinRoom only: the others look  *)
(* for nothing but the row's existence, and no row is ever deleted.        *)
(*                                                                         *)
(* ActorSystem.Shutdown (pkg/actor/system.go) runs after the server has    *)
(* drained its handlers or given up on them: whoever outlasts the drain,   *)
(* a WebSocket or a script's timer goes on sending to actors that stop.    *)
(***************************************************************************)
EXTENDS GameActor, Sequences

CONSTANTS Requests,     \* handlers that may be under way at once
          InboxCap,     \* capacity of the actor's inbox (256 in the code)
          Extras,       \* what comes besides the requests: the players' WebSockets send
                        \* "ready" and "action", the script's timers "timer"; "late" are
                        \* requests that come to their first step after the server's drain
          MaxRestarts   \* bound: how often the process ends, shut down or not

ASSUME InboxCapAssumption == InboxCap \in Nat \ {0}
ASSUME ExtrasAssumption == Extras \subseteq {"ready", "action", "timer", "late"}
ASSUME MaxRestartsAssumption == MaxRestarts \in Nat

VARIABLES
  creating,  \* CreateRoom: "row", "store", "start", "send", "done" or "lost"
  creator,   \* the row's owner_id: whose CreateRoom it was
  actor,     \* "none", "stored" in the actor system, "running", "drained" (its goroutine
             \* has left the loop and is still flagged as running), "stopped"
  reachable, \* the actor system's map has it
  shutdown,  \* ActorSystem.Shutdown: "none", "ranged" past the actor's key, "done" (map reset)
  cancelled, \* the actor's context
  inbox,     \* the actor's inbox
  req,       \* per request: what it does and how far it is
  recorded,  \* players with a RoomPlayer record whose left_at is NULL
  session,   \* a GameSession record exists
  restarts,
  closed,    \* history: a CloseRoom has been answered
  left       \* history: players of whom a leave is the last thing that was recorded

actorVars == <<actor, reachable, shutdown, cancelled>>
dbVars    == <<recorded, session, closed, left>>
svars     == <<creating, creator, actorVars, inbox, req, dbVars, restarts>>
rvars     == <<gvars, svars>>

Idle == [op |-> "idle", p |-> NoOne]
Doing(op, p) == [op |-> op, p |-> p]
Msg(type, p) == [type |-> type, p |-> p]
Messages == [type : {"join", "leave", "ready", "action"}, p : Players]
            \union [type : {"start", "shutdown", "timer"}, p : {NoOne}]
Steps == [op : {"joinSend", "joinRecord", "leaveRecord"}, p : Players]
         \union [op : {"idle", "startRecord", "closeRecord"}, p : {NoOne}]

RInit == /\ GInit
         /\ creating = "row" /\ creator = NoOne /\ inbox = <<>>
         /\ actor = "none" /\ reachable = FALSE /\ shutdown = "none" /\ cancelled = FALSE
         /\ req = [r \in Requests |-> Idle] /\ recorded = {} /\ left = {}
         /\ session = FALSE /\ restarts = 0 /\ closed = FALSE

RowExists == creating # "row"

\* WaitForShutdown closes the listener before the actor system is shut down: a request that
\* begins later was in already, and slow to get here, or the signal found srv still nil.
Serving == shutdown = "none" \/ "late" \in Extras

\* Send: an error unless the actor's flag says it runs and its inbox has room; SendTo: an
\* error too if the actor system does not have it.
Flagged == actor \in {"running", "drained"} /\ Len(inbox) < InboxCap
Accepts == reachable /\ Flagged
SendTo(m) == inbox' = IF Accepts THEN Append(inbox, m) ELSE inbox
Goto(r, step) == req' = [req EXCEPT ![r] = step]

------------------------------------------------------------------------------
\* CreateRoom: the row, then Register's LoadOrStore and Start, then the creator's join,
\* whose error nobody looks at.
CreateRow(p) ==
  /\ creating = "row" /\ creating' = "store" /\ creator' = p
  /\ UNCHANGED <<gvars, actorVars, inbox, req, dbVars, restarts>>

CreateStore ==
  /\ creating = "store" /\ creating' = "start" /\ actor' = "stored" /\ reachable' = TRUE
  /\ UNCHANGED <<gvars, creator, shutdown, cancelled, inbox, req, dbVars, restarts>>

CreateStart ==
  /\ creating = "start" /\ creating' = "send" /\ actor' = "running"
  /\ UNCHANGED <<gvars, creator, reachable, shutdown, cancelled, inbox, req, dbVars, restarts>>

CreateSend ==
  /\ creating = "send" /\ creating' = "done"
  /\ SendTo(Msg("join", creator))
  /\ UNCHANGED <<gvars, creator, actorVars, req, dbVars, restarts>>

\* JoinRoom: a waiting row lets the request through, whatever happens to it next.
JoinRead(r, p) ==
  /\ req[r] = Idle /\ RowExists /\ Serving /\ status = "waiting"
  /\ Goto(r, Doing("joinSend", p))
  /\ UNCHANGED <<gvars, creating, creator, actorVars, inbox, dbVars, restarts>>

JoinSend(r) ==
  /\ req[r].op = "joinSend"
  /\ SendTo(Msg("join", req[r].p))
  /\ Goto(r, IF Accepts THEN Doing("joinRecord", req[r].p) ELSE Idle)
  /\ UNCHANGED <<gvars, creating, creator, actorVars, dbVars, restarts>>

\* The record written only if the row still lets players in.
JoinRecordIfWaiting(r) ==
  /\ req[r].op = "joinRecord"
  /\ IF status = "waiting"
     THEN recorded' = recorded \union {req[r].p} /\ left' = left \ {req[r].p}
     ELSE UNCHANGED <<recorded, left>>
  /\ Goto(r, Idle)
  /\ UNCHANGED <<gvars, creating, creator, actorVars, inbox, session, closed, restarts>>

JoinRecord(r) ==
  /\ req[r].op = "joinRecord"
  /\ recorded' = recorded \union {req[r].p} /\ left' = left \ {req[r].p}
  /\ Goto(r, Idle)
  /\ UNCHANGED <<gvars, creating, creator, actorVars, inbox, session, closed, restarts>>

\* LeaveRoom: the records are closed even if the actor did not get the message.
LeaveSend(r, p) ==
  /\ req[r] = Idle /\ RowExists /\ Serving
  /\ SendTo(Msg("leave", p)) /\ Goto(r, Doing("leaveRecord", p))
  /\ UNCHANGED <<gvars, creating, creator, actorVars, dbVars, restarts>>

LeaveRecord(r) ==
  /\ req[r].op = "leaveRecord"
  /\ recorded' = recorded \ {req[r].p} /\ left' = left \union {req[r].p}
  /\ Goto(r, Idle)
  /\ UNCHANGED <<gvars, creating, creator, actorVars, inbox, session, closed, restarts>>

\* StartGame: neither the row's status nor the caller is looked at.
StartSend(r) ==
  /\ req[r] = Idle /\ RowExists /\ Serving /\ Accepts
  /\ SendTo(Msg("start", NoOne)) /\ Goto(r, Doing("startRecord", NoOne))
  /\ UNCHANGED <<gvars, creating, creator, actorVars, dbVars, restarts>>

\* The session recorded only if the row does not say yet that a game runs.
StartRecordIfWaiting(r) ==
  /\ req[r].op = "startRecord"
  /\ session' = (session \/ status # "playing")
  /\ Goto(r, Idle)
  /\ UNCHANGED <<gvars, creating, creator, actorVars, inbox, recorded, closed, left, restarts>>

StartRecord(r) ==
  /\ req[r].op = "startRecord"
  /\ session' = TRUE
  /\ Goto(r, Idle)
  /\ UNCHANGED <<gvars, creating, creator, actorVars, inbox, recorded, closed, left, restarts>>

\* CloseRoom: MsgShutdown is sent, its error ignored, and the whole row saved; only the
\* status of the copy read before differs from what is there.
CloseSend(r) ==
  /\ req[r] = Idle /\ RowExists /\ Serving
  /\ SendTo(Msg("shutdown", NoOne)) /\ Goto(r, Doing("closeRecord", NoOne))
  /\ UNCHANGED <<gvars, creating, creator, actorVars, dbVars, restarts>>

CloseRecord(r) ==
  /\ req[r].op = "closeRecord"
  /\ status' = "closed" /\ closed' = TRUE /\ Goto(r, Idle)
  /\ UNCHANGED <<players, ready, owner, isPlaying, engine, interval, script, used>>
  /\ UNCHANGED <<creating, creator, actorVars, inbox, recorded, session, left, restarts>>

\* One message, nothing before or after it: HandlePlayerAction over HTTP, and what a
\* WebSocket that HandleWebSocket let through may send.
PlayerSend(type, p) ==
  /\ RowExists /\ Accepts /\ SendTo(Msg(type, p))
  /\ UNCHANGED <<gvars, creating, creator, actorVars, req, dbVars, restarts>>

HandlePlayerAction(p) == Serving /\ PlayerSend("action", p)
RouteWSMessage(type, p) == type \in Extras /\ PlayerSend(type, p)

\* A timer of the script goes to its actor past the map.  It may have fired before the
\* engine was destroyed.
TimerSend ==
  /\ "timer" \in Extras /\ Flagged /\ inbox' = Append(inbox, Msg("timer", NoOne))
  /\ UNCHANGED <<gvars, creating, creator, actorVars, req, dbVars, restarts>>

\* The actor's goroutine takes the oldest message and runs its handler, in the loop or,
\* once cancelled, in the drain.
Handle(m) == \/ m.type = "join" /\ HandleJoin(m.p)
             \/ m.type = "leave" /\ HandleLeave(m.p)
             \/ m.type = "ready" /\ HandleReady(m.p)
             \/ m.type = "action" /\ HandleAction(m.p)
             \/ m.type = "start" /\ HandleStart
             \/ m.type = "timer" /\ HandleTimer
             \/ m.type = "shutdown" /\ HandleShutdown

ActorStep ==
  /\ actor = "running" /\ inbox # <<>>
  /\ inbox' = Tail(inbox) /\ Handle(Head(inbox))
  /\ UNCHANGED <<creating, creator, actorVars, req, dbVars, restarts>>

\* The drain finds the inbox empty; the flag is cleared later, and what is accepted in
\* between is handled by nobody.
ActorDrained ==
  /\ actor = "running" /\ cancelled /\ inbox = <<>> /\ actor' = "drained"
  /\ UNCHANGED <<gvars, creating, creator, reachable, shutdown, cancelled, inbox, req, dbVars,
                 restarts>>

ActorStops ==
  /\ actor = "drained" /\ actor' = "stopped"
  /\ UNCHANGED <<gvars, creating, creator, reachable, shutdown, cancelled, inbox, req, dbVars,
                 restarts>>

\* ActorSystem.Shutdown: Stop cancels the actor the range finds, started or not; then the map
\* is replaced, whether the actors have left or Stop has given up on them.
ShutdownRange ==
  /\ RowExists /\ restarts < MaxRestarts /\ shutdown = "none" /\ shutdown' = "ranged"
  /\ cancelled' = reachable
  /\ UNCHANGED <<gvars, creating, creator, actor, reachable, inbox, req, dbVars, restarts>>

ShutdownReset ==
  /\ shutdown = "ranged" /\ shutdown' = "done" /\ reachable' = FALSE
  /\ UNCHANGED <<gvars, creating, creator, actor, cancelled, inbox, req, dbVars, restarts>>

\* A recovery that lists the row as waiting again.
RestartRelisting ==
  /\ RowExists /\ restarts < MaxRestarts /\ restarts' = restarts + 1
  /\ actor' = "none" /\ reachable' = FALSE /\ shutdown' = "none" /\ cancelled' = FALSE
  /\ inbox' = <<>> /\ req' = [r \in Requests |-> Idle]
  /\ creating' = IF creating = "done" THEN "done" ELSE "lost"
  /\ players' = {} /\ ready' = {} /\ owner' = NoOne /\ isPlaying' = FALSE
  /\ engine' = "live" /\ interval' = FALSE /\ script' = Untold /\ used' = FALSE
  /\ status' = "waiting" /\ UNCHANGED <<creator, dbVars>>

\* The process ends, by a crash or after its shutdown, and comes back: the actors and the
\* requests are gone, the database is as it was, and nothing creates the actor again.
Restart ==
  /\ RowExists /\ restarts < MaxRestarts /\ restarts' = restarts + 1
  /\ actor' = "none" /\ reachable' = FALSE /\ shutdown' = "none" /\ cancelled' = FALSE
  /\ inbox' = <<>> /\ req' = [r \in Requests |-> Idle]
  /\ creating' = IF creating = "done" THEN "done" ELSE "lost"
  /\ players' = {} /\ ready' = {} /\ owner' = NoOne /\ isPlaying' = FALSE
  /\ engine' = "live" /\ interval' = FALSE /\ script' = Untold /\ used' = FALSE
  /\ UNCHANGED <<status, creator, dbVars>>

RNext == \/ \E p \in Players : CreateRow(p)
         \/ CreateStore \/ CreateStart \/ CreateSend
         \/ \E r \in Requests, p \in Players : JoinRead(r, p) \/ LeaveSend(r, p)
         \/ \E r \in Requests : \/ JoinSend(r) \/ JoinRecord(r) \/ LeaveRecord(r)
                                \/ StartSend(r) \/ StartRecord(r)
                                \/ CloseSend(r) \/ CloseRecord(r)
         \/ \E p \in Players : HandlePlayerAction(p)
         \/ \E type \in {"ready", "action"}, p \in Players : RouteWSMessage(type, p)
         \/ TimerSend \/ ActorStep \/ ActorDrained \/ ActorStops
         \/ ShutdownRange \/ ShutdownReset \/ Restart

RSpec == RInit /\ [][RNext]_rvars

------------------------------------------------------------------------------
RTypeOK ==
  /\ GTypeOK
  /\ creating \in {"row", "store", "start", "send", "done", "lost"}
  /\ creator \in Players \union {NoOne} /\ (RowExists <=> creator # NoOne)
  /\ actor \in {"none", "stored", "running", "drained", "stopped"}
  /\ reachable \in BOOLEAN /\ shutdown \in {"none", "ranged", "done"} /\ cancelled \in BOOLEAN
  /\ inbox \in Seq(Messages) /\ Len(inbox) <= InboxCap
  /\ req \in [Requests -> Steps]
  /\ recorded \in SUBSET Players /\ left \in SUBSET Players
  /\ session \in BOOLEAN /\ closed \in BOOLEAN /\ restarts \in Nat

\* Until somebody calls CloseRoom, the row of a room in which a game is on says "playing",
\* with any handlers under way, a Destroy that panicked or the actors being shut down
\* (service.go:202-208 and GetRooms rely on it).
RowTracksActor == isPlaying /\ ~closed => status = "playing"

\* A row that says "playing" is no leftover of the handlers: even with CloseRoom's Save of
\* an old copy racing the actor, there is a game behind it, or a handleShutdown that ended
\* the game and died in Destroy, for as long as the process keeps the actor.
PlayingRowHasGame ==
  actor # "none" /\ status = "playing" => isPlaying \/ engine = "broken"

\* A game that runs has its session, or the StartGame that caused it is about to write
\* it, however the actor and several StartGame handlers interleave (service.go:260-273).
Starting == \E r \in Requests : req[r].op = "startRecord"
SessionCoversGame == isPlaying => session \/ Starting

\* Nobody plays unrecorded: a player in the room has a record, or one is about to be written,
\* or the last thing recorded of him is a leave (whose message may have been refused, or
\* whose join came after it); the one exception is who created the room, whose own join no
\* handler records (service.go:183-187, 210-250).
Recording(p) == \E r \in Requests : req[r] = Doing("joinRecord", p)
Accounted(p) == p \in recorded \union left \/ p = creator \/ Recording(p)
MembersAreRecorded == \A p \in players : Accounted(p)

\* What they rest on: a join or a start still in the inbox is covered like a player who is
\* in and a game that runs, and before Register's Start the room has seen nothing at all.
\* The room itself is as sound as it is without the service, but for the row's status,
\* which CloseRoom writes behind its back.
StartIsCovered ==
  (\E i \in 1..Len(inbox) : inbox[i].type = "start") => session \/ Starting
JoinsAreRecorded ==
  \A i \in 1..Len(inbox) : inbox[i].type = "join" => Accounted(inbox[i].p)
UntouchedBeforeStart ==
  creating \in {"row", "store", "start"} =>
    actor \in {"none", "stored"} /\ inbox = <<>> /\ ~isPlaying /\ status # "playing"
RInv == /\ RTypeOK /\ RosterInv /\ RowTracksActor /\ PlayingRowHasGame
        /\ SessionCoversGame /\ MembersAreRecorded
        /\ StartIsCovered /\ JoinsAreRecorded /\ UntouchedBeforeStart

\* Nothing under way: no request, no message the actor has still to take.
Quiet == /\ actor = "running" /\ shutdown = "none" /\ creating = "done" /\ inbox = <<>>
         /\ \A r \in Requests : req[r] = Idle

\* "CloseRoom closes a room and stops its actor" (service.go:307): once it has been
\* answered and everything sent has been handled, the room is closed.
ClosedIsFinal == closed /\ Quiet => status = "closed"
==============================================================================
