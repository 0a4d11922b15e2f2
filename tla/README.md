# Verification of the online-game platform

TLA+ models of the game platform in this repository, checked with TLC and proved about with
TLAPS. The platform runs multiplayer game rooms: each room is an actor (one goroutine and a
channel) that drives a JavaScript game script, players reach it over HTTP and WebSockets,
and rows in a database say which rooms there are and who is in them.

## The system

| part | state | operations | talks to |
|---|---|---|---|
| `pkg/actor/actor.go` BaseActor | `running` flag, context, wait group, inbox channel, counters | Start, run/drain, processMessage, Send, Stop | its handler, by calls in the run goroutine |
| `pkg/actor/game_actor.go` GameActor | players, ready flags, owner, isPlaying | one handler per message type | engine (hooks), gateway (events), room row (status) |
| `pkg/actor/system.go` ActorSystem | a sync.Map of actors, a counter | Register, Unregister, SendTo, Shutdown | actors |
| `pkg/engine` GojaEngine | VM, timers map, interrupt flag | Init, LoadScript, TriggerHook, timers, Destroy | goja; timer goroutines send to the actor |
| `pkg/websocket` Gateway | connections, player index, room maps, send buffers | Register, Unregister, BroadcastToRoom, SendExcept, SendTo, pumps | sockets; called by every room's actor |
| `internal/game` Service | room rows, player records, sessions, Redis cache | CreateRoom, JoinRoom, LeaveRoom, StartGame, CloseRoom, actions, listings | actor system, gateway, database |
| `internal/user` | users, sessions, cache | Register, Login, profile | database, tokens |
| `internal/admin` | games, versions, packages | create, update, upload, publish, delete | database (not the game service's cache) |
| `pkg/auth` | secret, Redis blacklist | generate, validate, blacklist | Redis |
| `cmd/*`, `internal/server`, `pkg/{redis,grpc,config,db,api,apperror}`, `proto` | the server and its socket, a proxied connection's two ends | start, drain, proxy; the rest is wiring and formatting | game service, client |
| `sdks/client-sdk` | one socket, reconnect and heartbeat timers | connect, send, disconnect | the gateway |
| `sdks/server-sdk`, `examples/games/blackjack` | the script's game state | hooks | the engine |

What is hard, and what makes each part correct:

- **BaseActor.** Start, Send and Stop are called by any goroutine with only an atomic flag,
  a channel and a wait group between them. It is correct if one goroutine at a time runs the
  handler, what the channel took is handled once and in order, a Stop drains what was
  accepted before it and answers only when the goroutine is gone, and a panicking handler
  loses nothing else.
- **GameActor.** Sequential, but its messages come in any order: duplicate joins, joins at
  the limit, owners leaving, starts of empty or closed rooms. The owner must be in the room,
  nobody may enter during a game, the row and the script must agree with the actor, although
  hooks fail unnoticed and the engine's Destroy may panic.
- **Service.** Each handler reads the row, sends a message and writes a record, in that
  order, without a transaction; the inbox may be full, the process may end. Rows and records
  must still mean something.
- **Gateway.** Three maps updated one after the other, by connections of one player that
  overlap, while the actors broadcast; the members of a room are an unlocked Go map.
- **Engine.** The execution timeout, timeouts and tickers are goroutines of their own that
  touch the VM the actor uses.
- **ActorSystem.** A sync.Map, a counter beside it and a Shutdown that ranges over the map,
  stops what it finds and replaces the map, while handlers may still register. It is correct
  if the process ends with no actor unheard of, whenever the server came to rest.
- **Accounts.** Registrations check and create in three statements; a revocation is a Redis
  key with a time to live of its own; a status is copied into tokens and a cache.
- **Catalog.** An upload goes through a temporary file, a directory and a row without a
  lock; another process caches what the rows say and nobody tells it of a change.
- **Client and proxy.** Close events arrive late, timers outlive the sockets they were set
  for, and either end of a proxied connection may go first.

## Modules

| module | models | composed with |
|---|---|---|
| `Mailbox` | what an actor promises: a bounded FIFO, one message handled at a time | implemented by `BaseActor` |
| `BaseActor` | `actor.go`, every access to shared state a step | `INSTANCE Mailbox` |
| `Room` | what a room promises: who may enter and when, who owns it, what the lobby shows | implemented by `GameActor` and by `RoomService` |
| `GameActor` | `game_actor.go`, one action per handler, with the row's status and the script's view | `INSTANCE Room`, extended by `RoomService` |
| `RoomService` | `service.go`'s room handlers, Register, SendTo, the actor system's Shutdown, the end of the process | extends `GameActor` |
| `Gateway` | `gateway.go`, `conn.go` | - |
| `Engine` | `js_engine.go`'s hooks, timers and Destroy, with handleShutdown's calls | - |
| `ActorSystem` | `system.go` with the server's drain (`server.go`) and the game service's main goroutine | - |
| `CacheAside` | the read path of `GetGame`, `GetLatestVersion` and `GetUser`: Redis, then the database, then Redis | instantiated by `Accounts` and `Catalog` |
| `Accounts` | `internal/user/service.go`, `pkg/auth/jwt.go` | `INSTANCE CacheAside` |
| `Catalog` | `internal/admin/handler.go`, with the game service's two cached reads | `INSTANCE CacheAside` |
| `WsProxy` | `wsProxy` of `cmd/api-gateway/main.go` | extended by `ClientConnection` |
| `ClientConnection` | `Connection.ts` of the client SDK | extends `WsProxy`, shares the page's socket with it |
| `*_proofs` | the theorems about the module of that name; `RoomService_proofs` has those about `GameActor` too, `ClientConnection_proofs` those about `WsProxy` | - |
| `MC*` | small instances and symmetry for TLC | - |

**BaseActor.** A member of `Starts` is a call of Start and the goroutine it spawns (`g[i]`:
won the CompareAndSwap, in the loop, handling, draining, leaving, joining the wait group,
gone); a member of `Stops` is a call of Stop and its waiting goroutine; a member of `Msgs`
is a call of Send, which tests `running` and enqueues in two steps. The wait group is the
set of goroutines added and not done. `accepted`, `taken`, `atCancel` and `owed` are
history. The runtime's panic on a wait group raised before a woken `Wait` has returned is an
outcome (`crashed`); `Add` and `Done` themselves are taken as atomic.

**GameActor.** All state belongs to one goroutine, so one handler is one action, its call of
`UpdateRoomStatus` and its hook included. `script` is what a script has been told and
whether any hook contradicted it; a destroyed engine tells it nothing. A hook may also fail,
because the script throws, runs out of its time or is aborted by the late Interrupt of an
earlier hook (`Engine` has these), and its handler passes the error over: `script` then
remembers what the last hook of that subject failed to say. And the script may set an
interval, on which Destroy panics inside handleShutdown, after `isPlaying` is cleared and
before the row is written (`engine = "broken"`). `Faults` says which of the two happen. The
service as committed never calls `LoadScript`, so the hooks of a production room reach no
script yet; the model is of a room whose script defines them, as the engine's tests load it.
`handleTimer` and `handleRestore` hand a message to the script and are one action
(`HandleTimer`): their hook too may set the interval. No broadcast is modelled, since no
handler reads one back.

**Room.** No messages, handlers or records: members, an owner, whether a game is on, and
what the lobby lists. A handler that admits is an `Enter`, one that removes a `Depart`,
handleGameStart is a `Begin` and handleShutdown a `Close`, or a `Falter` when Destroy
panics: the game is over and the lobby goes on showing what it showed. CloseRoom's Save of
the row is an `Unlist`, and the end of the process a `Vanish`. All else in `RoomService`
(reads of the row, sends, records, sessions, refusals) is a stutter.

**RoomService.** One room. Up to `Requests` handlers are under way, each between two of its
steps: JoinRoom reads the row, sends, records; LeaveRoom, StartGame and CloseRoom send and
write. ActorSystem.Shutdown cancels the actor if its Range finds it (`ShutdownRange`) and
later replaces the map (`ShutdownReset`), while handlers that outlasted the server's drain,
WebSockets and script timers go on (`Serving`: requests begin after the drain only if they
are `late`, since the listener is closed by then): the actor handles what is in its inbox
(`ActorStep`), leaves (`ActorDrained`, `ActorStops`), and a message accepted in between is
lost. `Restart` is the process dying, at any point, or ending after that, and coming back:
the database stays, the actors and the requests do not, and nothing creates them again.
`TimerSend` is the script's timers, which send to the actor without the map. Database errors
are left out: the handlers ignore most of them. The error of `CreateRoom`'s
`createGameActor` cannot happen, as its parts are called: the room's id is fresh and `Init`
answers nil.

**Gateway.** A connection goes through ServeWS step by step, may be dropped by its peer at
any time, and unregisters step by step. A broadcast (or SendExcept) is a range over a map
that changes under it, with Go's guarantees about that: a key that is there throughout is
visited once, one inserted meanwhile may or may not be, and one deleted and inserted anew
may be visited again. Two overlapping accesses to a member map with a write among them may
end the process (`Throw`), and so does the comparison of two maps (`RemoveFromRoom`).

**Engine.** A hook starts, may set and clear timers, and returns, or is aborted by the
interrupt flag; its timeout may fire late, after the hook it was for. An interval is tracked
by a placeholder whose `Stop` panics, which ends the hook, or Destroy, at that point; its
ticker is never stopped. Timeout goroutines (`late`) outlive their hook and the VM. What a
script sets while it is loaded is as if its first hook set it.

**ActorSystem.** A member of `Calls` is one call of Register with the actor it brings:
store, count, start are three steps. Unregister is three as well. The server is `starting`
until `Start` has set `srv`; a signal before that skips the drain, and the drain may give up
on a handler after its thirty seconds, so Register can fall anywhere in Shutdown. Range is
modelled with sync.Map's guarantees: keys that are there throughout are visited, others may
or may not be, none twice. The replacement of the map is not atomic for those in
LoadOrStore, who may panic (`lost`). Of an actor's life only what Start and Stop make of it
is kept; `BaseActor` has the rest.

**CacheAside.** A reader that missed goes on to the database, which may answer, find nothing
or fail, and then writes Redis. The row, the copy and the readers' places are its variables;
who writes the rows is the instantiating module's affair.

**Accounts.** Register is two counts, whose errors it takes for "none", and a create, which
the database may refuse for any reason and must under the unique indexes. Time is the ticks
left: a token's lifetime and a key's time to live count down together. A request asks the
blacklist and parses the token in two steps, BlacklistToken validates, takes the time left
and writes the key in three; Redis comes and goes and keeps its keys. `SetStatus` is the
operator the status column's comment speaks of: no code writes it.

**Catalog.** An upload writes its temporary file, opens and checks it, writes entry by entry
into the storage, stats, and writes the row, without a lock, so others come between any two
of these. It may be refused, lose entries, get no row or panic; the file's name is the game
and the millisecond. A package is the set of its entries, and `Place` says on which path an
entry of a version lands: a parameter, since `filepath.Join` cleans the version and the
name, and two of them may share one. `mixed` is history: the versions the code makes no
promise about. PublishGame checks and updates in two steps. The game service's readers fill
the cache by `CacheAside`.

**WsProxy and ClientConnection.** The page's `socket` is what the two share. The proxy
dials, upgrades, and runs a copier per direction, which reports to the handler through a
channel of two. The browser runs one task at a time; a socket that is told to close, or
loses its network, has its close event as a task of its own, and only a socket in `hooked`
still calls back. `polite` is a page that calls `connect` only while the status says
`disconnected`; the other kind is in the model too. A timer whose reference was overwritten
is counted in `stray`.

## What the runs check

| run | bounds | result |
|---|---|---|
| `base_actor` | 2 Starts, 1 Stop, 2 messages, inbox 1, fair | `SingleRunner`, `DrainedBeforeLeaving`, `StopJoinsOwed`, `OneStartNeverCrashes`, `IInv`, `AcceptedIsHandled`, `StopEventuallyReturns` hold and `Mailbox` is implemented |
| `game_actor` | 3 players, capacity 2, failing hooks and intervals | `WithinCapacity`, `OwnerIsMember`, `ScriptProtocol`, `EmptyLobbyClosed` hold, and `Room` is implemented |
| `room` | 2 players, 1 seat, 2 requests, inbox 1, intervals, timers, actions over WebSocket, 1 shutdown and 1 restart | `RowTracksActor`, `PlayingRowHasGame`, `SessionCoversGame`, `MembersAreRecorded`, `RosterFrozen` hold, and `Room` is implemented |
| `room_closed` | 2 players, 2 seats, 2 requests, inbox 2, 1 restart | a closed room can end up playing |
| `gateway` | 3 connections, 2 players, 1 room, buffer 1, 2 events | `NoneRefersToGone`, `CountIsExact`, `AloneIsReachable`, `EventsInOrder` hold |
| `gateway_empty` | same | an empty room is not removed: the process panics |
| `engine` | 3 timer ids, limit 2, 2 late timeouts, fair | `ArmedAreCounted`, `DestroyedIsSilent`, `HookEnds` hold |
| `system` | 2 Registers over 2 ids, 1 Unregister, fair | `CountTracksRegistry`, `OnlyLateAreForgotten`, `NoneOutlivesShutdown`, `ShutdownReturns` hold |
| `accounts` | 2 registrations of 1 name with 2 e-mails, 1 reader, 1 token, 1 request, 1 revocation, lifetime 2, fair | `Distinct`, `RevokedIsRejected`, `StatusTakesEffect` hold |
| `catalog` | 1 game, 2 versions, 1 version row, 1 upload, 1 publish, 1 reader, fair | `PublishedHasVersion`, `EventuallyFresh` hold |
| `packages` | 1 game, 2 versions, 2 version rows, 2 uploads of 2 packages of up to 2 entries, 2 milliseconds, a path two entries share | `VersionHasPackage` holds |
| `client` | 2 sockets, 2 attempts, 1 stray timer, fair | `SocketIsSingle`, `AttemptEnds`, `ProxyEnds` hold |

Why the bounds are enough to meet the interesting cases. Two Starts give both a race and a
restart, which a Stop in between makes possible; two messages over a channel of one fill it
and leave one refused or enqueued late. Three players for two seats include a full room with
somebody outside, and an owner who leaves the room to another. Two requests let a handler's
steps fall on both sides of another's, and with an inbox of one it is full in between; more
requests only repeat the same overlaps, and the theorems cover every number. `room` has one
seat for two players, who contend for it: what takes two players inside (a successor to the
owner, a second member) is in `game_actor`, which is checked against `Room` as well, and in
the proofs. Where two players are in one room behind the service, `room_closed` has them.
Three connections of two players give a reconnect while the other player stays. A buffer of
one makes drops common, and two events are the least for an order. In `room` the WebSockets
send actions only: `ready` messages only multiply the states, since nothing but the
all_ready broadcast reads what they set; `game_actor` has them. Nor do requests come to
their first step after the drain there (`late` in `Extras`); those under way at the drain do
go on through the shutdown, and the theorems cover both. With `late` requests the instance
has 4.5 million states, too many for this run, and TLC finds the same of it. Hooks fail in
`game_actor` and not in `room`, where no property looks at the script. Three ids over a
limit of two meet the limit and a timer beyond it; two late timeouts are one that hits the
next hook and one that comes after Destroy. Two Registers may want one id or two, so one may
be refused, come back after the Unregister of the other, or be late for the Range. Two
registrations of one name with an e-mail each collide where each has counted none before
either creates, and one that comes again later meets the row; a token is used again once it
is gone, so one stands for a sequence of them, and a lifetime of two lets a key be written a
tick later than its time to live was read. Two uploads with two milliseconds and two
versions meet in the file, in the directory, in both or in neither, and two rows make one
version's newest row replace another; in `catalog` one upload is enough, since the cache and
PublishGame look at rows only. One socket may be closing while another is opened, which is
all `connect` allows a polite page.

`MaxRestarts`, `MaxEvents`, `MaxLate`, `MaxRows` and `MaxStray` bound what the code does
not; they appear in the guards of `ShutdownRange` and `Restart`, `BroadcastBegin` and
`SendTo`, `WatchFires`, `UploadBegin` and `Closes`. `base_actor`, `gateway`, `engine`,
`system` and `packages` do not check deadlock: an actor that has been stopped, a process
that has ended, an engine that is destroyed with all ids given out and a game that is
deleted with nobody uploading really do stop.

The two violation runs are disagreements between the code and what its comments say; each is
listed with the quoted line under `findings` in `PROJECT.json`. `room_closed` is "CloseRoom
closes a room and stops its actor" (`service.go:307`), which stops nothing. `gateway_empty`
is a plain bug: `CompareAndDelete` on a map value (`gateway.go:313`); no test unregisters a
connection that is in a room.

Other things the code does that the models contain, and that the properties are worded
around:

- a Stop between Start's CompareAndSwap and its `wg.Add` answers nil with a message
  unhandled (`StopJoinsOwed`); two Starts and a Stop can end the process on the reuse of the
  wait group (`OneStartNeverCrashes` says it takes two); a message accepted after the drain
  is lost (`AcceptedIsHandled` is without a Stop);
- an engine's Destroy panics on an interval's placeholder (`js_engine.go:204` on the zero
  Timer of 306) and leaves the VM, the ticker and some timers behind; timers that have fired
  stay on the map and count against the sandbox's limit of "simultaneous" ones
  (`sandbox.go:18`, `js_engine.go:284`); and the timeout of a hook that has ended may call
  Interrupt on the nil VM of a destroyed engine and end the process all rooms run in
  (`js_engine.go:163`). `ArmedAreCounted` and `DestroyedIsSilent` are worded around these;
- a shutdown that dies in Destroy ends a game and leaves its row playing, or an empty room
  waiting (`PlayingRowHasGame`, `EmptyLobbyClosed` and `Room`'s `Falter`); a failed hook
  misleads the script about its own subject until the next hook about it (`ScriptProtocol`);
- two overlapping handlers of one player, or a refused leave, can leave records and players
  different, and the creator has no record: `MembersAreRecorded` claims one direction, and
  names the two exceptions;
- a late Unregister of an old connection takes the new one out of the index
  (`AloneIsReachable` speaks of players with one connection), and unlocked accesses to a
  room's members may end the process;
- a page that calls `connect` while reconnecting can have two sockets and a timer that
  `disconnect` does not stop (`SocketIsSingle` claims it of polite pages only);
- uploads that meet, in a millisecond or a version, mix their packages, an upload that loses
  an entry or gets no row leaves a version damaged, and two entries whose cleaned paths
  coincide overwrite each other (`VersionHasPackage` names them).

## Fairness

`BaseActor!FairSpec`: weak fairness of each goroutine once it can go on (Spawn, the steps of
run, the waiting goroutines of Stop). The Go scheduler gives it. It includes that handlers
return; for a room that is the engine's `HookEnds`. Callers of Start, Send and Stop, and
Stop's deadline, are under no obligation. `Engine!FairSpec`: timers of the runtime fire,
their goroutines run, goja looks at its flag. A script promises nothing, so `HookReturn` is
not fair and `HookEnds` rests on the timeout alone.

`ActorSystem!FairSpec`: the main goroutine, the goroutines Shutdown spawns and the clock
behind its deadline. Handlers in Register and actors that are leaving are under no
obligation, since a script may hang and a handler may be slow: `ShutdownReturns` rests on
the two timeouts. `Accounts!FairSpec` and `Catalog!FairSpec`: clocks go on, so tokens and
Redis copies expire, and a handler that has begun goes on. `Catalog`'s readers also rest on
the database answering or failing within a time, which is taken from the driver.
`ClientConnection!FairSpec`: the browser delivers timers and events, the proxy's goroutines
are scheduled, a dial ends one way or the other. The page, the game service and the network
do as they like.

## What is proved

For every value of the constants, under the assumptions declared with them: capacities are
at least one (`NewBaseActor` and `NewGateway` replace others), `NoOne`, `None` and the other
markers are none of the values they mark the absence of, bounds are naturals, and where
something is counted (`Gateway`, `ActorSystem`) the connections or calls are finite in
number.

- `BaseActor_proofs`. `IInv` is inductive. The safety properties do not carry themselves:
  `StopJoinsOwed` needs to know that the wait group is exactly the goroutines between Spawn
  and Join (`WgIsSpawned`), and that what a Stop is owed has gone by the time its waiter is
  woken (`WaitersSettled`); `DrainedBeforeLeaving` needs that leaving takes a cancellation
  (`LeavingIsCancelled`) and that the snapshot is within what was accepted; the refinement
  needs that a message in the channel was answered nil (`AcceptedAnswered`), so no Send adds
  one twice, that what was accepted is what was taken and what the channel holds
  (`AcceptedIsHeld`), and `SingleRunner`, so that the handler of one goroutine is the
  mailbox being busy; `OneStartNeverCrashes` needs `WgIsSpawned` to know whose Add and Wait
  met. `Refinement` shows each step to be a step of `Mailbox` or a stutter.
- `RoomService_proofs`. First the room alone: `GInv` is `RosterInv`, what the actor says of
  its own state (capacity, owner, script), and `LobbyInv`, what the row says of the actor
  and why (`players # {} => used`). The handlers are proved one by one, each for the roster
  under any status of the row, so that they can be used again behind the service, where
  `LobbyInv` fails (CloseRoom writes the row of a room that goes on; a restart leaves a row
  that says playing). There `RInv` carries `RosterInv`, so capacity, ownership and the
  script hold with requests, shutdowns and restarts in between, and `RowTracksActor` and the
  rest are carried over messages still in the inbox: a start there is covered like a game
  that runs (`StartIsCovered`), a join like a player who is in (`JoinsAreRecorded`), and the
  room is untouched before Register has started it (`UntouchedBeforeStart`). `EngineInv`
  ties a Destroy that panicked to the interval it panicked on, which stays: such a room is
  never closed later. `RosterFrozen` is an action property shown from `RInv`.
  `ActorImplementsRoom` and `ServiceImplementsRoom` show each step of the actor alone, and
  of the actor behind the service, to be a step of `Room` or a stutter (`HandlersImplement`
  is the lemma both rest on).
- `Engine_proofs`. `EInv` adds to the run's properties that a VM set to nil has no hook
  running in it, without which a hook could arm a timer after Destroy. `ArmedAreCounted` is
  inductive because neither a firing nor a failed clear takes an entry off the map, and an
  interval's entry makes every Destroy panic. `NoHookUnwatched`: a hook that runs has its
  timeout armed, or an interrupt on its way or raised, though timeouts of earlier hooks and
  Destroy share the flag.
- `Gateway_proofs`. A map entry tells where in Register or Unregister its connection is
  (`PlayerEntries`, `RoomEntries`, in `EntriesInv`), and the other way round for a player's
  only connection (`AloneInIndex`, `AloneInRoom`); without either direction a
  `CompareAndDelete` could keep an entry of somebody gone or take one of somebody alone. The
  counter is the number of connections between two of their steps (`CountTracks`), argued
  with the cardinality lemmas for adding and removing an element. `EventsInv` orders the
  events: a connection has of a room nothing newer than the room's last broadcast, and that
  one only if its player has had his turn in it, and has not left the map since.
  `NothingMisdelivered` is an action property (`EventsReachTheirOwn`): whatever entries an
  old connection has left behind, a message goes to a registered connection of the room that
  broadcasts it whose player is not excepted, or of the player it is sent to.
- `ActorSystem_proofs`. `SInv` follows an actor that was stored: it stays within reach of
  the map or of an Unregister until it is stopped (`StoredAreInReach`), the Range finds for
  its id no other actor (`RangeFinds`), and after the Range a goroutine of Shutdown has it
  in hand (`WaitHasAll`). `CountTracksRegistry` is inductive with it.
- `Accounts_proofs`. `Distinct` needs the unique indexes and nothing else, which the mutant
  without them shows. `RevokedIsRejected` is carried by `TInv`: a revoked token's key
  outlives it (`KeysOutlive`), because the time to live a revocation is about to write
  covers what is left by then (`TtlCovers`).
- `Catalog_proofs`. `CInv`: an upload that has met no other (`AloneMeetsNone`) finds its own
  package in its file (`FileIsOwn`) and has its own entries where it has written, on paths
  that are its version's alone (`WrittenIsOwn`); the row it then makes takes that over to
  `VersionHasPackage`, and whoever writes the version later puts it into `mixed`. `CacheInv`
  says where every copy in Redis, and every value a reader is about to put there, comes
  from; so a cached latest version, however stale, is a row the table has
  (`CachedVersionIsThere`), though nobody tells the cache of a change.
- `ClientConnection_proofs`. `CInv` has three parts. `ProxyStage` counts: while the handler
  copies, the reports in its channel and the copiers that still owe one are two, and once it
  has returned there is at most one to come. `SocketInv` ties the page's socket to the
  proxy's handler. `StatusTells` says, for a polite page, where its one socket, its timer
  and its heartbeat are by the status it is shown; `SocketIsSingle` is a part of it and not
  inductive without it. `DisconnectIsFinal` is an action property: only `connect` ends
  `disconnected`.

Some of these invariants state the safety a liveness property rests on: that what is waited
for has somebody left to do it. `NobodyStranded` in `BaseActor_proofs` does for
`AcceptedIsHandled` and `StopEventuallyReturns` (a parked `Wait` has a goroutine still to
call Done, a message in the channel a goroutine that will come to it), `HookIsWatched` for
`HookEnds`, `NoLimbo` for `AttemptEnds` and `NobodyWaitsInVain` for `ProxyEnds`. The step
from there to the liveness property is fairness and stays with TLC. These four, like
`EventsReachTheirOwn`, `DisconnectIsFinal` and `CachedVersionExists`, are stated beside
their proofs and not in a configuration, and the inductive invariants other than `IInv`
(`GInv`, `RInv`, `EInv` and so on) are in no configuration either; TLC found each to hold on
the run's instance.

Only model-checked: the liveness properties (`AcceptedIsHandled`, `StopEventuallyReturns`,
`HookEnds`, `ShutdownReturns`, `StatusTakesEffect`, `EventuallyFresh`, `AttemptEnds`,
`ProxyEnds`), since neither fairness nor ENABLED is within the prover's reach, and of course
the properties that fail.

## What is not modelled

- *Rooms.* Recovery of rows after a crash: the code has none. Payloads, nicknames and the
  broadcasts of the room's actor, so neither who has been told `all_ready` nor the chat that
  is broadcast to no room. The listings and their paging.
- *Gateway.* Pings, deadlines and `msgCount`; the two pumps are the two ends of the buffer.
- *Engine.* LoadScript, the SDK text, the script's own state, and the host functions that
  touch neither timers nor the VM (randomInt, shuffle, JSON). A script's calls of them
  happen inside a hook.
- *ActorSystem.* An Unregister that is between its two map operations when the map is
  replaced: no route calls Unregister, and the replacement is modelled against Register.
- *Accounts.* Passwords, e-mail formats, the session row (written, never read), listings. A
  service started without Redis, where BlacklistToken answers nil and does nothing. Two
  logins of one user in one second, which sign the same string. A WebSocket that stays open
  after its token has expired: nothing looks at the token again.
- *Catalog.* What a manifest says beyond being acceptable, sizes, the other columns of an
  update. PublishGame does not note the version it was asked for, so there is none in the
  model. Ids that do not parse. A temporary file that cannot be written: it is like a
  refusal, but the file is left behind.
- *Client.* Messages, GameClient's dispatch to hooks, hooks that call back into the
  connection, a `new WebSocket` that throws. A network that is silent without closing: the
  proxy's library answers the pings, so neither end finds out.
- *Proxy.* The HTTP reverse proxy and static files hold no state.
- *Not at all.* Configuration, database and Redis set-up, response and error formatting, the
  handlers that parse and format around modelled methods, generated protocol code, the
  server SDK's stubs, deployment, and the example game, a script above the platform.

`PROJECT.json` lists each part with its reason, and the hazards that no property covers with
theirs.

## Plan

Done, in this order: `BaseActor` with `Mailbox`, `GameActor`, `RoomService` over it,
`Gateway`, `Engine` and their proofs; then `ActorSystem`, `Accounts` and `Catalog` over
`CacheAside`, `ClientConnection` over `WsProxy`, and the proofs about the gateway and all of
these; `Room`, and the proof that both the actor and the service implement it.

Next:

1. Liveness of a room: a join that was answered is handled, over `RoomService` with the
   actor's fairness.
2. The broadcasts of a room as a variable of `GameActor`, so that `all_ready` can be said to
   reach somebody when the one player who was not ready leaves.
3. An abstract gateway (who hears what, without maps) and `Gateway` shown to implement it;
   an abstract registry for `ActorSystem` likewise.
4. `StatusTakesEffect`'s safety core in `Accounts`: no copy of a status outlives its time.
5. `Blackjack`: the phases, turns and chips of the example script, with the engine's timers,
   which never call a script's callback.
