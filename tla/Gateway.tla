-------------------------------- MODULE Gateway --------------------------------
(***************************************************************************)
(* pkg/websocket: the gateway every room's events go through.  ServeWS     *)
(* registers a connection in three maps, its ReadPump unregisters it when  *)
(* the peer is gone, and each room's actor broadcasts and sends meanwhile. *)
(* The steps of all of them interleave.  The members of a room are a plain *)
(* Go map without a lock (roomMu is never used): two accesses at once, one *)
(* of them a write, may make the runtime throw, which ends the process.    *)
(*                                                                         *)
(* ReadMessage, WriteMessage and the pings are external: a peer may go at  *)
(* any moment, and WritePump takes messages as long as the peer is there.  *)
(***************************************************************************)
EXTENDS Naturals, Sequences, FiniteSets

CONSTANTS Conns, Players, Rooms,
          None,       \* no entry in a map
          SendBuf,    \* capacity of a connection's send channel
          MaxEvents   \* bound: events each room's actor emits

ASSUME SendBufAssumption == SendBuf \in Nat \ {0}
ASSUME MaxEventsAssumption == MaxEvents \in Nat
ASSUME FiniteAssumption == IsFiniteSet(Conns)

VARIABLES
  conn,        \* per connection: its player and room once upgraded
  pc,          \* per connection: how far ServeWS or Unregister is
  conns,       \* the registry
  playerConns, \* the player index
  rooms,       \* per room: None, or the member map
  count,       \* connCount
  wire,        \* per connection: everything its send channel has taken
  taken,       \* per connection: how much of it WritePump took
  emit,        \* per room: events so far; the broadcast under way, whom it leaves out, whom
               \* it owes, whom it has seen
  process,     \* "up", or how it ended: "panic", "throw"
  alone        \* history: connections whose player never had another one meanwhile

vars == <<conn, pc, conns, playerConns, rooms, count, wire, taken, emit, process, alone>>

Member == [Players -> Conns \union {None}]
Asked == [player : Players, room : Rooms]
Message == [room : Rooms \union {None}, n : 0..MaxEvents]
ASSUME NoneAssumption == None \notin Conns \union Rooms \union Member \union Asked

Empty == [p \in Players |-> None]
Members(m) == {p \in Players : m[p] # None}

Init ==
  /\ conn = [c \in Conns |-> None] /\ pc = [c \in Conns |-> "new"]
  /\ conns = {} /\ playerConns = Empty /\ rooms = [r \in Rooms |-> None] /\ count = 0
  /\ wire = [c \in Conns |-> <<>>] /\ taken = [c \in Conns |-> 0]
  /\ emit = [r \in Rooms |-> [busy |-> FALSE, n |-> 0, cur |-> 0, but |-> {}, owed |-> {}, seen |-> {}]]
  /\ process = "up" /\ alone = {}

Goto(c, at) == pc' = [pc EXCEPT ![c] = at]
InUse == {c \in Conns : pc[c] \notin {"new", "gone"}}
OthersOf(c, p) == {d \in InUse \ {c} : conn[d].player = p}

\* sendJSON: a closed connection and a full channel drop the message.
Closed(c) == pc[c] \in {"unplayer", "unroom", "gone"}
Put(w, c, m) == IF Closed(c) \/ Len(wire[c]) - taken[c] >= SendBuf
                THEN w ELSE [w EXCEPT ![c] = Append(@, m)]

------------------------------------------------------------------------------
\* ServeWS: the upgrade, then Register's conns.Store ...
Connect(c, p, r) ==
  /\ process = "up" /\ pc[c] = "new"
  /\ conn' = [conn EXCEPT ![c] = [player |-> p, room |-> r]]
  /\ conns' = conns \union {c} /\ Goto(c, "player")
  /\ alone' = (IF OthersOf(c, p) = {} THEN alone \union {c} ELSE alone) \ OthersOf(c, p)
  /\ UNCHANGED <<playerConns, rooms, count, wire, taken, emit, process>>

\* ... playerConns.Store and the counter, which nothing reads in between ...
StorePlayer(c) ==
  /\ process = "up" /\ pc[c] = "player"
  /\ playerConns' = [playerConns EXCEPT ![conn[c].player] = c]
  /\ count' = count + 1 /\ Goto(c, "room")
  /\ UNCHANGED <<conn, conns, rooms, wire, taken, emit, process, alone>>

\* ... and addToRoom.  A loser of LoadOrStore tries again: one of the two is first.
AddToRoom(c) ==
  /\ process = "up" /\ pc[c] = "room" /\ Goto(c, "welcome")
  /\ LET room == rooms[conn[c].room]
     IN rooms' = [rooms EXCEPT ![conn[c].room] =
                    [IF room = None THEN Empty ELSE room EXCEPT ![conn[c].player] = c]]
  /\ UNCHANGED <<conn, conns, playerConns, count, wire, taken, emit, process, alone>>

\* The welcome message; then the pumps run.
Welcome(c) ==
  /\ process = "up" /\ pc[c] = "welcome" /\ Goto(c, "open")
  /\ wire' = Put(wire, c, [room |-> None, n |-> 0])
  /\ UNCHANGED <<conn, conns, playerConns, rooms, count, taken, emit, process, alone>>

\* Unregister without the test that it is the first one for the connection.
DropTwice(c) ==
  /\ process = "up" /\ pc[c] \in {"open", "gone"}
  /\ conns' = conns \ {c} /\ Goto(c, "unplayer")
  /\ UNCHANGED <<conn, playerConns, rooms, count, wire, taken, emit, process, alone>>

\* The peer is gone, or silent for pongWait: ReadPump returns, and Unregister begins with
\* conns.LoadAndDelete and closed.
Drop(c) ==
  /\ process = "up" /\ pc[c] = "open" /\ c \in conns
  /\ conns' = conns \ {c} /\ Goto(c, "unplayer")
  /\ UNCHANGED <<conn, playerConns, rooms, count, wire, taken, emit, process, alone>>

\* The player index left to the next Register.
DeletePlayerForgotten(c) ==
  /\ process = "up" /\ pc[c] = "unplayer"
  /\ playerConns' = playerConns
  /\ count' = count - 1 /\ Goto(c, "unroom")
  /\ UNCHANGED <<conn, conns, rooms, wire, taken, emit, process, alone>>

\* playerConns.Delete and the counter: the entry goes whichever connection it names.
DeletePlayer(c) ==
  /\ process = "up" /\ pc[c] = "unplayer"
  /\ playerConns' = [playerConns EXCEPT ![conn[c].player] = None]
  /\ count' = count - 1 /\ Goto(c, "unroom")
  /\ UNCHANGED <<conn, conns, rooms, wire, taken, emit, process, alone>>

\* removeFromRoom: CompareAndDelete of an empty room compares two values of a map type,
\* which panics in ReadPump's goroutine, where nothing recovers.  A range under way forgets
\* the key: if it is inserted anew, the range may come to it, again or not at all.
RemoveFromRoom(c) ==
  /\ process = "up" /\ pc[c] = "unroom" /\ Goto(c, "gone")
  /\ LET r == conn[c].room
         p == conn[c].player
         left == [rooms[r] EXCEPT ![p] = None]
     IN /\ rooms' = [rooms EXCEPT ![r] = left]
        /\ process' = IF Members(left) = {} THEN "panic" ELSE "up"
        /\ emit' = [emit EXCEPT ![r].owed = @ \ {p}, ![r].seen = @ \ {p}]
  /\ UNCHANGED <<conn, conns, playerConns, count, wire, taken, alone>>

\* WritePump.
Flush(c) ==
  /\ process = "up" /\ pc[c] = "open" /\ taken[c] < Len(wire[c])
  /\ taken' = [taken EXCEPT ![c] = @ + 1]
  /\ UNCHANGED <<conn, pc, conns, playerConns, rooms, count, wire, emit, process, alone>>

------------------------------------------------------------------------------
\* BroadcastToRoom and SendExcept by the room's actor: a range over the member map, past
\* the excepted players.  A member who stays is visited once, one who comes meanwhile
\* perhaps, one who goes before his turn not.
BroadcastBegin(r, except) ==
  /\ process = "up" /\ ~emit[r].busy /\ emit[r].n < MaxEvents
  /\ emit' = IF rooms[r] = None THEN [emit EXCEPT ![r].n = @ + 1]
             ELSE [emit EXCEPT ![r] = [n |-> @.n + 1, cur |-> @.n + 1, busy |-> TRUE, but |-> except,
                                       owed |-> Members(rooms[r]) \ except, seen |-> {}]]
  /\ UNCHANGED <<conn, pc, conns, playerConns, rooms, count, wire, taken, process, alone>>

BroadcastStep(r, p) ==
  /\ process = "up" /\ emit[r].busy
  /\ p \in Members(rooms[r]) \ (emit[r].but \union emit[r].seen)
  /\ wire' = Put(wire, rooms[r][p], [room |-> r, n |-> emit[r].cur])
  /\ emit' = [emit EXCEPT ![r].seen = @ \union {p}]
  /\ UNCHANGED <<conn, pc, conns, playerConns, rooms, count, taken, process, alone>>

BroadcastEnd(r) ==
  /\ process = "up" /\ emit[r].busy /\ emit[r].owed \subseteq emit[r].seen
  /\ emit' = [emit EXCEPT ![r] = [n |-> @.n, cur |-> 0, busy |-> FALSE,
                                  but |-> {}, owed |-> {}, seen |-> {}]]
  /\ UNCHANGED <<conn, pc, conns, playerConns, rooms, count, wire, taken, process, alone>>

\* SendTo by another goroutine than the room's actor.
SendToConcurrent(r, p) ==
  /\ process = "up" /\ emit[r].n < MaxEvents
  /\ emit' = [emit EXCEPT ![r].n = @ + 1]
  /\ wire' = IF playerConns[p] = None THEN wire
             ELSE Put(wire, playerConns[p], [room |-> r, n |-> emit[r].n + 1])
  /\ UNCHANGED <<conn, pc, conns, playerConns, rooms, count, taken, process, alone>>

\* SendTo by the room's actor, which is not broadcasting then.
SendTo(r, p) ==
  /\ process = "up" /\ ~emit[r].busy /\ emit[r].n < MaxEvents
  /\ emit' = [emit EXCEPT ![r].n = @ + 1]
  /\ wire' = IF playerConns[p] = None THEN wire
             ELSE Put(wire, playerConns[p], [room |-> r, n |-> emit[r].n + 1])
  /\ UNCHANGED <<conn, pc, conns, playerConns, rooms, count, taken, process, alone>>

\* Two accesses to one member map at once, a write among them: the runtime may throw.
Writers(r) == {c \in InUse : conn[c].room = r /\ rooms[r] # None /\ pc[c] \in {"room", "unroom"}}
Throw(r) ==
  /\ process = "up"
  /\ Cardinality(Writers(r)) >= 2 \/ (emit[r].busy /\ Writers(r) # {})
  /\ process' = "throw"
  /\ UNCHANGED <<conn, pc, conns, playerConns, rooms, count, wire, taken, emit, alone>>

Next == \/ \E c \in Conns, p \in Players, r \in Rooms : Connect(c, p, r)
        \/ \E c \in Conns : \/ StorePlayer(c) \/ AddToRoom(c) \/ Welcome(c) \/ Flush(c)
                            \/ Drop(c) \/ DeletePlayer(c) \/ RemoveFromRoom(c)
        \/ \E r \in Rooms : BroadcastBegin(r, {}) \/ BroadcastEnd(r) \/ Throw(r)
        \/ \E r \in Rooms, p \in Players : BroadcastBegin(r, {p})
        \/ \E r \in Rooms, p \in Players : BroadcastStep(r, p) \/ SendTo(r, p)

Spec == Init /\ [][Next]_vars

------------------------------------------------------------------------------
Emission == [busy : BOOLEAN, n : 0..MaxEvents, cur : 0..MaxEvents,
             but : SUBSET Players, owed : SUBSET Players, seen : SUBSET Players]
TypeOK ==
  /\ conn \in [Conns -> Asked \union {None}]
  /\ pc \in [Conns -> {"new", "player", "room", "welcome", "open", "unplayer", "unroom", "gone"}]
  /\ \A c \in Conns : conn[c] = None <=> pc[c] = "new"
  /\ conns \in SUBSET Conns /\ playerConns \in Member
  /\ rooms \in [Rooms -> Member \union {None}] /\ count \in Nat
  /\ wire \in [Conns -> Seq(Message)]
  /\ taken \in [Conns -> Nat] /\ \A c \in Conns : Len(wire[c]) - taken[c] \in 0..SendBuf
  /\ emit \in [Rooms -> Emission]
  /\ process \in {"up", "panic", "throw"} /\ alone \in SUBSET Conns

\* No map still names a connection whose Unregister has run to its end, with any other
\* connections of the same player or room coming and going (gateway.go:124-148).
NoneRefersToGone ==
  \A c \in Conns : pc[c] = "gone" =>
    /\ c \notin conns
    /\ \A p \in Players : playerConns[p] # c
    /\ \A r \in Rooms : rooms[r] # None => \A p \in Players : rooms[r][p] # c

\* The counter is right whenever no Register or Unregister is under way, and never below
\* zero meanwhile (110, 137).
Settled == \A c \in Conns : pc[c] \in {"new", "welcome", "open", "gone"}
CountIsExact == count >= 0 /\ (Settled => count = Cardinality(conns))

\* An open connection whose player has never had another one at the same time is the one
\* SendTo finds and the one his room broadcasts to (gateway.go:107-115, 151-187).
AloneIsReachable ==
  \A c \in alone : pc[c] = "open" /\ process = "up" =>
    playerConns[conn[c].player] = c /\ rooms[conn[c].room][conn[c].player] = c

\* What a connection gets of a room's events comes in the order its actor emitted them,
\* with gaps for the dropped ones and no repeats (150-210, 318-331).
EventsInOrder ==
  \A c \in Conns : \A i, j \in 1..Len(wire[c]) :
    i < j /\ wire[c][i].room = wire[c][j].room => wire[c][i].n < wire[c][j].n

\* The inductive invariants behind these.  A map names a connection under its own player and
\* room, and between two of its steps only ...
RegistryEntries == conns = {c \in Conns : pc[c] \in {"player", "room", "welcome", "open"}}
PlayerEntries == \A p \in Players : playerConns[p] # None =>
                   /\ pc[playerConns[p]] \in {"room", "welcome", "open", "unplayer"}
                   /\ conn[playerConns[p]].player = p
RoomEntries == \A r \in Rooms : rooms[r] # None => \A p \in Players : rooms[r][p] # None =>
                 /\ pc[rooms[r][p]] \in {"welcome", "open", "unplayer", "unroom"}
                 /\ conn[rooms[r][p]] = [player |-> p, room |-> r]
RoomsStay == /\ \A c \in Conns : pc[c] \in {"welcome", "open", "unplayer", "unroom"} =>
                  rooms[conn[c].room] # None
             /\ \A r \in Rooms : emit[r].busy => rooms[r] # None
\* ... those of a player's only connection are there from step to step ...
AloneIsAlone == \A c \in alone : /\ pc[c] # "new"
                                 /\ c \in InUse => \A d \in InUse \ {c} :
                                                     conn[d].player # conn[c].player
AloneInIndex == \A c \in alone : pc[c] \in {"room", "welcome", "open", "unplayer"} =>
                  playerConns[conn[c].player] = c
AloneInRoom == \A c \in alone : pc[c] \in {"welcome", "open", "unplayer", "unroom"} =>
                 rooms[conn[c].room][conn[c].player] = c
Counted == {c \in Conns : pc[c] \in {"room", "welcome", "open", "unplayer"}}
CountTracks == count = Cardinality(Counted)
EntriesInv == /\ TypeOK /\ RegistryEntries /\ PlayerEntries /\ RoomEntries /\ RoomsStay
              /\ AloneIsAlone /\ AloneInIndex /\ AloneInRoom
MapsInv == EntriesInv /\ CountTracks

\* ... and a connection has of a room the events so far at most, of the broadcast under way
\* only if its player's entry had its turn and no entry that is to come names it, and of
\* welcome messages one.
EventsArePast == \A c \in Conns : \A i \in 1..Len(wire[c]) : \A r \in Rooms :
                   wire[c][i].room = r => wire[c][i].n <= emit[r].n
Served(c, r) == /\ pc[c] \notin {"new", "player", "room"} /\ conn[c].room = r
                /\ conn[c].player \in emit[r].seen \/ rooms[r][conn[c].player] # c
CurrentIsSeen == \A r \in Rooms : emit[r].busy =>
                   /\ emit[r].cur = emit[r].n
                   /\ \A c \in Conns : \A i \in 1..Len(wire[c]) :
                        wire[c][i] = [room |-> r, n |-> emit[r].n] => Served(c, r)
WelcomeOnce == \A c \in Conns : pc[c] \in {"new", "player", "room", "welcome"} =>
                 \A i \in 1..Len(wire[c]) : wire[c][i].room # None
EventsInv == EventsArePast /\ CurrentIsSeen /\ WelcomeOnce /\ EventsInOrder

\* "Clean up empty room" (gateway.go:311): a room without members is not left behind.
EmptyRoomCleaned == \A r \in Rooms : rooms[r] # None => Members(rooms[r]) # {}
==============================================================================
