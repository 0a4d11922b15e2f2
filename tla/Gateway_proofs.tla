----------------------------- MODULE Gateway_proofs -----------------------------
(***************************************************************************)
(* What the gateway's three maps say of a connection, and in which order it  *)
(* gets a room's events, for any numbers of connections, players and rooms.  *)
(***************************************************************************)
EXTENDS Gateway, FiniteSetTheorems, TLAPS

\* A connection in use, and one that has been upgraded, has a player and a room.
LEMMA AskedType ==
  ASSUME TypeOK, NEW c \in Conns, pc[c] # "new"
  PROVE  conn[c] \in Asked /\ conn[c].player \in Players /\ conn[c].room \in Rooms
  BY DEF TypeOK, Asked

\* What a connection has got are messages.
LEMMA WireType ==
  ASSUME TypeOK, NEW c \in Conns, NEW i \in 1..Len(wire[c])
  PROVE  wire[c][i] \in Message /\ wire[c][i].n \in Nat
<1>1. wire[c] \in Seq(Message)
  BY DEF TypeOK
<1>2. wire[c][i] \in Message
  BY <1>1
<1> QED
  BY <1>2, MaxEventsAssumption DEF Message

\* What Put may do: nothing, or one message at the end where there is room for it.
LEMMA PutAppends ==
  ASSUME TypeOK, NEW c \in Conns, NEW m \in Message, wire' = Put(wire, c, m), taken' = taken
  PROVE  /\ wire' \in [Conns -> Seq(Message)]
         /\ \A d \in Conns : Len(wire'[d]) - taken'[d] \in 0..SendBuf
         /\ \A d \in Conns : \A i \in 1..Len(wire'[d]) :
              \/ i \in 1..Len(wire[d]) /\ wire'[d][i] = wire[d][i]
              \/ d = c /\ i = Len(wire[c]) + 1 /\ wire'[d][i] = m
         /\ \A d \in Conns : Len(wire'[d]) \in {Len(wire[d]), Len(wire[d]) + 1}
<1> USE SendBufAssumption
<1>1. wire \in [Conns -> Seq(Message)] /\ taken \in [Conns -> Nat]
  BY DEF TypeOK
<1>2. \A d \in Conns : Len(wire[d]) \in Nat /\ Len(wire[d]) - taken[d] \in 0..SendBuf
  BY <1>1 DEF TypeOK
<1>3. CASE wire' = wire
  BY <1>1, <1>2, <1>3
<1>4. CASE /\ wire' = [wire EXCEPT ![c] = Append(@, m)]
           /\ ~(Len(wire[c]) - taken[c] >= SendBuf)
  <2>1. wire[c] \in Seq(Message)
    BY <1>1
  <2>2. /\ Append(wire[c], m) \in Seq(Message)
        /\ Len(Append(wire[c], m)) = Len(wire[c]) + 1
        /\ \A i \in 1..Len(wire[c]) : Append(wire[c], m)[i] = wire[c][i]
        /\ Append(wire[c], m)[Len(wire[c]) + 1] = m
    BY <2>1
  <2>3. wire'[c] = Append(wire[c], m) /\ \A d \in Conns \ {c} : wire'[d] = wire[d]
    BY <1>1, <1>4
  <2>4. wire' \in [Conns -> Seq(Message)]
    BY <1>1, <1>4, <2>2
  <2>5. \A d \in Conns : Len(wire'[d]) - taken'[d] \in 0..SendBuf
    BY <1>1, <1>2, <1>4, <2>2, <2>3
  <2>6. \A i \in 1..Len(wire'[c]) : \/ i \in 1..Len(wire[c]) /\ wire'[c][i] = wire[c][i]
                                    \/ i = Len(wire[c]) + 1 /\ wire'[c][i] = m
    BY <1>2, <2>2, <2>3
  <2>7. \A d \in Conns \ {c} : \A i \in 1..Len(wire'[d]) :
          i \in 1..Len(wire[d]) /\ wire'[d][i] = wire[d][i]
    BY <2>3
  <2> QED
    BY <2>2, <2>3, <2>4, <2>5, <2>6, <2>7
<1> QED
  BY <1>3, <1>4 DEF Put

------------------------------------------------------------------------------
\* Nobody is connected.
LEMMA InitMaps == Init => EntriesInv
<1> SUFFICES ASSUME Init PROVE EntriesInv
  OBVIOUS
<1>1. /\ conn = [c \in Conns |-> None] /\ pc = [c \in Conns |-> "new"] /\ conns = {}
      /\ playerConns = [p \in Players |-> None] /\ rooms = [r \in Rooms |-> None]
      /\ alone = {} /\ count = 0 /\ process = "up"
      /\ wire = [c \in Conns |-> <<>>] /\ taken = [c \in Conns |-> 0]
      /\ \A r \in Rooms : ~emit[r].busy
  BY DEF Init, Empty
<1>2. emit \in [Rooms -> Emission]
  <2>1. 0 \in 0..MaxEvents
    BY MaxEventsAssumption
  <2>2. [busy |-> FALSE, n |-> 0, cur |-> 0, but |-> {}, owed |-> {}, seen |-> {}] \in Emission
    BY <2>1 DEF Emission
  <2> QED
    BY <2>2 DEF Init
<1>3. wire \in [Conns -> Seq(Message)]
  BY <1>1
<1>4. \A c \in Conns : Len(wire[c]) - taken[c] \in 0..SendBuf
  BY <1>1, SendBufAssumption
<1>5. TypeOK
  BY <1>1, <1>2, <1>3, <1>4 DEF TypeOK, Member
<1>6. /\ RegistryEntries /\ PlayerEntries /\ RoomEntries /\ RoomsStay
      /\ AloneIsAlone /\ AloneInIndex /\ AloneInRoom
  BY <1>1 DEF RegistryEntries, PlayerEntries, RoomEntries, RoomsStay, AloneIsAlone,
              AloneInIndex, AloneInRoom
<1> QED
  BY <1>5, <1>6 DEF EntriesInv

\* Register's first step: the player's other connections are no longer alone.
LEMMA ConnectMaps ==
  ASSUME EntriesInv, NEW c \in Conns, NEW p \in Players, NEW r \in Rooms, Connect(c, p, r)
  PROVE  EntriesInv'
<1>1. /\ pc[c] = "new" /\ pc' = [pc EXCEPT ![c] = "player"]
      /\ conn' = [conn EXCEPT ![c] = [player |-> p, room |-> r]]
      /\ conns' = conns \union {c}
      /\ alone' = (IF OthersOf(c, p) = {} THEN alone \union {c} ELSE alone) \ OthersOf(c, p)
      /\ UNCHANGED <<playerConns, rooms, count, wire, taken, emit, process>>
  BY DEF Connect, Goto
<1>2. [player |-> p, room |-> r] \in Asked /\ None \notin Asked
  BY NoneAssumption DEF Asked
<1>3. TypeOK'
  BY <1>1, <1>2 DEF EntriesInv, TypeOK
<1>4. pc'[c] = "player" /\ conn'[c] = [player |-> p, room |-> r]
      /\ \A d \in Conns \ {c} : pc'[d] = pc[d] /\ conn'[d] = conn[d]
  BY <1>1 DEF EntriesInv, TypeOK
<1>5. RegistryEntries' /\ PlayerEntries' /\ RoomEntries' /\ RoomsStay'
  BY <1>1, <1>4 DEF EntriesInv, TypeOK, Member, RegistryEntries, PlayerEntries, RoomEntries, RoomsStay
<1>6. AloneIsAlone'
  <2>4. \A d \in alone' : pc'[d] # "new"
    BY <1>1, <1>4 DEF EntriesInv, TypeOK, AloneIsAlone
  <2> SUFFICES ASSUME NEW d \in alone', d \in InUse', NEW e \in InUse', e # d
               PROVE  conn'[e].player # conn'[d].player
    BY <2>4 DEF AloneIsAlone
  <2>1. InUse' = InUse \union {c} /\ c \notin InUse
    BY <1>1, <1>4 DEF InUse
  <2>2. CASE d = c
    <3>1. OthersOf(c, p) = {} /\ e \in InUse \ {c}
      BY <1>1, <2>1, <2>2 DEF EntriesInv, AloneIsAlone
    <3> QED
      BY <1>4, <2>2, <3>1 DEF OthersOf, InUse
  <2>3. CASE e = c
    BY <1>1, <1>4, <2>1, <2>3 DEF OthersOf
  <2>5. CASE d # c /\ e # c
    BY <1>1, <1>4, <2>1, <2>5 DEF EntriesInv, AloneIsAlone, InUse
  <2> QED
    BY <2>2, <2>3, <2>5
<1>7. AloneInIndex' /\ AloneInRoom'
  BY <1>1, <1>4 DEF EntriesInv, TypeOK, AloneInIndex, AloneInRoom
<1> QED
  BY <1>3, <1>5, <1>6, <1>7 DEF EntriesInv

\* playerConns.Store: whoever had the index before is not alone.
LEMMA StorePlayerMaps ==
  ASSUME EntriesInv, NEW c \in Conns, StorePlayer(c)
  PROVE  EntriesInv'
<1>1. /\ pc[c] = "player" /\ pc' = [pc EXCEPT ![c] = "room"]
      /\ playerConns' = [playerConns EXCEPT ![conn[c].player] = c] /\ count' = count + 1
      /\ UNCHANGED <<conn, conns, rooms, wire, taken, emit, process, alone>>
  BY DEF StorePlayer, Goto
<1>2. conn[c].player \in Players
  BY <1>1, AskedType DEF EntriesInv
<1>3. TypeOK'
  BY <1>1, <1>2 DEF EntriesInv, TypeOK, Member
<1>4. pc'[c] = "room" /\ \A d \in Conns \ {c} : pc'[d] = pc[d]
  BY <1>1 DEF EntriesInv, TypeOK
<1>5. playerConns'[conn[c].player] = c
      /\ \A p \in Players \ {conn[c].player} : playerConns'[p] = playerConns[p]
  BY <1>1, <1>2 DEF EntriesInv, TypeOK, Member
<1>6. InUse' = InUse /\ c \in InUse
  BY <1>1, <1>4 DEF InUse
<1>7. RegistryEntries' /\ RoomEntries' /\ RoomsStay' /\ AloneIsAlone' /\ AloneInRoom'
  BY <1>1, <1>4, <1>6
     DEF EntriesInv, TypeOK, Member, RegistryEntries, RoomEntries, RoomsStay, AloneIsAlone, AloneInRoom
<1>8. PlayerEntries'
  BY <1>1, <1>2, <1>4, <1>5 DEF EntriesInv, TypeOK, Member, PlayerEntries
<1>9. AloneInIndex'
  <2> SUFFICES ASSUME NEW d \in alone, pc'[d] \in {"room", "welcome", "open", "unplayer"}
               PROVE  playerConns'[conn[d].player] = d
    BY <1>1 DEF AloneInIndex
  <2>1. CASE d = c
    BY <1>5, <2>1
  <2>2. CASE d # c
    <3>1. d \in Conns /\ pc[d] = pc'[d]
      BY <1>4, <2>2 DEF EntriesInv, TypeOK
    <3>2. d \in InUse
      BY <3>1 DEF InUse
    <3>3. conn[d].player # conn[c].player /\ conn[d].player \in Players
      BY <1>6, <2>2, <3>1, <3>2, AskedType DEF EntriesInv, AloneIsAlone
    <3> QED
      BY <1>5, <3>1, <3>3 DEF EntriesInv, AloneInIndex
  <2> QED
    BY <2>1, <2>2
<1> QED
  BY <1>3, <1>7, <1>8, <1>9 DEF EntriesInv

\* addToRoom, the same for the member map.
LEMMA AddToRoomMaps ==
  ASSUME EntriesInv, NEW c \in Conns, AddToRoom(c)
  PROVE  EntriesInv'
<1> DEFINE p == conn[c].player
           r == conn[c].room
           old == IF rooms[r] = None THEN Empty ELSE rooms[r]
<1>1. /\ pc[c] = "room" /\ pc' = [pc EXCEPT ![c] = "welcome"]
      /\ rooms' = [rooms EXCEPT ![r] = [old EXCEPT ![p] = c]]
      /\ UNCHANGED <<conn, conns, playerConns, count, wire, taken, emit, process, alone>>
  BY DEF AddToRoom, Goto
<1>2. conn[c] \in Asked /\ p \in Players /\ r \in Rooms
  BY <1>1, AskedType DEF EntriesInv
<1>3. old \in Member /\ [old EXCEPT ![p] = c] \in Member
  BY <1>2 DEF EntriesInv, TypeOK, Member, Empty
<1>4. TypeOK'
  BY <1>1, <1>2, <1>3 DEF EntriesInv, TypeOK
<1>5. pc'[c] = "welcome" /\ \A d \in Conns \ {c} : pc'[d] = pc[d]
  BY <1>1 DEF EntriesInv, TypeOK
<1>6. /\ rooms'[r] = [old EXCEPT ![p] = c] /\ rooms'[r] # None
      /\ \A q \in Rooms \ {r} : rooms'[q] = rooms[q]
  BY <1>1, <1>2, <1>3, NoneAssumption DEF EntriesInv, TypeOK
<1>7. /\ rooms'[r][p] = c
      /\ \A q \in Players \ {p} : rooms'[r][q] = old[q]
  BY <1>2, <1>3, <1>6 DEF Member
<1>8. InUse' = InUse /\ c \in InUse
  BY <1>1, <1>5 DEF InUse
<1>9. RegistryEntries' /\ PlayerEntries' /\ AloneIsAlone' /\ AloneInIndex'
  BY <1>1, <1>5, <1>8
     DEF EntriesInv, TypeOK, Member, RegistryEntries, PlayerEntries, AloneIsAlone, AloneInIndex
<1>10. RoomEntries'
  <2> SUFFICES ASSUME NEW s \in Rooms, rooms'[s] # None, NEW q \in Players, rooms'[s][q] # None
               PROVE  /\ pc'[rooms'[s][q]] \in {"welcome", "open", "unplayer", "unroom"}
                      /\ conn[rooms'[s][q]] = [player |-> q, room |-> s]
    BY <1>1 DEF RoomEntries
  <2>1. CASE s = r /\ q = p
    BY <1>2, <1>5, <1>7, <2>1 DEF Asked
  <2>2. CASE ~(s = r /\ q = p)
    <3>1. rooms[s] # None /\ rooms'[s][q] = rooms[s][q]
      BY <1>6, <1>7, <2>2 DEF Empty
    <3>2. /\ pc[rooms[s][q]] \in {"welcome", "open", "unplayer", "unroom"}
          /\ conn[rooms[s][q]] = [player |-> q, room |-> s]
      BY <3>1 DEF EntriesInv, RoomEntries
    <3>3. rooms[s][q] \in Conns
      BY <3>1 DEF EntriesInv, TypeOK, Member
    <3> QED
      BY <1>1, <1>5, <3>1, <3>2, <3>3
  <2> QED
    BY <2>1, <2>2
<1>11. RoomsStay'
  BY <1>1, <1>5, <1>6, AskedType DEF EntriesInv, RoomsStay
<1>12. AloneInRoom'
  <2> SUFFICES ASSUME NEW d \in alone, pc'[d] \in {"welcome", "open", "unplayer", "unroom"}
               PROVE  rooms'[conn[d].room][conn[d].player] = d
    BY <1>1 DEF AloneInRoom
  <2>1. CASE d = c
    BY <1>7, <2>1
  <2>2. CASE d # c
    <3>1. d \in Conns /\ pc[d] = pc'[d]
      BY <1>5, <2>2 DEF EntriesInv, TypeOK
    <3>2. d \in InUse
      BY <3>1 DEF InUse
    <3>3. conn[d].player # p /\ conn[d].player \in Players /\ conn[d].room \in Rooms
      BY <1>8, <2>2, <3>1, <3>2, AskedType DEF EntriesInv, AloneIsAlone
    <3>4. rooms[conn[d].room] # None /\ rooms[conn[d].room][conn[d].player] = d
      BY <3>1 DEF EntriesInv, RoomsStay, AloneInRoom
    <3> QED
      BY <1>6, <1>7, <3>3, <3>4
  <2> QED
    BY <2>1, <2>2
<1> QED
  BY <1>4, <1>9, <1>10, <1>11, <1>12 DEF EntriesInv

\* Unregister's first step.
LEMMA DropMaps ==
  ASSUME EntriesInv, NEW c \in Conns, Drop(c)
  PROVE  EntriesInv'
<1>1. /\ pc[c] = "open" /\ pc' = [pc EXCEPT ![c] = "unplayer"] /\ conns' = conns \ {c}
      /\ UNCHANGED <<conn, playerConns, rooms, count, wire, taken, emit, process, alone>>
  BY DEF Drop, Goto
<1>2. TypeOK'
  BY <1>1 DEF EntriesInv, TypeOK
<1>3. pc'[c] = "unplayer" /\ \A d \in Conns \ {c} : pc'[d] = pc[d]
  BY <1>1 DEF EntriesInv, TypeOK
<1>4. InUse' = InUse
  BY <1>1, <1>3 DEF InUse
<1> QED
  BY <1>1, <1>2, <1>3, <1>4
     DEF EntriesInv, TypeOK, Member, RegistryEntries, PlayerEntries, RoomEntries, RoomsStay,
         AloneIsAlone, AloneInIndex, AloneInRoom

\* playerConns.Delete: an entry of this player's goes, and no other is this connection's.
LEMMA DeletePlayerMaps ==
  ASSUME EntriesInv, NEW c \in Conns, DeletePlayer(c), count > 0
  PROVE  EntriesInv'
<1>1. /\ pc[c] = "unplayer" /\ pc' = [pc EXCEPT ![c] = "unroom"] /\ count' = count - 1
      /\ playerConns' = [playerConns EXCEPT ![conn[c].player] = None]
      /\ UNCHANGED <<conn, conns, rooms, wire, taken, emit, process, alone>>
  BY DEF DeletePlayer, Goto
<1>2. conn[c].player \in Players
  BY <1>1, AskedType DEF EntriesInv
<1>3. TypeOK'
  BY <1>1, <1>2 DEF EntriesInv, TypeOK, Member
<1>4. pc'[c] = "unroom" /\ \A d \in Conns \ {c} : pc'[d] = pc[d]
  BY <1>1 DEF EntriesInv, TypeOK
<1>5. playerConns'[conn[c].player] = None
      /\ \A p \in Players \ {conn[c].player} : playerConns'[p] = playerConns[p]
  BY <1>1, <1>2 DEF EntriesInv, TypeOK, Member
<1>6. InUse' = InUse /\ c \in InUse
  BY <1>1, <1>4 DEF InUse
<1>7. RegistryEntries' /\ RoomEntries' /\ RoomsStay' /\ AloneIsAlone' /\ AloneInRoom'
  BY <1>1, <1>4, <1>6
     DEF EntriesInv, TypeOK, Member, RegistryEntries, RoomEntries, RoomsStay, AloneIsAlone, AloneInRoom
<1>8. PlayerEntries'
  BY <1>1, <1>4, <1>5 DEF EntriesInv, TypeOK, Member, PlayerEntries
<1>9. AloneInIndex'
  <2> SUFFICES ASSUME NEW d \in alone, pc'[d] \in {"room", "welcome", "open", "unplayer"}
               PROVE  playerConns'[conn[d].player] = d
    BY <1>1 DEF AloneInIndex
  <2>1. d \in Conns /\ d # c /\ pc[d] = pc'[d]
    BY <1>4 DEF EntriesInv, TypeOK
  <2>2. d \in InUse
    BY <2>1 DEF InUse
  <2>3. conn[d].player # conn[c].player /\ conn[d].player \in Players
    BY <1>6, <2>1, <2>2, AskedType DEF EntriesInv, AloneIsAlone
  <2> QED
    BY <1>5, <2>1, <2>3 DEF EntriesInv, AloneInIndex
<1> QED
  BY <1>3, <1>7, <1>8, <1>9 DEF EntriesInv

\* removeFromRoom, the same for the member map.
LEMMA RemoveFromRoomMaps ==
  ASSUME EntriesInv, NEW c \in Conns, RemoveFromRoom(c)
  PROVE  EntriesInv'
<1> DEFINE p == conn[c].player
           r == conn[c].room
<1>1. /\ pc[c] = "unroom" /\ pc' = [pc EXCEPT ![c] = "gone"]
      /\ rooms' = [rooms EXCEPT ![r] = [rooms[r] EXCEPT ![p] = None]]
      /\ process' \in {"panic", "up"}
      /\ emit' = [emit EXCEPT ![r].owed = emit[r].owed \ {p}, ![r].seen = emit[r].seen \ {p}]
      /\ UNCHANGED <<conn, conns, playerConns, count, wire, taken, alone>>
  BY DEF RemoveFromRoom, Goto
<1>2. p \in Players /\ r \in Rooms
  BY <1>1, AskedType DEF EntriesInv
<1>3. rooms[r] \in Member /\ [rooms[r] EXCEPT ![p] = None] \in Member
  BY <1>1, <1>2 DEF EntriesInv, TypeOK, RoomsStay, Member
<1>4. TypeOK' /\ \A q \in Rooms : emit'[q].busy = emit[q].busy
  <2>1. emit[r] \in Emission
    BY <1>2 DEF EntriesInv, TypeOK
  <2>2. /\ emit'[r] = [emit[r] EXCEPT !.owed = emit[r].owed \ {p}, !.seen = emit[r].seen \ {p}]
        /\ \A q \in Rooms \ {r} : emit'[q] = emit[q]
    BY <1>1, <1>2 DEF EntriesInv, TypeOK
  <2>3. emit'[r] \in Emission /\ emit'[r].busy = emit[r].busy
    BY <2>1, <2>2 DEF Emission
  <2>4. emit' \in [Rooms -> Emission]
    BY <1>1, <2>3 DEF EntriesInv, TypeOK
  <2> QED
    BY <1>1, <1>3, <2>2, <2>3, <2>4 DEF EntriesInv, TypeOK
<1>5. pc'[c] = "gone" /\ \A d \in Conns \ {c} : pc'[d] = pc[d]
  BY <1>1 DEF EntriesInv, TypeOK
<1>6. /\ rooms'[r] = [rooms[r] EXCEPT ![p] = None] /\ rooms'[r] # None /\ rooms[r] # None
      /\ \A q \in Rooms \ {r} : rooms'[q] = rooms[q]
  BY <1>1, <1>2, <1>3, NoneAssumption DEF EntriesInv, TypeOK
<1>7. /\ rooms'[r][p] = None
      /\ \A q \in Players \ {p} : rooms'[r][q] = rooms[r][q]
  BY <1>2, <1>3, <1>6 DEF Member
<1>8. InUse' \subseteq InUse /\ c \in InUse
  BY <1>1, <1>5 DEF InUse
<1>9. RegistryEntries' /\ PlayerEntries' /\ AloneIsAlone' /\ AloneInIndex'
  BY <1>1, <1>5, <1>8
     DEF EntriesInv, TypeOK, Member, RegistryEntries, PlayerEntries, AloneIsAlone, AloneInIndex
<1>10. RoomEntries'
  <2> SUFFICES ASSUME NEW s \in Rooms, rooms'[s] # None, NEW q \in Players, rooms'[s][q] # None
               PROVE  /\ pc'[rooms'[s][q]] \in {"welcome", "open", "unplayer", "unroom"}
                      /\ conn[rooms'[s][q]] = [player |-> q, room |-> s]
    BY <1>1 DEF RoomEntries
  <2>1. ~(s = r /\ q = p) /\ rooms[s] # None /\ rooms'[s][q] = rooms[s][q]
    BY <1>6, <1>7
  <2>2. /\ pc[rooms[s][q]] \in {"welcome", "open", "unplayer", "unroom"}
        /\ conn[rooms[s][q]] = [player |-> q, room |-> s]
    BY <2>1 DEF EntriesInv, RoomEntries
  <2>3. rooms[s][q] \in Conns /\ rooms[s][q] # c
    BY <2>1, <2>2 DEF EntriesInv, TypeOK, Member
  <2> QED
    BY <1>5, <2>1, <2>2, <2>3
<1>11. RoomsStay'
  <2>1. \A q \in Rooms : rooms[q] # None => rooms'[q] # None
    BY <1>6
  <2>2. \A d \in Conns : pc'[d] \in {"welcome", "open", "unplayer", "unroom"} =>
          pc[d] = pc'[d] /\ conn[d].room \in Rooms
    BY <1>5, AskedType DEF EntriesInv
  <2> QED
    BY <1>1, <1>4, <2>1, <2>2 DEF EntriesInv, RoomsStay
<1>12. AloneInRoom'
  <2> SUFFICES ASSUME NEW d \in alone, pc'[d] \in {"welcome", "open", "unplayer", "unroom"}
               PROVE  rooms'[conn[d].room][conn[d].player] = d
    BY <1>1 DEF AloneInRoom
  <2>1. d \in Conns /\ d # c /\ pc[d] = pc'[d]
    BY <1>5 DEF EntriesInv, TypeOK
  <2>2. d \in InUse
    BY <2>1 DEF InUse
  <2>3. conn[d].player # p /\ conn[d].player \in Players /\ conn[d].room \in Rooms
    BY <1>8, <2>1, <2>2, AskedType DEF EntriesInv, AloneIsAlone
  <2> QED
    BY <1>6, <1>7, <2>1, <2>3 DEF EntriesInv, AloneInRoom
<1> QED
  BY <1>4, <1>9, <1>10, <1>11, <1>12 DEF EntriesInv

\* A step that sends, takes or emits moves nobody but through the welcome message.
LEMMA MessageMaps ==
  ASSUME EntriesInv, TypeOK', \A r \in Rooms : emit'[r].busy => rooms[r] # None,
         UNCHANGED <<conn, conns, playerConns, rooms, alone>>,
         pc' = pc \/ \E c \in Conns : pc[c] = "welcome" /\ pc' = [pc EXCEPT ![c] = "open"]
  PROVE  EntriesInv' /\ Counted' = Counted
<1>1. \A d \in Conns : pc'[d] = pc[d] \/ (pc[d] = "welcome" /\ pc'[d] = "open")
  BY DEF EntriesInv, TypeOK
<1>2. InUse' = InUse /\ Counted' = Counted
  BY <1>1 DEF InUse, Counted
<1> QED
  BY <1>1, <1>2
     DEF EntriesInv, TypeOK, Member, RegistryEntries, PlayerEntries, RoomEntries, RoomsStay,
         AloneIsAlone, AloneInIndex, AloneInRoom

------------------------------------------------------------------------------
\* The welcome message.
LEMMA WelcomeTypes ==
  ASSUME TypeOK, NEW c \in Conns, Welcome(c)
  PROVE  TypeOK' /\ [room |-> None, n |-> 0] \in Message
<1>1. [room |-> None, n |-> 0] \in Message
  BY MaxEventsAssumption DEF Message
<1>2. /\ wire' \in [Conns -> Seq(Message)]
      /\ \A d \in Conns : Len(wire'[d]) - taken'[d] \in 0..SendBuf
  BY <1>1, PutAppends DEF Welcome
<1> QED
  BY <1>1, <1>2 DEF Welcome, Goto, TypeOK

\* What a broadcast or SendTo puts on the wire is a message of its room.
LEMMA EmitTypes ==
  ASSUME EntriesInv, NEW r \in Rooms, NEW p \in Players, BroadcastStep(r, p) \/ SendTo(r, p)
  PROVE  TypeOK'
<1>1. emit[r] \in Emission /\ TypeOK
  BY DEF EntriesInv, TypeOK
<1>2. CASE BroadcastStep(r, p)
  <2>1. rooms[r] # None /\ rooms[r][p] \in Conns
    BY <1>2 DEF BroadcastStep, Members, EntriesInv, RoomsStay, TypeOK, Member
  <2>2. [room |-> r, n |-> emit[r].cur] \in Message
    BY <1>1 DEF Message, Emission
  <2>3. /\ wire' \in [Conns -> Seq(Message)]
        /\ \A d \in Conns : Len(wire'[d]) - taken'[d] \in 0..SendBuf
    BY <1>1, <1>2, <2>1, <2>2, PutAppends DEF BroadcastStep
  <2>4. emit' \in [Rooms -> Emission]
    <3>1. emit' = [emit EXCEPT ![r].seen = emit[r].seen \union {p}]
      BY <1>2 DEF BroadcastStep
    <3>2. emit[r].seen \union {p} \in SUBSET Players
      BY <1>1 DEF Emission
    <3> QED
      BY <1>1, <3>1, <3>2 DEF TypeOK, Emission
  <2> QED
    BY <1>1, <1>2, <2>3, <2>4 DEF BroadcastStep, TypeOK
<1>3. CASE SendTo(r, p)
  <2>1. emit[r].n + 1 \in 0..MaxEvents
    BY <1>1, <1>3, MaxEventsAssumption DEF SendTo, Emission
  <2>2. [room |-> r, n |-> emit[r].n + 1] \in Message
    BY <2>1 DEF Message
  <2>3. /\ wire' \in [Conns -> Seq(Message)]
        /\ \A d \in Conns : Len(wire'[d]) - taken'[d] \in 0..SendBuf
    <3>1. CASE playerConns[p] = None
      BY <1>1, <1>3, <3>1 DEF SendTo, TypeOK
    <3>2. CASE playerConns[p] # None
      <4>1. playerConns[p] \in Conns
        BY <1>1, <3>2 DEF TypeOK, Member
      <4> QED
        BY <1>1, <1>3, <2>2, <3>2, <4>1, PutAppends DEF SendTo
    <3> QED
      BY <3>1, <3>2
  <2>4. emit' \in [Rooms -> Emission]
    <3>1. emit' = [emit EXCEPT ![r].n = emit[r].n + 1]
      BY <1>3 DEF SendTo
    <3> QED
      BY <1>1, <2>1, <3>1 DEF TypeOK, Emission
  <2> QED
    BY <1>1, <1>3, <2>3, <2>4 DEF SendTo, TypeOK
<1> QED
  BY <1>2, <1>3

\* The steps that send nothing.
LEMMA QuietTypes ==
  ASSUME TypeOK,
         \/ \E c \in Conns : Flush(c)
         \/ \E r \in Rooms : BroadcastBegin(r, {}) \/ BroadcastEnd(r) \/ Throw(r)
         \/ \E r \in Rooms, p \in Players : BroadcastBegin(r, {p})
  PROVE  TypeOK'
<1>1. ASSUME NEW c \in Conns, Flush(c) PROVE TypeOK'
  <2>1. taken' = [taken EXCEPT ![c] = taken[c] + 1] /\ taken[c] < Len(wire[c])
    BY <1>1 DEF Flush
  <2>2. taken[c] \in Nat /\ Len(wire[c]) \in Nat /\ Len(wire[c]) - taken[c] \in 0..SendBuf
    BY DEF TypeOK
  <2>3. taken' \in [Conns -> Nat] /\ \A d \in Conns : Len(wire[d]) - taken'[d] \in 0..SendBuf
    BY <2>1, <2>2, SendBufAssumption DEF TypeOK
  <2> QED
    BY <1>1, <2>3 DEF Flush, TypeOK
<1>2. ASSUME NEW r \in Rooms, NEW e \in SUBSET Players, BroadcastBegin(r, e) PROVE TypeOK'
  <2>1. emit[r].n + 1 \in 0..MaxEvents
    BY <1>2, MaxEventsAssumption DEF BroadcastBegin, TypeOK, Emission
  <2>2. emit[r] \in Emission /\ Members(rooms[r]) \ e \in SUBSET Players
    BY DEF TypeOK, Members
  <2>3. emit'[r] \in Emission
    <3>1. CASE rooms[r] = None
      <4>1. emit' = [emit EXCEPT ![r].n = emit[r].n + 1]
        BY <1>2, <3>1 DEF BroadcastBegin
      <4> QED
        BY <2>1, <2>2, <4>1 DEF Emission, TypeOK
    <3>2. CASE rooms[r] # None
      <4>1. emit'[r] = [n |-> emit[r].n + 1, cur |-> emit[r].n + 1, busy |-> TRUE, but |-> e,
                        owed |-> Members(rooms[r]) \ e, seen |-> {}]
        BY <1>2, <3>2 DEF BroadcastBegin, TypeOK
      <4> QED
        BY <2>1, <2>2, <4>1 DEF Emission
    <3> QED
      BY <3>1, <3>2
  <2>4. emit' \in [Rooms -> Emission]
    BY <1>2, <2>3 DEF BroadcastBegin, TypeOK
  <2> QED
    BY <1>2, <2>4 DEF BroadcastBegin, TypeOK
<1>3. ASSUME NEW r \in Rooms, BroadcastEnd(r) PROVE TypeOK'
  <2>1. emit' = [emit EXCEPT ![r] =
                   [n |-> emit[r].n, cur |-> 0, busy |-> FALSE, but |-> {}, owed |-> {}, seen |-> {}]]
    BY <1>3 DEF BroadcastEnd
  <2>2. emit' \in [Rooms -> Emission]
    BY <2>1, MaxEventsAssumption DEF TypeOK, Emission
  <2> QED
    BY <1>3, <2>2 DEF BroadcastEnd, TypeOK
<1>4. ASSUME NEW r \in Rooms, Throw(r) PROVE TypeOK'
  BY <1>4 DEF Throw, TypeOK
<1> QED
  BY <1>1, <1>2, <1>3, <1>4

------------------------------------------------------------------------------
\* The counter goes up with an entry's second step, and down with its removal's second.
LEMMA CountStep ==
  ASSUME MapsInv, NEW c \in Conns, StorePlayer(c) \/ DeletePlayer(c)
  PROVE  MapsInv'
<1>1. IsFiniteSet(Counted) /\ Cardinality(Counted) \in Nat
  BY FiniteAssumption, FS_Subset, FS_CardinalityType, Zenon DEF Counted
<1>2. CASE StorePlayer(c)
  <2>1. pc[c] = "player" /\ pc' = [pc EXCEPT ![c] = "room"] /\ count' = count + 1
    BY <1>2 DEF StorePlayer, Goto
  <2>2. Counted' = Counted \union {c} /\ c \notin Counted
    BY <2>1 DEF MapsInv, EntriesInv, TypeOK, Counted
  <2>3. Cardinality(Counted') = Cardinality(Counted) + 1
    BY <1>1, <2>2, FS_AddElement
  <2> QED
    BY <1>2, <2>1, <2>3, StorePlayerMaps DEF MapsInv, CountTracks
<1>3. CASE DeletePlayer(c)
  <2>1. pc[c] = "unplayer" /\ pc' = [pc EXCEPT ![c] = "unroom"] /\ count' = count - 1
    BY <1>3 DEF DeletePlayer, Goto
  <2>2. Counted' = Counted \ {c} /\ c \in Counted
    BY <2>1 DEF MapsInv, EntriesInv, TypeOK, Counted
  <2>3. Cardinality(Counted') = Cardinality(Counted) - 1
    BY <1>1, <2>2, FS_RemoveElement
  <2>4. Cardinality(Counted) # 0
    BY <1>1, <2>2, FS_EmptySet
  <2> QED
    BY <1>1, <1>3, <2>1, <2>3, <2>4, DeletePlayerMaps DEF MapsInv, CountTracks
<1> QED
  BY <1>2, <1>3

\* The other steps of Register and Unregister leave the counter alone.
LEMMA UncountedStep ==
  ASSUME MapsInv, NEW c \in Conns,
         \/ \E p \in Players, r \in Rooms : Connect(c, p, r)
         \/ AddToRoom(c) \/ Drop(c) \/ RemoveFromRoom(c)
  PROVE  MapsInv'
<1>1. EntriesInv'
  BY ConnectMaps, AddToRoomMaps, DropMaps, RemoveFromRoomMaps DEF MapsInv
<1>2. Counted' = Counted /\ count' = count
  BY DEF Connect, AddToRoom, Drop, RemoveFromRoom, Goto, MapsInv, EntriesInv, TypeOK, Counted
<1> QED
  BY <1>1, <1>2 DEF MapsInv, CountTracks

\* And so do the steps that move messages.
LEMMA MessageStep ==
  ASSUME MapsInv,
         \/ \E c \in Conns : Welcome(c) \/ Flush(c)
         \/ \E r \in Rooms : BroadcastBegin(r, {}) \/ BroadcastEnd(r) \/ Throw(r)
         \/ \E r \in Rooms, p \in Players : BroadcastBegin(r, {p})
         \/ \E r \in Rooms, p \in Players : BroadcastStep(r, p) \/ SendTo(r, p)
  PROVE  MapsInv'
<1>1. TypeOK'
  BY WelcomeTypes, EmitTypes, QuietTypes DEF MapsInv, EntriesInv
<1>2. UNCHANGED <<conn, conns, playerConns, rooms, alone, count>>
  BY DEF Welcome, Flush, BroadcastBegin, BroadcastEnd, Throw, BroadcastStep, SendTo
<1>3. pc' = pc \/ \E c \in Conns : pc[c] = "welcome" /\ pc' = [pc EXCEPT ![c] = "open"]
  BY DEF Welcome, Flush, BroadcastBegin, BroadcastEnd, Throw, BroadcastStep, SendTo, Goto
<1>4. \A r \in Rooms : emit'[r].busy => rooms[r] # None
  <2> DEFINE Steady == \A r \in Rooms : emit'[r].busy => emit[r].busy \/ rooms[r] # None
  <2>1. emit \in [Rooms -> Emission]
    BY DEF MapsInv, EntriesInv, TypeOK
  <2>2. ASSUME NEW r \in Rooms, NEW e \in SUBSET Players, BroadcastBegin(r, e) PROVE Steady
    BY <2>1, <2>2 DEF BroadcastBegin
  <2>3. ASSUME NEW r \in Rooms, BroadcastEnd(r) PROVE Steady
    BY <2>1, <2>3 DEF BroadcastEnd
  <2>4. ASSUME NEW r \in Rooms, NEW p \in Players, BroadcastStep(r, p) PROVE Steady
    BY <2>1, <2>4 DEF BroadcastStep
  <2>5. ASSUME NEW r \in Rooms, NEW p \in Players, SendTo(r, p) PROVE Steady
    BY <2>1, <2>5 DEF SendTo
  <2>6. ASSUME emit' = emit PROVE Steady
    BY <2>1, <2>6
  <2>7. Steady
    BY <2>2, <2>3, <2>4, <2>5, <2>6 DEF Welcome, Flush, Throw
  <2> QED
    BY <2>7 DEF MapsInv, EntriesInv, RoomsStay
<1>5. EntriesInv' /\ Counted' = Counted
  BY <1>1, <1>2, <1>3, <1>4, MessageMaps DEF MapsInv
<1> QED
  BY <1>2, <1>5 DEF MapsInv, CountTracks

\* MapsInv is an invariant of the gateway, whatever the numbers of connections and rooms.
THEOREM MapsInvariance == Spec => []MapsInv
<1>1. Init => MapsInv
  <2> SUFFICES ASSUME Init PROVE MapsInv
    OBVIOUS
  <2>1. Counted = {} /\ count = 0
    BY DEF Init, Counted
  <2> QED
    BY <2>1, InitMaps, FS_EmptySet DEF MapsInv, CountTracks
<1>2. ASSUME MapsInv, [Next]_vars PROVE MapsInv'
  <2>1. CASE UNCHANGED vars
    BY <1>2, <2>1
       DEF vars, MapsInv, EntriesInv, TypeOK, RegistryEntries, PlayerEntries, RoomEntries,
           RoomsStay, AloneIsAlone, AloneInIndex, AloneInRoom, CountTracks, Counted, InUse
  <2>2. CASE Next
    BY <1>2, <2>2, CountStep, UncountedStep, MessageStep DEF Next
  <2> QED
    BY <1>2, <2>1, <2>2
<1> QED
  BY <1>1, <1>2, PTL DEF Spec

\* No map names a connection whose Unregister has come to its end (gateway.go:124-148).
THEOREM GoneIsForgotten == Spec => []NoneRefersToGone
<1>1. MapsInv => NoneRefersToGone
  <2> SUFFICES ASSUME MapsInv, NEW c \in Conns, pc[c] = "gone"
               PROVE  /\ c \notin conns
                      /\ \A p \in Players : playerConns[p] # c
                      /\ \A r \in Rooms : rooms[r] # None => \A p \in Players : rooms[r][p] # c
    BY DEF NoneRefersToGone
  <2>1. c # None
    BY NoneAssumption
  <2>2. c \notin conns /\ \A p \in Players : playerConns[p] # c
    BY <2>1 DEF MapsInv, EntriesInv, RegistryEntries, PlayerEntries
  <2>3. \A r \in Rooms : rooms[r] # None => \A p \in Players : rooms[r][p] # c
    BY <2>1 DEF MapsInv, EntriesInv, RoomEntries
  <2> QED
    BY <2>2, <2>3
<1> QED
  BY <1>1, MapsInvariance, PTL

\* The counter is right whenever nobody is under way (gateway.go:110, 137).
THEOREM CounterIsExact == Spec => []CountIsExact
<1>1. MapsInv => CountIsExact
  <2> SUFFICES ASSUME MapsInv PROVE CountIsExact
    OBVIOUS
  <2>1. count \in Nat
    BY DEF MapsInv, EntriesInv, TypeOK
  <2>2. ASSUME Settled PROVE count = Cardinality(conns)
    <3>1. conns = Counted
      BY <2>2 DEF MapsInv, EntriesInv, RegistryEntries, Settled, Counted
    <3> QED
      BY <3>1 DEF MapsInv, CountTracks
  <2> QED
    BY <2>1, <2>2 DEF CountIsExact
<1> QED
  BY <1>1, MapsInvariance, PTL

\* A player's only connection is found by SendTo and by his room's broadcasts, however many
\* other players come and go (gateway.go:107-115, 151-187).
THEOREM OnlyConnectionIsReached == Spec => []AloneIsReachable
<1>1. MapsInv => AloneIsReachable
  BY DEF MapsInv, EntriesInv, AloneInIndex, AloneInRoom, AloneIsReachable
<1> QED
  BY <1>1, MapsInvariance, PTL

------------------------------------------------------------------------------
\* Steps that send nothing keep what was served served.
LEMMA SilentEvents ==
  ASSUME EventsInv, wire' = wire,
         \A r \in Rooms : /\ emit'[r].n = emit[r].n /\ emit'[r].cur = emit[r].cur
                          /\ emit'[r].busy = emit[r].busy,
         \A d \in Conns, r \in Rooms : emit[r].busy /\ Served(d, r) => Served(d, r)',
         \A d \in Conns : pc'[d] \in {"new", "player", "room", "welcome"} =>
           pc[d] \in {"new", "player", "room", "welcome"}
  PROVE  EventsInv'
<1>1. CurrentIsSeen'
  BY DEF EventsInv, CurrentIsSeen
<1>2. EventsArePast' /\ WelcomeOnce' /\ EventsInOrder'
  BY DEF EventsInv, EventsArePast, WelcomeOnce, EventsInOrder
<1> QED
  BY <1>1, <1>2 DEF EventsInv

\* Steps that touch neither a broadcast nor the members of a room.
LEMMA AsideEvents ==
  ASSUME EntriesInv, EventsInv, wire' = wire, emit' = emit, rooms' = rooms,
         \/ conn' = conn
         \/ \E c \in Conns, a \in Asked : pc[c] = "new" /\ conn' = [conn EXCEPT ![c] = a],
         \A d \in Conns : pc'[d] \in {"new", "player", "room"} =>
           pc[d] \in {"new", "player", "room"},
         \A d \in Conns : pc'[d] \in {"new", "player", "room", "welcome"} =>
           pc[d] \in {"new", "player", "room", "welcome"}
  PROVE  EventsInv'
<1>1. \A d \in Conns : pc[d] # "new" => conn'[d] = conn[d]
  BY DEF EntriesInv, TypeOK
<1>2. \A d \in Conns, r \in Rooms : Served(d, r) => Served(d, r)'
  BY <1>1 DEF Served
<1> QED
  BY <1>2, SilentEvents

\* A connection that comes takes an entry from another, or adds one.
LEMMA AddEvents ==
  ASSUME EntriesInv, EventsInv, NEW c \in Conns, AddToRoom(c)
  PROVE  EventsInv'
<1> DEFINE p == conn[c].player
           q == conn[c].room
           old == IF rooms[q] = None THEN Empty ELSE rooms[q]
<1>1. /\ pc[c] = "room" /\ pc' = [pc EXCEPT ![c] = "welcome"]
      /\ rooms' = [rooms EXCEPT ![q] = [old EXCEPT ![p] = c]]
      /\ UNCHANGED <<conn, wire, emit>>
  BY DEF AddToRoom, Goto
<1>2. p \in Players /\ q \in Rooms
  BY <1>1, AskedType DEF EntriesInv
<1>3. old \in Member
  BY <1>2 DEF EntriesInv, TypeOK, Member, Empty
<1>4. /\ \A s \in Rooms \ {q} : rooms'[s] = rooms[s]
      /\ rooms'[q][p] = c /\ \A o \in Players \ {p} : rooms'[q][o] = old[o]
  BY <1>1, <1>2, <1>3 DEF EntriesInv, TypeOK, Member
<1>5. pc'[c] = "welcome" /\ \A d \in Conns \ {c} : pc'[d] = pc[d]
  BY <1>1 DEF EntriesInv, TypeOK
<1>6. ASSUME NEW d \in Conns, NEW r \in Rooms, emit[r].busy, Served(d, r) PROVE Served(d, r)'
  <2>1. d # c /\ pc'[d] = pc[d] /\ pc[d] # "new"
    BY <1>1, <1>5, <1>6 DEF Served
  <2>2. conn[d].player \in Players /\ rooms[r] # None
    BY <1>6, <2>1, AskedType DEF EntriesInv, RoomsStay
  <2>3. rooms'[r][conn[d].player] \in {c, rooms[r][conn[d].player]}
    BY <1>4, <2>2
  <2> QED
    BY <1>1, <1>6, <2>1, <2>3 DEF Served
<1> QED
  BY <1>1, <1>5, <1>6, SilentEvents

\* One that goes takes the entry with it, whoever's it is: a range under way may come to the
\* key again, but no longer for the connection that it was for.
LEMMA RemoveEvents ==
  ASSUME EntriesInv, EventsInv, NEW c \in Conns, RemoveFromRoom(c)
  PROVE  EventsInv'
<1> DEFINE p == conn[c].player
           q == conn[c].room
<1>1. /\ pc[c] = "unroom" /\ pc' = [pc EXCEPT ![c] = "gone"]
      /\ rooms' = [rooms EXCEPT ![q] = [rooms[q] EXCEPT ![p] = None]]
      /\ emit' = [emit EXCEPT ![q].owed = emit[q].owed \ {p}, ![q].seen = emit[q].seen \ {p}]
      /\ UNCHANGED <<conn, wire>>
  BY DEF RemoveFromRoom, Goto
<1>2. p \in Players /\ q \in Rooms /\ rooms[q] # None
  BY <1>1, AskedType DEF EntriesInv, RoomsStay
<1>3. /\ \A s \in Rooms \ {q} : rooms'[s] = rooms[s]
      /\ rooms'[q][p] = None /\ \A o \in Players \ {p} : rooms'[q][o] = rooms[q][o]
  BY <1>1, <1>2 DEF EntriesInv, TypeOK, Member
<1>4. \A d \in Conns : pc'[d] = pc[d] \/ pc'[d] = "gone"
  BY <1>1 DEF EntriesInv, TypeOK
<1>5. /\ emit[q] \in Emission /\ \A s \in Rooms \ {q} : emit'[s] = emit[s]
      /\ emit'[q] = [emit[q] EXCEPT !.owed = emit[q].owed \ {p}, !.seen = emit[q].seen \ {p}]
  BY <1>1, <1>2 DEF EntriesInv, TypeOK
<1>6. /\ emit'[q].n = emit[q].n /\ emit'[q].cur = emit[q].cur /\ emit'[q].busy = emit[q].busy
      /\ emit'[q].seen = emit[q].seen \ {p}
  BY <1>5 DEF Emission
<1>7. ASSUME NEW d \in Conns, NEW r \in Rooms, Served(d, r) PROVE Served(d, r)'
  <2>1. pc[d] \notin {"new", "player", "room"} /\ conn[d].player \in Players /\ d # None
    BY <1>7, AskedType, NoneAssumption DEF Served, EntriesInv
  <2>2. CASE r = q /\ conn[d].player = p
    <3>1. rooms'[r][conn[d].player] # d
      BY <1>3, <2>1, <2>2
    <3> QED
      BY <1>1, <1>4, <1>7, <2>1, <3>1 DEF Served
  <2>3. CASE ~(r = q /\ conn[d].player = p)
    <3>1. rooms'[r][conn[d].player] = rooms[r][conn[d].player]
      BY <1>3, <2>1, <2>3
    <3>2. conn[d].player \in emit[r].seen => conn[d].player \in emit'[r].seen
      BY <1>5, <1>6, <2>3
    <3> QED
      BY <1>1, <1>4, <1>7, <2>1, <3>1, <3>2 DEF Served
  <2> QED
    BY <2>2, <2>3
<1> QED
  BY <1>1, <1>4, <1>5, <1>6, <1>7, SilentEvents

\* A message later than all of its room that the connection has keeps the order.
LEMMA SendKeepsOrder ==
  ASSUME TypeOK, EventsInOrder, NEW c \in Conns, NEW m \in Message,
         wire' = Put(wire, c, m), taken' = taken,
         \A i \in 1..Len(wire[c]) : wire[c][i].room = m.room => wire[c][i].n < m.n
  PROVE  EventsInOrder'
<1> SUFFICES ASSUME NEW d \in Conns, NEW i \in 1..Len(wire'[d]), NEW j \in 1..Len(wire'[d]),
                    i < j, wire'[d][i].room = wire'[d][j].room
             PROVE  wire'[d][i].n < wire'[d][j].n
  BY DEF EventsInOrder
<1>1. /\ i \in 1..Len(wire[d]) /\ wire'[d][i] = wire[d][i]
      /\ \/ j \in 1..Len(wire[d]) /\ wire'[d][j] = wire[d][j]
         \/ d = c /\ wire'[d][j] = m
  <2>1. Len(wire[d]) \in Nat
    BY DEF TypeOK
  <2>2. Len(wire'[d]) \in {Len(wire[d]), Len(wire[d]) + 1}
    BY PutAppends
  <2>3. \A k \in 1..Len(wire'[d]) : \/ k \in 1..Len(wire[d]) /\ wire'[d][k] = wire[d][k]
                                    \/ d = c /\ k = Len(wire[c]) + 1 /\ wire'[d][k] = m
    BY PutAppends
  <2> QED
    BY <2>1, <2>2, <2>3
<1> QED
  BY <1>1 DEF EventsInOrder

\* The welcome message is the connection's first and only one without a room.
LEMMA WelcomeEvents ==
  ASSUME EntriesInv, EventsInv, NEW c \in Conns, Welcome(c)
  PROVE  EventsInv'
<1> DEFINE m == [room |-> None, n |-> 0]
<1>1. /\ TypeOK /\ m \in Message /\ pc[c] = "welcome"
      /\ wire' = Put(wire, c, m) /\ taken' = taken /\ UNCHANGED <<emit, conn, rooms>>
      /\ pc' = [pc EXCEPT ![c] = "open"]
  BY WelcomeTypes DEF Welcome, Goto, EntriesInv
<1>2. \A d \in Conns : \A i \in 1..Len(wire'[d]) :
        \/ i \in 1..Len(wire[d]) /\ wire'[d][i] = wire[d][i]
        \/ d = c /\ wire'[d][i].room = None
  BY <1>1, PutAppends
<1>3. None \notin Rooms
  BY NoneAssumption
<1>4. EventsArePast'
  BY <1>1, <1>2, <1>3 DEF EventsInv, EventsArePast
<1>5. CurrentIsSeen'
  <2>1. \A d \in Conns, r \in Rooms : Served(d, r) => Served(d, r)'
    <3>1. \A d \in Conns : pc'[d] = pc[d] \/ pc'[d] = "open"
      BY <1>1 DEF TypeOK
    <3> QED
      BY <1>1, <3>1 DEF Served
  <2> QED
    BY <1>1, <1>2, <1>3, <2>1 DEF EventsInv, CurrentIsSeen
<1>6. WelcomeOnce'
  <2>1. pc'[c] = "open" /\ \A d \in Conns \ {c} : pc'[d] = pc[d]
    BY <1>1 DEF TypeOK
  <2> QED
    BY <1>2, <2>1 DEF EventsInv, WelcomeOnce
<1>7. EventsInOrder'
  BY <1>1, SendKeepsOrder DEF EventsInv, WelcomeOnce
<1> QED
  BY <1>4, <1>5, <1>6, <1>7 DEF EventsInv

\* A broadcast gives its event to a connection whose player has not had his turn.
LEMMA BroadcastEvents ==
  ASSUME EntriesInv, EventsInv, NEW r \in Rooms, NEW p \in Players, BroadcastStep(r, p)
  PROVE  EventsInv'
<1> DEFINE c == rooms[r][p]
           m == [room |-> r, n |-> emit[r].cur]
<1>1. /\ TypeOK /\ emit[r].busy /\ p \notin emit[r].seen /\ c # None
      /\ wire' = Put(wire, c, m) /\ UNCHANGED <<taken, conn, pc, rooms>>
      /\ emit' = [emit EXCEPT ![r].seen = emit[r].seen \union {p}]
  BY DEF BroadcastStep, EntriesInv, Members
<1>2. c \in Conns /\ conn[c] = [player |-> p, room |-> r] /\ conn[c] # None
  BY <1>1, NoneAssumption
     DEF EntriesInv, RoomsStay, RoomEntries, TypeOK, Member, Asked
<1>3. m \in Message /\ emit[r].cur = emit[r].n
  BY <1>1 DEF Message, TypeOK, Emission, EventsInv, CurrentIsSeen
<1>4. \A d \in Conns : \A i \in 1..Len(wire'[d]) :
        \/ i \in 1..Len(wire[d]) /\ wire'[d][i] = wire[d][i]
        \/ d = c /\ wire'[d][i] = m
  BY <1>1, <1>2, <1>3, PutAppends
<1>5. /\ emit'[r].n = emit[r].n /\ emit'[r].cur = emit[r].cur /\ emit'[r].busy
      /\ emit'[r].seen = emit[r].seen \union {p}
      /\ \A s \in Rooms \ {r} : emit'[s] = emit[s]
  BY <1>1 DEF TypeOK
<1>6. EventsArePast'
  <2> SUFFICES ASSUME NEW d \in Conns, NEW i \in 1..Len(wire'[d]), NEW s \in Rooms,
                      wire'[d][i].room = s
               PROVE  wire'[d][i].n <= emit'[s].n
    BY DEF EventsArePast
  <2>1. emit'[s].n = emit[s].n /\ emit[s].n \in Nat
    BY <1>1, <1>5, MaxEventsAssumption DEF TypeOK, Emission
  <2>2. CASE i \in 1..Len(wire[d]) /\ wire'[d][i] = wire[d][i]
    BY <2>1, <2>2 DEF EventsInv, EventsArePast
  <2>3. CASE wire'[d][i] = m
    BY <1>3, <2>1, <2>3
  <2> QED
    BY <1>4, <2>2, <2>3
<1>7. CurrentIsSeen'
  <2>1. \A d \in Conns, s \in Rooms : Served(d, s) => Served(d, s)'
    BY <1>1, <1>5 DEF Served
  <2>2. Served(c, r)'
    <3>1. pc[c] \in {"welcome", "open", "unplayer", "unroom"}
      BY <1>1, NoneAssumption DEF EntriesInv, RoomsStay, RoomEntries
    <3> QED
      BY <1>1, <1>2, <1>5, <3>1 DEF Served
  <2> QED
    BY <1>1, <1>4, <1>5, <2>1, <2>2 DEF EventsInv, CurrentIsSeen
<1>8. WelcomeOnce'
  BY <1>1, <1>4, NoneAssumption DEF EventsInv, WelcomeOnce
<1>9. EventsInOrder'
  <2>1. ASSUME NEW i \in 1..Len(wire[c]), wire[c][i].room = r PROVE wire[c][i].n < emit[r].n
    <3>1. wire[c][i].n <= emit[r].n
      BY <1>2, <2>1 DEF EventsInv, EventsArePast
    <3>2. wire[c][i] \in Message /\ emit[r].n \in 0..MaxEvents
      BY <1>1, <1>2 DEF TypeOK, Emission
    <3>3. wire[c][i] # [room |-> r, n |-> emit[r].n]
      <4>1. ~Served(c, r)
        BY <1>1, <1>2 DEF Served
      <4> QED
        BY <1>1, <1>2, <4>1 DEF EventsInv, CurrentIsSeen
    <3>4. wire[c][i].n # emit[r].n /\ wire[c][i].n \in 0..MaxEvents
      BY <2>1, <3>2, <3>3 DEF Message
    <3> QED
      BY <3>1, <3>2, <3>4, MaxEventsAssumption
  <2> QED
    BY <1>1, <1>2, <1>3, <2>1, SendKeepsOrder DEF EventsInv
<1> QED
  BY <1>6, <1>7, <1>8, <1>9 DEF EventsInv

\* A SendTo is an event of its own, and no broadcast of its room is under way.
LEMMA SendToEvents ==
  ASSUME EntriesInv, EventsInv, NEW r \in Rooms, NEW p \in Players, SendTo(r, p)
  PROVE  EventsInv'
<1> DEFINE c == playerConns[p]
           m == [room |-> r, n |-> emit[r].n + 1]
<1>1. /\ TypeOK /\ ~emit[r].busy /\ emit[r].n < MaxEvents
      /\ wire' = IF c = None THEN wire ELSE Put(wire, c, m)
      /\ UNCHANGED <<taken, conn, pc, rooms>>
      /\ emit' = [emit EXCEPT ![r].n = emit[r].n + 1]
  BY DEF SendTo, EntriesInv
<1>2. emit[r].n \in Nat /\ m \in Message
  BY <1>1, MaxEventsAssumption DEF Message, TypeOK, Emission
<1>3. c # None => c \in Conns
  BY <1>1 DEF TypeOK, Member
<1>4. \A d \in Conns : \A i \in 1..Len(wire'[d]) :
        \/ i \in 1..Len(wire[d]) /\ wire'[d][i] = wire[d][i]
        \/ d = c /\ wire'[d][i] = m
  BY <1>1, <1>2, <1>3, PutAppends
<1>5. /\ emit'[r].n = emit[r].n + 1 /\ ~emit'[r].busy
      /\ \A s \in Rooms \ {r} : emit'[s] = emit[s]
  BY <1>1 DEF TypeOK
<1>6. EventsArePast'
  <2> SUFFICES ASSUME NEW d \in Conns, NEW i \in 1..Len(wire'[d]), NEW s \in Rooms,
                      wire'[d][i].room = s
               PROVE  wire'[d][i].n <= emit'[s].n
    BY DEF EventsArePast
  <2>1. CASE i \in 1..Len(wire[d]) /\ wire'[d][i] = wire[d][i]
    <3>1. wire[d][i].n <= emit[s].n /\ emit[s].n \in 0..MaxEvents
      BY <1>1, <2>1 DEF EventsInv, EventsArePast, TypeOK, Emission
    <3>2. wire[d][i].n \in Nat
      BY <1>1, <2>1, WireType
    <3> QED
      BY <1>5, <2>1, <3>1, <3>2, MaxEventsAssumption
  <2>2. CASE wire'[d][i] = m
    BY <1>2, <1>5, <2>2
  <2> QED
    BY <1>4, <2>1, <2>2
<1>7. CurrentIsSeen'
  <2>1. \A d \in Conns, s \in Rooms : s # r /\ Served(d, s) => Served(d, s)'
    BY <1>1, <1>5 DEF Served
  <2> QED
    BY <1>1, <1>4, <1>5, <2>1 DEF EventsInv, CurrentIsSeen
<1>8. WelcomeOnce'
  BY <1>1, <1>4, NoneAssumption DEF EventsInv, WelcomeOnce
<1>9. EventsInOrder'
  <2>1. CASE c = None
    BY <1>1, <2>1 DEF EventsInv, EventsInOrder
  <2>2. CASE c # None
    <3>1. ASSUME NEW i \in 1..Len(wire[c]), wire[c][i].room = r
          PROVE  wire[c][i].n < emit[r].n + 1
      <4>1. wire[c][i].n <= emit[r].n
        BY <1>3, <2>2, <3>1 DEF EventsInv, EventsArePast
      <4>2. wire[c][i].n \in Nat
        BY <1>1, <1>3, <2>2, WireType
      <4> QED
        BY <1>2, <4>1, <4>2, MaxEventsAssumption
    <3> QED
      BY <1>1, <1>2, <1>3, <2>2, <3>1, SendKeepsOrder DEF EventsInv
  <2> QED
    BY <2>1, <2>2
<1> QED
  BY <1>6, <1>7, <1>8, <1>9 DEF EventsInv

\* A broadcast that begins has a number nobody has; one that ends is nobody's any more.
LEMMA RangeEvents ==
  ASSUME EntriesInv, EventsInv, NEW r \in Rooms,
         BroadcastEnd(r) \/ \E e \in SUBSET Players : BroadcastBegin(r, e)
  PROVE  EventsInv'
<1>1. TypeOK
  BY DEF EntriesInv
<1>2. /\ UNCHANGED <<wire, conn, pc, rooms>>
      /\ \A s \in Rooms \ {r} : emit'[s] = emit[s]
      /\ \/ emit'[r].n \in {emit[r].n, emit[r].n + 1} /\ ~emit'[r].busy
         \/ emit'[r].n = emit[r].n + 1 /\ emit'[r].cur = emit[r].n + 1
  <2>0. UNCHANGED <<wire, conn, pc, rooms>> /\ emit[r] \in Emission
    BY <1>1 DEF BroadcastBegin, BroadcastEnd, TypeOK
  <2>1. CASE BroadcastEnd(r)
    BY <1>1, <2>0, <2>1 DEF BroadcastEnd, TypeOK
  <2>2. ASSUME NEW e \in SUBSET Players, BroadcastBegin(r, e), rooms[r] = None
        PROVE  /\ \A s \in Rooms \ {r} : emit'[s] = emit[s]
               /\ emit'[r].n = emit[r].n + 1 /\ emit'[r].busy = emit[r].busy /\ ~emit[r].busy
    BY <1>1, <2>0, <2>2 DEF BroadcastBegin, TypeOK, Emission
  <2>3. ASSUME NEW e \in SUBSET Players, BroadcastBegin(r, e), rooms[r] # None
        PROVE  /\ \A s \in Rooms \ {r} : emit'[s] = emit[s]
               /\ emit'[r].n = emit[r].n + 1 /\ emit'[r].cur = emit[r].n + 1
    BY <1>1, <2>0, <2>3 DEF BroadcastBegin, TypeOK, Emission
  <2> QED
    BY <2>0, <2>1, <2>2, <2>3
<1>3. emit[r].n \in Nat
  BY <1>1, MaxEventsAssumption DEF TypeOK, Emission
<1>4. ASSUME NEW d \in Conns, NEW i \in 1..Len(wire[d]), wire[d][i].room = r
      PROVE  wire[d][i].n \in Nat /\ wire[d][i].n <= emit[r].n
  <2>1. wire[d][i] \in Message
    BY <1>1 DEF TypeOK
  <2> QED
    BY <1>4, <2>1, MaxEventsAssumption DEF Message, EventsInv, EventsArePast
<1>5. EventsArePast'
  <2>1. emit'[r].n \in {emit[r].n, emit[r].n + 1}
    BY <1>2
  <2>2. ASSUME NEW d \in Conns, NEW i \in 1..Len(wire[d]), wire[d][i].room = r
        PROVE  wire[d][i].n <= emit'[r].n
    BY <1>3, <1>4, <2>1, <2>2
  <2> QED
    BY <1>2, <2>2 DEF EventsInv, EventsArePast
<1>6. CurrentIsSeen'
  <2>1. \A d \in Conns, s \in Rooms : s # r /\ Served(d, s) => Served(d, s)'
    BY <1>2 DEF Served
  <2> QED
    BY <1>2, <1>3, <1>4, <2>1 DEF EventsInv, CurrentIsSeen
<1> QED
  BY <1>2, <1>5, <1>6 DEF EventsInv, WelcomeOnce, EventsInOrder

\* A connection gets a room's events in the order its actor emitted them, without repeats,
\* whatever the sizes of the send buffers (gateway.go:150-210, 318-331).
THEOREM EventsComeInOrder == Spec => []EventsInOrder
<1>1. Init => EventsInv
  BY DEF Init, EventsInv, EventsArePast, CurrentIsSeen, WelcomeOnce, EventsInOrder
<1>2. ASSUME MapsInv, EventsInv, [Next]_vars PROVE EventsInv'
  <2>1. EntriesInv /\ TypeOK
    BY <1>2 DEF MapsInv, EntriesInv
  <2>2. CASE \E c \in Conns : Welcome(c)
    BY <1>2, <2>1, <2>2, WelcomeEvents
  <2>3. CASE \E r \in Rooms, p \in Players : BroadcastStep(r, p) \/ SendTo(r, p)
    BY <1>2, <2>1, <2>3, BroadcastEvents, SendToEvents
  <2>4. CASE \/ \E r \in Rooms : BroadcastBegin(r, {}) \/ BroadcastEnd(r)
             \/ \E r \in Rooms, p \in Players : BroadcastBegin(r, {p})
    BY <1>2, <2>1, <2>4, RangeEvents
  <2>5. CASE \/ UNCHANGED vars
             \/ \E c \in Conns, p \in Players, r \in Rooms : Connect(c, p, r)
             \/ \E c \in Conns : StorePlayer(c) \/ Flush(c) \/ Drop(c) \/ DeletePlayer(c)
             \/ \E r \in Rooms : Throw(r)
    <3>1. /\ wire' = wire /\ emit' = emit /\ rooms' = rooms
          /\ \/ conn' = conn
             \/ \E c \in Conns, a \in Asked : pc[c] = "new" /\ conn' = [conn EXCEPT ![c] = a]
      BY <2>5 DEF vars, Connect, StorePlayer, Flush, Drop, DeletePlayer, Throw, Asked
    <3>2. \A d \in Conns : pc'[d] \in {"new", "player", "room", "welcome"} =>
            pc[d] \in {"new", "player", "room", "welcome"}
      BY <2>1, <2>5 DEF vars, Connect, StorePlayer, Flush, Drop, DeletePlayer, Throw, Goto, TypeOK
    <3>3. \A d \in Conns : pc'[d] \in {"new", "player", "room"} =>
            pc[d] \in {"new", "player", "room"}
      BY <2>1, <2>5 DEF vars, Connect, StorePlayer, Flush, Drop, DeletePlayer, Throw, Goto, TypeOK
    <3> QED
      BY <1>2, <2>1, <3>1, <3>2, <3>3, AsideEvents
  <2>6. CASE \E c \in Conns : AddToRoom(c) \/ RemoveFromRoom(c)
    BY <1>2, <2>1, <2>6, AddEvents, RemoveEvents
  <2> QED
    BY <1>2, <2>2, <2>3, <2>4, <2>5, <2>6 DEF Next
<1>3. EventsInv => EventsInOrder
  BY DEF EventsInv
<1> QED
  BY <1>1, <1>2, <1>3, MapsInvariance, PTL DEF Spec

------------------------------------------------------------------------------
\* A connection takes a message only while it is registered and open: one that was dropped
\* gets nothing more, however many maps still name it.  An event of the broadcast its room
\* has under way goes to a connection of that room whose player is not excepted, through
\* whichever of his connections the map names by now; every other event goes to a connection
\* of the player it is for (gateway.go:150-210, 318-331).
EventsReachTheirOwn ==
  [][\A c \in Conns : wire'[c] # wire[c] =>
       /\ c \in conns
       /\ \A r \in Rooms : wire'[c][Len(wire'[c])].room = r /\ emit[r].busy =>
            conn[c].room = r /\ conn[c].player \notin emit[r].but
       /\ \A r \in Rooms, p \in Players : SendTo(r, p) => conn[c].player = p]_vars

\* What Put may do to one connection: a message at the end, if it is not closed.
LEMMA PutReaches ==
  ASSUME TypeOK, NEW c \in Conns, NEW m \in Message, wire' = Put(wire, c, m),
         NEW d \in Conns, wire'[d] # wire[d]
  PROVE  d = c /\ ~Closed(c) /\ wire'[d][Len(wire'[d])] = m
<1>1. ~Closed(c) /\ wire' = [wire EXCEPT ![c] = Append(@, m)]
  BY DEF Put
<1>2. wire \in [Conns -> Seq(Message)]
  BY DEF TypeOK
<1>3. d = c /\ wire'[d] = Append(wire[c], m) /\ wire[c] \in Seq(Message)
  BY <1>1, <1>2
<1> QED
  BY <1>1, <1>3

\* A connection the maps name is registered unless it has closed.
LEMMA OpenIsRegistered ==
  ASSUME EntriesInv, NEW c \in Conns, ~Closed(c), pc[c] # "new"
  PROVE  c \in conns
  BY DEF EntriesInv, RegistryEntries, TypeOK, Closed

\* Nobody gets what is not his, in whatever order connections come and go
\* (gateway.go:107-210).
THEOREM NothingMisdelivered == Spec => EventsReachTheirOwn
<1>1. ASSUME EntriesInv, [Next]_vars, NEW c \in Conns, wire'[c] # wire[c]
      PROVE  /\ c \in conns
             /\ \A r \in Rooms : wire'[c][Len(wire'[c])].room = r /\ emit[r].busy =>
                  conn[c].room = r /\ conn[c].player \notin emit[r].but
             /\ \A r \in Rooms, p \in Players : SendTo(r, p) => conn[c].player = p
  <2>1. TypeOK
    BY <1>1 DEF EntriesInv
  <2>2. ASSUME NEW d \in Conns, Welcome(d)
        PROVE  /\ c \in conns /\ wire'[c][Len(wire'[c])].room = None
    <3>1. /\ [room |-> None, n |-> 0] \in Message /\ pc[d] = "welcome"
          /\ wire' = Put(wire, d, [room |-> None, n |-> 0])
      <4>1. [room |-> None, n |-> 0] \in Message
        BY MaxEventsAssumption DEF Message
      <4> QED
        BY <2>2, <4>1 DEF Welcome
    <3>2. /\ c = d /\ ~Closed(d)
          /\ wire'[c][Len(wire'[c])] = [room |-> None, n |-> 0]
      BY <1>1, <2>1, <3>1, PutReaches
    <3> QED
      BY <1>1, <3>1, <3>2, OpenIsRegistered
  <2>3. ASSUME NEW r \in Rooms, NEW p \in Players, BroadcastStep(r, p)
        PROVE  /\ c \in conns /\ conn[c] = [player |-> p, room |-> r]
               /\ p \notin emit[r].but /\ wire'[c][Len(wire'[c])].room = r
    <3> DEFINE d == rooms[r][p]
               m == [room |-> r, n |-> emit[r].cur]
    <3>1. /\ d # None /\ emit[r].busy /\ p \notin emit[r].but /\ wire' = Put(wire, d, m)
          /\ m \in Message
      BY <2>1, <2>3 DEF BroadcastStep, Members, Message, TypeOK, Emission
    <3>2. /\ d \in Conns /\ conn[d] = [player |-> p, room |-> r] /\ pc[d] # "new"
      BY <1>1, <2>1, <3>1, NoneAssumption
         DEF EntriesInv, RoomsStay, RoomEntries, TypeOK, Member, Asked
    <3>3. c = d /\ ~Closed(d) /\ wire'[c][Len(wire'[c])] = m
      BY <1>1, <2>1, <3>1, <3>2, PutReaches
    <3> QED
      BY <1>1, <3>1, <3>2, <3>3, OpenIsRegistered
  <2>4. ASSUME NEW r \in Rooms, NEW p \in Players, SendTo(r, p)
        PROVE  /\ c \in conns /\ conn[c].player = p
               /\ wire'[c][Len(wire'[c])].room = r /\ ~emit[r].busy
    <3> DEFINE d == playerConns[p]
               m == [room |-> r, n |-> emit[r].n + 1]
    <3>1. /\ ~emit[r].busy /\ d # None /\ wire' = Put(wire, d, m)
      BY <1>1, <2>4 DEF SendTo
    <3>2. m \in Message
      BY <2>1, <2>4, MaxEventsAssumption DEF SendTo, Message, TypeOK, Emission
    <3>3. d \in Conns /\ conn[d].player = p /\ pc[d] # "new"
      <4>1. d \in Conns
        BY <2>1, <3>1 DEF TypeOK, Member
      <4>2. pc[d] \in {"room", "welcome", "open", "unplayer"} /\ conn[d].player = p
        BY <1>1, <3>1 DEF EntriesInv, PlayerEntries
      <4> QED
        BY <4>1, <4>2
    <3>4. c = d /\ ~Closed(d) /\ wire'[c][Len(wire'[c])] = m
      BY <1>1, <2>1, <3>1, <3>2, <3>3, PutReaches
    <3> QED
      BY <1>1, <3>1, <3>3, <3>4, OpenIsRegistered
  <2>5. \/ \E d \in Conns : Welcome(d)
        \/ \E r \in Rooms, p \in Players : BroadcastStep(r, p) \/ SendTo(r, p)
    BY <1>1 DEF Next, vars, Connect, StorePlayer, AddToRoom, Flush, Drop, DeletePlayer,
                RemoveFromRoom, Throw, BroadcastBegin, BroadcastEnd
  <2>6. \A r \in Rooms : r # None
    BY NoneAssumption
  <2>7. \A r \in Rooms, p \in Players : SendTo(r, p) => conn[c].player = p
    BY <2>4
  <2>8. CASE \E d \in Conns : Welcome(d)
    BY <2>2, <2>6, <2>7, <2>8
  <2>9. ASSUME NEW q \in Rooms, NEW p \in Players, BroadcastStep(q, p) \/ SendTo(q, p)
        PROVE  /\ c \in conns
               /\ \A r \in Rooms : wire'[c][Len(wire'[c])].room = r /\ emit[r].busy =>
                    conn[c].room = r /\ conn[c].player \notin emit[r].but
    <3>1. CASE BroadcastStep(q, p)
      <4>1. /\ c \in conns /\ conn[c].room = q /\ conn[c].player = p
            /\ p \notin emit[q].but /\ wire'[c][Len(wire'[c])].room = q
        <5>1. /\ c \in conns /\ conn[c] = [player |-> p, room |-> q]
              /\ p \notin emit[q].but /\ wire'[c][Len(wire'[c])].room = q
          BY <2>3, <3>1
        <5> QED
          BY <5>1
      <4> QED
        BY <4>1
    <3>2. CASE SendTo(q, p)
      BY <2>4, <3>2
    <3> QED
      BY <2>9, <3>1, <3>2
  <2> QED
    BY <2>5, <2>7, <2>8, <2>9
<1>2. EntriesInv /\ [Next]_vars
      => [\A c \in Conns : wire'[c] # wire[c] =>
            /\ c \in conns
            /\ \A r \in Rooms : wire'[c][Len(wire'[c])].room = r /\ emit[r].busy =>
                 conn[c].room = r /\ conn[c].player \notin emit[r].but
            /\ \A r \in Rooms, p \in Players : SendTo(r, p) => conn[c].player = p]_vars
  BY <1>1
<1>3. MapsInv => EntriesInv
  BY DEF MapsInv
<1> QED
  BY <1>2, <1>3, MapsInvariance, PTL DEF Spec, EventsReachTheirOwn
==============================================================================
