------------------------ MODULE ClientConnection_proofs ------------------------
(***************************************************************************)
(* The SDK's connection and the proxy it talks to, for any number of       *)
(* sockets, attempts and stray timers: a polite page has one socket and a  *)
(* status that can be trusted, and the proxy's handler and goroutines never *)
(* wait for a report that cannot come.                                     *)
(***************************************************************************)
EXTENDS ClientConnection, TLAPS

CTypeOK ==
  /\ socket \in [Sockets -> {"none", "connecting", "open", "closing", "closed"}]
  /\ handler \in [Sockets -> {"none", "dial", "upgrade", "copy", "over"}]
  /\ backend \in [Sockets -> {"none", "open", "closed"}]
  /\ copiers \in [Sockets -> SUBSET {"up", "down"}] /\ done \in [Sockets -> 0..2]
  /\ ws \in Sockets \union {Null} /\ hooked \in SUBSET Sockets
  /\ status \in {"disconnected", "connecting", "connected", "reconnecting"}
  /\ attempts \in 0..MaxAttempts /\ stray \in Nat
  /\ heartbeat \in BOOLEAN /\ timer \in BOOLEAN /\ polite \in BOOLEAN

\* The copiers of s that have still to report.
Left(s) == (IF "up" \in copiers[s] THEN 1 ELSE 0) + (IF "down" \in copiers[s] THEN 1 ELSE 0)

\* How far the handler is, and what its goroutines owe the channel of two.
ProxyStage(s) ==
  \/ handler[s] \in {"none", "dial"} /\ copiers[s] = {} /\ done[s] = 0 /\ backend[s] = "none"
  \/ handler[s] = "upgrade" /\ copiers[s] = {} /\ done[s] = 0
  \/ handler[s] = "copy" /\ done[s] + Left(s) = 2
  \/ handler[s] = "over" /\ done[s] + Left(s) <= 1 /\ backend[s] # "open"
ProxyInv == \A s \in Sockets : ProxyStage(s)

\* A socket that is up calls back, and the proxy has a handler for it; one that has opened
\* was upgraded.
SocketInv ==
  \A s \in Sockets : /\ PageUp(s) => s \in hooked /\ handler[s] # "none"
                     /\ socket[s] = "open" => handler[s] \in {"copy", "over"}

\* Where the one socket of a polite page is, by the status that page is shown.
StatusTells ==
  /\ Live \subseteq {ws} /\ stray = 0
  /\ ws # Null => ws \in hooked /\ socket[ws] \in {"connecting", "open", "closing"}
  /\ timer <=> status = "reconnecting"
  /\ ws # Null <=> status \in {"connecting", "connected"}
  /\ status = "connecting" => socket[ws] # "open"
  /\ status = "connected" => socket[ws] # "connecting"
  /\ heartbeat <=> status = "connected"

CInv == /\ CTypeOK /\ ProxyInv /\ SocketInv
        /\ status = "reconnecting" => timer /\ ws = Null
        /\ polite => StatusTells

------------------------------------------------------------------------------
\* A polite page that is shown "connecting" or "reconnecting" waits for something that is
\* under way: the reconnect timer, or its one socket, which calls back and which the proxy
\* is answering or the browser is closing.
NoLimbo ==
  polite => /\ status = "reconnecting" => timer
            /\ status = "connecting" =>
                 /\ ws \in hooked
                 /\ \/ socket[ws] = "closing"
                    \/ socket[ws] = "connecting" /\ handler[ws] # "none"

\* The proxy never waits for what cannot come, and leaves nothing behind that cannot end: a
\* copier always has room for its report, a handler that waits has a report or a copier
\* that can still make one, and one that has returned has closed the game service's end.
NobodyWaitsInVain ==
  \A s \in Sockets :
    /\ copiers[s] # {} => handler[s] \in {"copy", "over"} /\ done[s] < 2
    /\ handler[s] = "copy" => done[s] > 0 \/ copiers[s] # {}
    /\ handler[s] = "over" => backend[s] # "open"

\* What a polite page has disconnected, or was given up, stays so until it connects again:
\* no timer, close event or late opening brings it back.
DisconnectIsFinal ==
  [][polite /\ status = "disconnected" /\ status' # status => PageConnects]_ccvars

------------------------------------------------------------------------------
LEMMA InitCInv == Init => CInv
<1> SUFFICES ASSUME Init PROVE CInv
  OBVIOUS
<1> USE DEF Init, ProxyInit
<1>1. CTypeOK
  <2>1. 0 \in 0..MaxAttempts /\ 0 \in 0..2 /\ 0 \in Nat
    BY MaxAttemptsAssumption
  <2> QED
    BY <2>1 DEF CTypeOK
<1>2. ProxyInv
  BY DEF ProxyInv, ProxyStage
<1>3. SocketInv
  BY DEF SocketInv, PageUp
<1>4. StatusTells
  BY DEF StatusTells, Live, PageUp
<1> QED
  BY <1>1, <1>2, <1>3, <1>4 DEF CInv

\* A step of the proxy at one socket leaves the others' handlers where they are.
LEMMA OthersStay ==
  ASSUME CTypeOK, NEW s \in Sockets, ProxyStep(s) \/ ProxyFault(s)
  PROVE  /\ UNCHANGED socket
         /\ handler' \in [Sockets -> {"none", "dial", "upgrade", "copy", "over"}]
         /\ backend' \in [Sockets -> {"none", "open", "closed"}]
         /\ copiers' \in [Sockets -> SUBSET {"up", "down"}]
         /\ \A t \in Sockets \ {s} : /\ handler'[t] = handler[t] /\ backend'[t] = backend[t]
                                     /\ copiers'[t] = copiers[t] /\ done'[t] = done[t]
<1> USE DEF CTypeOK
<1>1. CASE Dial(s) \/ DialFails(s) \/ Upgrade(s) \/ UpgradeFails(s)
  BY <1>1 DEF Dial, DialFails, Upgrade, UpgradeFails
<1>2. CASE Finish(s) \/ BackendCloses(s)
  BY <1>2 DEF Finish, BackendCloses
<1>3. ASSUME NEW d \in {"up", "down"}, ReadFails(s, d) \/ WriteFails(s, d)
      PROVE  /\ UNCHANGED <<socket, handler, backend>>
             /\ copiers' \in [Sockets -> SUBSET {"up", "down"}]
             /\ \A t \in Sockets \ {s} : copiers'[t] = copiers[t] /\ done'[t] = done[t]
  BY <1>3 DEF ReadFails, WriteFails
<1> QED
  BY <1>1, <1>2, <1>3 DEF ProxyStep, ProxyFault

\* The handler's stage goes with it, and so does the count of the reports.
LEMMA StageStep ==
  ASSUME CTypeOK, NEW s \in Sockets, ProxyStage(s), ProxyStep(s) \/ ProxyFault(s)
  PROVE  /\ ProxyStage(s)' /\ done' \in [Sockets -> 0..2]
         /\ handler[s] # "none" => handler'[s] # "none"
         /\ handler[s] \in {"copy", "over"} => handler'[s] \in {"copy", "over"}
<1> USE DEF CTypeOK
<1>0. done[s] \in 0..2 /\ copiers[s] \in SUBSET {"up", "down"} /\ Left(s) \in 0..2
  BY DEF Left
<1>1. CASE Dial(s) \/ DialFails(s) \/ UpgradeFails(s)
  <2>1. /\ UNCHANGED <<copiers, done>> /\ copiers[s] = {} /\ done[s] = 0
        /\ handler[s] \in {"dial", "upgrade"}
        /\ \/ handler'[s] = "upgrade"
           \/ handler'[s] = "over" /\ backend'[s] # "open"
    BY <1>1 DEF Dial, DialFails, UpgradeFails, ProxyStage
  <2>2. Left(s)' = 0
    BY <2>1 DEF Left
  <2> QED
    BY <2>1, <2>2 DEF ProxyStage
<1>2. CASE Upgrade(s)
  <2>1. /\ UNCHANGED <<backend, done>> /\ done[s] = 0 /\ handler[s] = "upgrade"
        /\ handler'[s] = "copy" /\ copiers'[s] = {"up", "down"}
    BY <1>2 DEF Upgrade, ProxyStage
  <2>2. Left(s)' = 2
    BY <2>1 DEF Left
  <2> QED
    BY <2>1, <2>2 DEF ProxyStage
<1>3. CASE BackendCloses(s)
  <2>1. /\ UNCHANGED <<handler, copiers, done>> /\ backend[s] = "open" /\ backend'[s] = "closed"
    BY <1>3 DEF BackendCloses
  <2>2. Left(s)' = Left(s)
    BY <2>1 DEF Left
  <2> QED
    BY <2>1, <2>2 DEF ProxyStage
<1>4. ASSUME NEW d \in {"up", "down"}, ReadFails(s, d) \/ WriteFails(s, d)
      PROVE  ProxyStage(s)' /\ UNCHANGED handler /\ done' \in [Sockets -> 0..2]
  <2>1. /\ d \in copiers[s] /\ copiers'[s] = copiers[s] \ {d} /\ done[s] < 2
        /\ done' = [done EXCEPT ![s] = @ + 1]
        /\ UNCHANGED <<handler, backend>>
    BY <1>4 DEF ReadFails, WriteFails
  <2>2. done'[s] = done[s] + 1 /\ done' \in [Sockets -> 0..2]
    BY <1>0, <2>1
  <2>3. Left(s)' = Left(s) - 1
    BY <1>0, <2>1 DEF Left
  <2> QED
    BY <1>0, <2>1, <2>2, <2>3 DEF ProxyStage
<1>5. CASE Finish(s)
  <2>1. /\ handler[s] = "copy" /\ done[s] > 0 /\ handler'[s] = "over" /\ backend'[s] = "closed"
        /\ done' = [done EXCEPT ![s] = @ - 1] /\ UNCHANGED copiers
    BY <1>5 DEF Finish
  <2>2. done'[s] = done[s] - 1 /\ done' \in [Sockets -> 0..2]
    BY <1>0, <2>1
  <2>3. Left(s)' = Left(s) /\ done[s] + Left(s) = 2
    BY <2>1 DEF Left, ProxyStage
  <2> QED
    BY <1>0, <2>1, <2>2, <2>3 DEF ProxyStage
<1>6. (Dial(s) \/ DialFails(s) \/ Upgrade(s) \/ UpgradeFails(s) \/ BackendCloses(s)) => UNCHANGED done
  BY DEF Dial, DialFails, Upgrade, UpgradeFails, BackendCloses
<1>7. (Dial(s) \/ DialFails(s) \/ Upgrade(s) \/ UpgradeFails(s) \/ BackendCloses(s) \/ Finish(s)) =>
        \/ UNCHANGED handler
        \/ handler[s] \in {"dial", "upgrade", "copy"} /\ handler'[s] # "none"
           /\ (handler[s] = "copy" => handler'[s] = "over")
  BY DEF Dial, DialFails, Upgrade, UpgradeFails, BackendCloses, Finish
<1>8. CASE \E d \in {"up", "down"} : ReadFails(s, d) \/ WriteFails(s, d)
  BY <1>4, <1>8
<1>9. CASE Dial(s) \/ DialFails(s) \/ Upgrade(s) \/ UpgradeFails(s) \/ BackendCloses(s) \/ Finish(s)
  <2>1. ProxyStage(s)'
    BY <1>1, <1>2, <1>3, <1>5, <1>9
  <2>2. done' \in [Sockets -> 0..2]
    <3>1. CASE Finish(s)
      BY <1>0, <3>1 DEF Finish
    <3> QED
      BY <1>6, <1>9, <3>1
  <2> QED
    BY <1>7, <1>9, <2>1, <2>2
<1> QED
  BY <1>8, <1>9 DEF ProxyStep, ProxyFault

\* Whose stage nothing touches stays in it.
LEMMA StageStays ==
  ASSUME NEW t, ProxyStage(t), handler'[t] = handler[t], backend'[t] = backend[t],
         copiers'[t] = copiers[t], done'[t] = done[t]
  PROVE  ProxyStage(t)'
BY DEF ProxyStage, Left

LEMMA ProxyCInv ==
  ASSUME CInv, NEW s \in Sockets, ProxyStep(s) \/ ProxyFault(s), UNCHANGED sdkVars
  PROVE  CInv'
<1> USE DEF CInv
<1>1. CTypeOK'
  BY OthersStay, StageStep DEF CTypeOK, ProxyInv, sdkVars
<1>2. ProxyInv'
  BY OthersStay, StageStep, StageStays DEF ProxyInv
<1>3. SocketInv'
  <2> SUFFICES ASSUME NEW t \in Sockets
               PROVE  /\ PageUp(t)' => t \in hooked' /\ handler'[t] # "none"
                      /\ socket'[t] = "open" => handler'[t] \in {"copy", "over"}
    BY DEF SocketInv
  <2>1. UNCHANGED <<socket, hooked>>
    BY OthersStay DEF sdkVars
  <2>2. CASE t = s
    BY <2>1, <2>2, StageStep DEF SocketInv, PageUp, ProxyInv
  <2>3. CASE t # s
    BY <2>1, <2>3, OthersStay DEF SocketInv, PageUp
  <2> QED
    BY <2>2, <2>3
<1>4. StatusTells => StatusTells'
  BY OthersStay DEF StatusTells, Live, PageUp, sdkVars
<1> QED
  BY <1>1, <1>2, <1>3, <1>4 DEF sdkVars

------------------------------------------------------------------------------
\* What connect does: nothing while there is a socket that is up, and else a new one.
LEMMA ConnectNew ==
  ASSUME CInv, Connect, Current = {}
  PROVE  \E s \in Sockets :
            /\ Free(s) /\ ws' = s /\ status' = "connecting" /\ hooked' = hooked \union {s}
            /\ socket' = [socket EXCEPT ![s] = "connecting"]
            /\ handler' = [handler EXCEPT ![s] = "dial"]
            /\ backend' = [backend EXCEPT ![s] = "none"]
            /\ done' = [done EXCEPT ![s] = 0] /\ UNCHANGED copiers
BY DEF Connect

LEMMA ConnectCInv ==
  ASSUME CInv, Connect,
         attempts' \in 0..MaxAttempts, stray' \in Nat, timer' \in BOOLEAN,
         UNCHANGED <<heartbeat, polite>>, Current # {} => ws # Null,
         polite => ~timer' /\ stray' = 0 /\ status \in {"disconnected", "reconnecting"}
  PROVE  CInv'
<1> USE DEF CInv
<1>1. CASE Current # {}
  <2>1. UNCHANGED <<socket, proxyVars, ws, status, hooked>> /\ ws # Null /\ ~polite
    BY <1>1 DEF Connect, StatusTells
  <2>2. CTypeOK'
    BY <2>1 DEF CTypeOK, proxyVars
  <2>3. ProxyInv'
    BY <2>1, StageStays DEF ProxyInv, proxyVars
  <2>4. SocketInv'
    BY <2>1 DEF SocketInv, PageUp, proxyVars
  <2> QED
    BY <2>1, <2>2, <2>3, <2>4
<1>2. CASE Current = {}
  <2>1. PICK s \in Sockets :
            /\ Free(s) /\ ws' = s /\ status' = "connecting" /\ hooked' = hooked \union {s}
            /\ socket' = [socket EXCEPT ![s] = "connecting"]
            /\ handler' = [handler EXCEPT ![s] = "dial"]
            /\ backend' = [backend EXCEPT ![s] = "none"]
            /\ done' = [done EXCEPT ![s] = 0] /\ UNCHANGED copiers
    BY <1>2, ConnectNew
  <2>2. CTypeOK'
    BY <2>1 DEF CTypeOK
  <2>3. /\ socket'[s] = "connecting" /\ handler'[s] = "dial" /\ backend'[s] = "none"
        /\ done'[s] = 0 /\ copiers'[s] = {} /\ s # Null
        /\ \A t \in Sockets \ {s} : /\ socket'[t] = socket[t] /\ handler'[t] = handler[t]
                                    /\ backend'[t] = backend[t] /\ copiers'[t] = copiers[t]
                                    /\ done'[t] = done[t]
    BY <2>1, NullAssumption DEF CTypeOK, Free
  <2>4. ProxyInv'
    <3> SUFFICES ASSUME NEW t \in Sockets PROVE ProxyStage(t)'
      BY DEF ProxyInv
    <3>1. CASE t = s
      BY <2>3, <3>1 DEF ProxyStage
    <3>2. CASE t # s
      BY <2>3, <3>2, StageStays DEF ProxyInv
    <3> QED
      BY <3>1, <3>2
  <2>5. SocketInv'
    BY <2>1, <2>3 DEF SocketInv, PageUp
  <2>6. polite => StatusTells'
    <3> SUFFICES ASSUME polite PROVE StatusTells'
      OBVIOUS
    <3>1. ws = Null /\ ~timer' /\ stray' = 0 /\ ~heartbeat
      BY DEF StatusTells
    <3>2. Live = {}
      BY <3>1, NullAssumption DEF StatusTells, Live, CTypeOK
    <3>3. Live' \subseteq {s}
      BY <2>1, <2>3, <3>2 DEF Live, PageUp
    <3> QED
      BY <2>1, <2>3, <3>1, <3>3 DEF StatusTells
  <2> QED
    BY <2>1, <2>2, <2>4, <2>5, <2>6
<1> QED
  BY <1>1, <1>2

\* Who calls connect: the page, the timer, and a timer that was forgotten.
LEMMA CallersCInv == CInv /\ (PageConnects \/ TimerFires \/ StrayFires) => CInv'
<1> SUFFICES ASSUME CInv, PageConnects \/ TimerFires \/ StrayFires PROVE CInv'
  OBVIOUS
<1>0. Current # {} => ws # Null
  BY NullAssumption DEF Current
<1>1. Connect /\ UNCHANGED <<attempts, heartbeat, polite>>
  BY DEF PageConnects, TimerFires, StrayFires
<1>2. /\ attempts \in 0..MaxAttempts /\ stray \in Nat /\ timer \in BOOLEAN
      /\ polite => stray = 0 /\ (timer <=> status = "reconnecting")
  BY DEF CInv, CTypeOK, StatusTells
<1>3. attempts' \in 0..MaxAttempts
  BY <1>1, <1>2
<1>4. /\ stray' \in Nat /\ timer' \in BOOLEAN
      /\ polite => ~timer' /\ stray' = 0 /\ status \in {"disconnected", "reconnecting"}
  <2>1. CASE PageConnects
    <3>1. UNCHANGED <<stray, timer>> /\ (polite => status = "disconnected")
      BY <2>1 DEF PageConnects
    <3> QED
      BY <1>2, <3>1
  <2>2. CASE TimerFires
    <3>1. timer /\ timer' = FALSE /\ UNCHANGED stray
      BY <2>2 DEF TimerFires
    <3> QED
      BY <1>2, <3>1
  <2>3. CASE StrayFires
    <3>1. stray > 0 /\ stray' = stray - 1 /\ UNCHANGED timer
      BY <2>3 DEF StrayFires
    <3> QED
      BY <1>2, <3>1
  <2> QED
    BY <2>1, <2>2, <2>3
<1> QED
  BY <1>0, <1>1, <1>3, <1>4, ConnectCInv

\* Changing sockets alone does not disturb the proxy.
LEMMA ProxyAlone == ProxyInv /\ UNCHANGED proxyVars => ProxyInv'
BY StageStays DEF ProxyInv, proxyVars

LEMMA DisconnectCInv == CInv /\ Disconnect => CInv'
<1> SUFFICES ASSUME CInv, Disconnect PROVE CInv'
  OBVIOUS
<1> USE DEF CInv
<1>1. /\ timer' = FALSE /\ attempts' = 0 /\ heartbeat' = FALSE /\ hooked' = hooked \ {ws}
      /\ socket' = [s \in Sockets |-> IF s \in Current THEN "closing" ELSE socket[s]]
      /\ ws' = Null /\ status' = "disconnected" /\ UNCHANGED <<proxyVars, stray, polite>>
  BY DEF Disconnect
<1>2. CTypeOK'
  <2>1. 0 \in 0..MaxAttempts
    BY MaxAttemptsAssumption
  <2> QED
    BY <1>1, <2>1 DEF CTypeOK, proxyVars
<1>3. ProxyInv'
  BY <1>1, ProxyAlone
<1>4. SocketInv'
  BY <1>1 DEF SocketInv, PageUp, Current, proxyVars, CTypeOK
<1>5. StatusTells => StatusTells'
  <2> SUFFICES ASSUME StatusTells PROVE StatusTells'
    OBVIOUS
  <2>1. Live' = {}
    BY <1>1 DEF StatusTells, Live, PageUp, Current, CTypeOK
  <2> QED
    BY <1>1, <2>1 DEF StatusTells
<1> QED
  BY <1>1, <1>2, <1>3, <1>4, <1>5

\* A polite page hears only of the socket it has.
LEMMA OneToHear ==
  ASSUME CInv, polite, NEW s \in Sockets, PageUp(s) \/ (s \in hooked /\ socket[s] = "closing")
  PROVE  s = ws /\ status \in {"connecting", "connected"} /\ ~timer
BY NullAssumption DEF CInv, StatusTells, Live

LEMMA EventCInv ==
  ASSUME CInv, NEW s \in Sockets, Opens(s) \/ Refused(s) \/ Breaks(s)
  PROVE  CInv'
<1> USE DEF CInv
<1>0. PageUp(s)
  BY DEF Opens, Refused, Breaks, PageUp
<1>1. PICK to \in {"open", "closing"} :
        /\ socket' = [socket EXCEPT ![s] = to]
        /\ to = "open" => handler[s] = "copy"
        /\ UNCHANGED <<proxyVars, ws, timer, stray, hooked, polite>>
        /\ IF to = "open" THEN status' = "connected" /\ attempts' = 0 /\ heartbeat' = TRUE
                          ELSE UNCHANGED <<status, attempts, heartbeat>>
  <2>1. CASE Opens(s)
    BY <2>1 DEF Opens
  <2>2. CASE Refused(s) \/ Breaks(s)
    BY <2>2 DEF Refused, Breaks, sdkVars
  <2> QED
    BY <2>1, <2>2
<1>2. CTypeOK'
  <2>1. 0 \in 0..MaxAttempts
    BY MaxAttemptsAssumption
  <2> QED
    BY <1>1, <2>1 DEF CTypeOK, proxyVars
<1>3. ProxyInv'
  BY <1>1, ProxyAlone
<1>4. SocketInv'
  BY <1>0, <1>1 DEF SocketInv, PageUp, proxyVars, CTypeOK
<1>5. status' = "reconnecting" => timer' /\ ws' = Null
  BY <1>1
<1>6. polite => StatusTells'
  <2> SUFFICES ASSUME polite PROVE StatusTells'
    OBVIOUS
  <2>1. s = ws /\ ws # Null /\ status \in {"connecting", "connected"} /\ ~timer /\ s \in hooked
    BY <1>0, OneToHear, NullAssumption DEF SocketInv
  <2>2. Live' \subseteq {ws}
    BY <1>1, <2>1 DEF StatusTells, Live, PageUp, CTypeOK
  <2> QED
    BY <1>0, <1>1, <2>1, <2>2 DEF StatusTells, CTypeOK, PageUp
<1> QED
  BY <1>1, <1>2, <1>3, <1>4, <1>5, <1>6

LEMMA ClosesCInv ==
  ASSUME CInv, NEW s \in Sockets, Closes(s)
  PROVE  CInv'
<1> USE DEF CInv
<1>1. /\ socket[s] = "closing" /\ socket' = [socket EXCEPT ![s] = "closed"]
      /\ hooked' = hooked \ {s} /\ UNCHANGED <<proxyVars, polite>>
      /\ IF s \in hooked THEN heartbeat' = FALSE /\ HandleClose
                         ELSE UNCHANGED <<ws, status, attempts, timer, stray, heartbeat>>
  BY DEF Closes
<1>2. CTypeOK'
  <2>1. CASE s \in hooked
    <3>0. attempts \in 0..MaxAttempts /\ stray \in Nat /\ timer \in BOOLEAN
      BY DEF CTypeOK
    <3>1. /\ ws' = Null /\ timer' \in BOOLEAN /\ stray' \in Nat
          /\ status' \in {"reconnecting", "disconnected"} /\ attempts' \in 0..MaxAttempts
      <4>1. CASE attempts < MaxAttempts
        <5>1. /\ ws' = Null /\ timer' = TRUE /\ status' = "reconnecting"
              /\ attempts' = attempts + 1 /\ stray' = stray + (IF timer THEN 1 ELSE 0)
          BY <1>1, <2>1, <4>1 DEF HandleClose
        <5>2. attempts + 1 \in 0..MaxAttempts
          BY <3>0, <4>1, MaxAttemptsAssumption
        <5> QED
          BY <3>0, <5>1, <5>2
      <4>2. CASE ~(attempts < MaxAttempts)
        <5>1. /\ ws' = Null /\ status' = "disconnected"
              /\ UNCHANGED <<attempts, timer, stray>>
          BY <1>1, <2>1, <4>2 DEF HandleClose
        <5> QED
          BY <3>0, <5>1
      <4> QED
        BY <4>1, <4>2
    <3> QED
      BY <1>1, <2>1, <3>1 DEF CTypeOK, proxyVars
  <2>2. CASE s \notin hooked
    BY <1>1, <2>2 DEF CTypeOK, proxyVars
  <2> QED
    BY <2>1, <2>2
<1>3. ProxyInv'
  BY <1>1, ProxyAlone
<1>4. SocketInv'
  BY <1>1 DEF SocketInv, PageUp, proxyVars, CTypeOK
<1>5. status' = "reconnecting" => timer' /\ ws' = Null
  BY <1>1 DEF HandleClose, CTypeOK
<1>6. polite => StatusTells'
  <2> SUFFICES ASSUME polite PROVE StatusTells'
    OBVIOUS
  <2>1. CASE s \in hooked
    <3>1. s = ws /\ ~timer
      BY <1>1, <2>1, OneToHear
    <3>2. Live' = {}
      BY <1>1, <3>1 DEF StatusTells, Live, PageUp, CTypeOK
    <3>3. /\ heartbeat' = FALSE /\ ws' = Null /\ stray' = 0
          /\ \/ status' = "reconnecting" /\ timer' = TRUE
             \/ status' = "disconnected" /\ timer' = FALSE
      BY <1>1, <2>1, <3>1 DEF HandleClose, StatusTells, CTypeOK
    <3> QED
      BY <3>2, <3>3 DEF StatusTells
  <2>2. CASE s \notin hooked
    <3>1. s # ws
      BY <2>2, NullAssumption DEF StatusTells
    <3>2. Live' \subseteq {ws}
      BY <1>1, <2>2 DEF StatusTells, Live, PageUp, CTypeOK
    <3> QED
      BY <1>1, <2>2, <3>1, <3>2 DEF StatusTells, CTypeOK
  <2> QED
    BY <2>1, <2>2
<1> QED
  BY <1>1, <1>2, <1>3, <1>4, <1>5, <1>6

LEMMA NextCInv == CInv /\ [Next]_ccvars => CInv'
<1> SUFFICES ASSUME CInv, [Next]_ccvars PROVE CInv'
  OBVIOUS
<1>1. CASE UNCHANGED ccvars
  <2>1. ProxyInv'
    BY <1>1, ProxyAlone DEF CInv, ccvars
  <2> QED
    BY <1>1, <2>1 DEF ccvars, proxyVars, sdkVars, CInv, CTypeOK, SocketInv, StatusTells, Live, PageUp
<1>2. CASE Next
  BY <1>2, CallersCInv, DisconnectCInv, EventCInv, ClosesCInv, ProxyCInv DEF Next
<1> QED
  BY <1>1, <1>2

\* The invariant of the page's connection and its proxy.
THEOREM ConnectionInvariance == Spec => []CInv
BY InitCInv, NextCInv, PTL DEF Spec

\* A polite page never has two sockets or a lost timer, and its status can be trusted
\* (Connection.ts:46-134).
THEOREM OneSocket == Spec => []SocketIsSingle
<1>1. CInv => SocketIsSingle
  BY NullAssumption DEF CInv, StatusTells, SocketIsSingle
<1> QED
  BY <1>1, ConnectionInvariance, PTL

\* A polite page that waits, waits for something under way (Connection.ts:46-134): what
\* AttemptEnds rests on.
THEOREM SomethingIsUnderWay == Spec => []NoLimbo
<1>1. CInv => NoLimbo
  <2> SUFFICES ASSUME CInv, polite, status = "connecting"
               PROVE  /\ ws \in hooked
                      /\ \/ socket[ws] = "closing"
                         \/ socket[ws] = "connecting" /\ handler[ws] # "none"
    BY DEF CInv, NoLimbo
  <2>1. ws \in hooked /\ socket[ws] \in {"connecting", "closing"} /\ ws \in Sockets
    BY DEF CInv, CTypeOK, StatusTells
  <2> QED
    BY <2>1 DEF CInv, SocketInv, PageUp
<1> QED
  BY <1>1, ConnectionInvariance, PTL

\* The proxy's handler and its goroutines (main.go:104-131): what ProxyEnds rests on.
THEOREM ProxyNeverStuck == Spec => []NobodyWaitsInVain
<1>1. CInv => NobodyWaitsInVain
  <2> SUFFICES ASSUME CInv, NEW s \in Sockets
               PROVE  /\ copiers[s] # {} => handler[s] \in {"copy", "over"} /\ done[s] < 2
                      /\ handler[s] = "copy" => done[s] > 0 \/ copiers[s] # {}
                      /\ handler[s] = "over" => backend[s] # "open"
    BY DEF NobodyWaitsInVain
  <2>1. ProxyStage(s) /\ done[s] \in 0..2 /\ copiers[s] \in SUBSET {"up", "down"}
    BY DEF CInv, CTypeOK, ProxyInv
  <2>2. Left(s) \in 0..2 /\ (copiers[s] # {} <=> Left(s) # 0)
    BY <2>1 DEF Left
  <2> QED
    BY <2>1, <2>2 DEF ProxyStage
<1> QED
  BY <1>1, ConnectionInvariance, PTL

\* A disconnect is final until the page connects again (Connection.ts:87-96, 102-116).
THEOREM DisconnectStays == Spec => DisconnectIsFinal
<1>1. CInv /\ [Next]_ccvars
        => [polite /\ status = "disconnected" /\ status' # status => PageConnects]_ccvars
  <2> SUFFICES ASSUME CInv, Next, polite, status = "disconnected", status' # status
               PROVE  PageConnects
    OBVIOUS
  <2>1. ~TimerFires /\ ~StrayFires /\ ~Disconnect
    <3>1. ~timer /\ stray = 0
      BY DEF CInv, CTypeOK, StatusTells
    <3>2. ~TimerFires
      BY <3>1 DEF TimerFires
    <3>3. ~StrayFires
      BY <3>1 DEF StrayFires
    <3>4. ~Disconnect
      BY DEF Disconnect
    <3> QED
      BY <3>2, <3>3, <3>4
  <2>2. ASSUME NEW s \in Sockets, Opens(s) PROVE FALSE
    BY <2>2, OneToHear DEF Opens, PageUp
  <2>3. ASSUME NEW s \in Sockets, Closes(s) PROVE FALSE
    BY <2>3, OneToHear DEF Closes
  <2>4. ASSUME NEW s \in Sockets, \/ Refused(s) \/ Breaks(s)
                                  \/ (ProxyStep(s) \/ ProxyFault(s)) /\ UNCHANGED sdkVars
        PROVE  FALSE
    BY <2>4 DEF Refused, Breaks, sdkVars
  <2> QED
    BY <2>1, <2>2, <2>3, <2>4 DEF Next
<1> QED
  BY <1>1, ConnectionInvariance, PTL DEF Spec, DisconnectIsFinal
==============================================================================
