--------------------------- MODULE ClientConnection ---------------------------
(***************************************************************************)
(* Connection of the client SDK (sdks/client-sdk/src/Connection.ts) against  *)
(* the proxy it talks to.  The browser runs one task at a time: a call of    *)
(* the page, a timer, or an event of a socket.  A socket that is told to     *)
(* close, or loses its connection, has its close event later.  Messages and  *)
(* the hooks of the page are left out.                                       *)
(***************************************************************************)
EXTENDS WsProxy, FiniteSets

CONSTANTS MaxAttempts,  \* opts.maxReconnectAttempts
          MaxStray,     \* bound: timers that nothing refers to
          Null

ASSUME MaxAttemptsAssumption == MaxAttempts \in Nat
ASSUME NullAssumption == Null \notin Sockets

VARIABLES
  ws,         \* this.ws
  status,     \* this.status
  attempts,   \* this.reconnectAttempts
  heartbeat,  \* heartbeatTimer runs
  timer,      \* the timer that reconnectTimer refers to has not fired yet
  stray,      \* timers under way that reconnectTimer no longer refers to
  hooked,     \* sockets whose onclose is still set
  polite      \* the page calls connect only while the status is "disconnected"

sdkVars == <<ws, status, attempts, heartbeat, timer, stray, hooked, polite>>
ccvars == <<socket, proxyVars, sdkVars>>

Init == /\ socket = [s \in Sockets |-> "none"] /\ ProxyInit
        /\ ws = Null /\ status = "disconnected" /\ attempts = 0
        /\ heartbeat = FALSE /\ timer = FALSE /\ stray = 0 /\ hooked = {}
        /\ polite \in BOOLEAN

\* handleClose that does not count its attempts.
HandleCloseUncounted ==
  /\ ws' = Null
  /\ IF attempts < MaxAttempts
     THEN /\ status' = "reconnecting" /\ attempts' = attempts
          /\ timer' = TRUE /\ stray' = stray + (IF timer THEN 1 ELSE 0)
     ELSE status' = "disconnected" /\ UNCHANGED <<attempts, timer, stray>>

\* handleClose: the timer of an earlier call is forgotten, not cleared.
HandleClose ==
  /\ ws' = Null
  /\ IF attempts < MaxAttempts
     THEN /\ status' = "reconnecting" /\ attempts' = attempts + 1
          /\ timer' = TRUE /\ stray' = stray + (IF timer THEN 1 ELSE 0)
     ELSE status' = "disconnected" /\ UNCHANGED <<attempts, timer, stray>>

Current == {s \in Sockets : s = ws /\ PageUp(s)}

\* connect: nothing if there is a socket that is not closing; otherwise a new one.
Connect ==
  \/ Current # {} /\ UNCHANGED <<socket, proxyVars, ws, status, hooked>>
  \/ /\ Current = {}
     /\ \E s \in Sockets :
          /\ Free(s)
          /\ socket' = [socket EXCEPT ![s] = "connecting"] /\ hooked' = hooked \union {s}
          /\ handler' = [handler EXCEPT ![s] = "dial"] /\ done' = [done EXCEPT ![s] = 0]
          /\ backend' = [backend EXCEPT ![s] = "none"]
          /\ ws' = s
     /\ status' = "connecting" /\ UNCHANGED copiers

PageConnects ==
  /\ polite => status = "disconnected"
  /\ Connect
  /\ UNCHANGED <<attempts, heartbeat, timer, stray, polite>>

\* A disconnect that leaves onclose in place.
DisconnectHooked ==
  /\ timer' = FALSE /\ attempts' = 0 /\ heartbeat' = FALSE
  /\ socket' = [s \in Sockets |-> IF s \in Current THEN "closing" ELSE socket[s]]
  /\ ws' = Null /\ status' = "disconnected"
  /\ UNCHANGED <<proxyVars, stray, hooked, polite>>

Disconnect ==
  /\ timer' = FALSE /\ attempts' = 0 /\ heartbeat' = FALSE
  /\ hooked' = hooked \ {ws}
  /\ socket' = [s \in Sockets |-> IF s \in Current THEN "closing" ELSE socket[s]]
  /\ ws' = Null /\ status' = "disconnected"
  /\ UNCHANGED <<proxyVars, stray, polite>>

TimerFires ==
  /\ timer /\ timer' = FALSE /\ Connect
  /\ UNCHANGED <<attempts, heartbeat, stray, polite>>

StrayFires ==
  /\ stray > 0 /\ stray' = stray - 1 /\ Connect
  /\ UNCHANGED <<attempts, heartbeat, timer, polite>>

\* onopen, of whichever socket.
Opens(s) ==
  /\ socket[s] = "connecting" /\ handler[s] = "copy"
  /\ socket' = [socket EXCEPT ![s] = "open"]
  /\ status' = "connected" /\ attempts' = 0 /\ heartbeat' = TRUE
  /\ UNCHANGED <<proxyVars, ws, timer, stray, hooked, polite>>

\* The proxy has refused or closed, which the browser comes to know of ...
Refused(s) ==
  /\ PageUp(s) /\ handler[s] = "over"
  /\ socket' = [socket EXCEPT ![s] = "closing"]
  /\ UNCHANGED <<proxyVars, sdkVars>>

\* ... or the network in between breaks.
Breaks(s) ==
  /\ PageUp(s) /\ handler[s] # "over"
  /\ socket' = [socket EXCEPT ![s] = "closing"]
  /\ UNCHANGED <<proxyVars, sdkVars>>

\* The close event: onclose, of whichever socket, or nothing after a disconnect.
Closes(s) ==
  /\ socket[s] = "closing" /\ socket' = [socket EXCEPT ![s] = "closed"]
  /\ IF s \in hooked
     THEN heartbeat' = FALSE /\ HandleClose /\ stray' <= MaxStray
     ELSE UNCHANGED <<ws, status, attempts, timer, stray, heartbeat>>
  /\ hooked' = hooked \ {s} /\ UNCHANGED <<proxyVars, polite>>

Next == \/ PageConnects \/ Disconnect \/ TimerFires \/ StrayFires
        \/ \E s \in Sockets :
             \/ Opens(s) \/ Refused(s) \/ Breaks(s) \/ Closes(s)
             \/ (ProxyStep(s) \/ ProxyFault(s)) /\ UNCHANGED sdkVars

Spec == Init /\ [][Next]_ccvars

\* The browser delivers events and timers, the proxy's goroutines are scheduled, and dialling
\* ends one way or the other.  The page need not do anything and the network need not break.
FairSpec ==
  /\ Spec /\ WF_ccvars(TimerFires)
  /\ \A s \in Sockets : /\ WF_ccvars(Opens(s)) /\ WF_ccvars(Refused(s)) /\ WF_ccvars(Closes(s))
                        /\ WF_ccvars(ProxyStep(s) /\ UNCHANGED sdkVars)

------------------------------------------------------------------------------
\* Sockets that are up or whose close event would still be heard.
Live == {s \in Sockets : PageUp(s)} \union {s \in hooked : socket[s] = "closing"}

\* Whatever the page does, "reconnecting" is not shown without a timer that disconnect can
\* still clear.  With a page that calls connect only while the status is "disconnected", in
\* whatever order that call, disconnect, timers and the events of old sockets come, there is
\* never a second socket, no timer is lost, a disconnect is final, and the heartbeat runs
\* exactly while connected (Connection.ts:46-122).
SocketIsSingle ==
  /\ status = "reconnecting" => timer /\ ws = Null
  /\ polite => /\ Live \subseteq {ws} /\ stray = 0 /\ (timer => ws = Null)
               /\ status = "disconnected" => ws = Null /\ ~timer
               /\ heartbeat <=> status = "connected"

\* Such a page is not left in limbo: an attempt ends connected, or given up after the
\* attempts allowed, if nobody disconnects before.
AttemptEnds ==
  polite /\ status \in {"connecting", "reconnecting"} ~> status \in {"connected", "disconnected"}

\* Whichever end of a proxied connection goes first, the handler returns, the game service's
\* connection is closed, and neither goroutine is left behind (main.go:104-131).
ProxyEnds ==
  \A s \in Sockets :
    handler[s] = "copy" /\ (~PageUp(s) \/ backend[s] # "open")
      ~> handler[s] = "over" /\ copiers[s] = {} /\ backend[s] = "closed"
==============================================================================
