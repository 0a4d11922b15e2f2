-------------------------------- MODULE WsProxy --------------------------------
(***************************************************************************)
(* wsProxy of cmd/api-gateway/main.go: one handler per WebSocket a page asks *)
(* for.  It dials the game service, upgrades the page, starts a goroutine    *)
(* per direction, and closes both connections when the first of the two      *)
(* reports the end.  What is copied is left out.                             *)
(***************************************************************************)
EXTENDS Naturals

CONSTANT Sockets

VARIABLES
  socket,   \* the page's readyState: "none", "connecting", "open", "closing", "closed"
  handler,  \* "none", "dial", "upgrade", "copy", "over"
  backend,  \* the connection to the game service: "none", "open", "closed"
  copiers,  \* the goroutines in ReadMessage or WriteMessage: subset of {"up", "down"}
  done      \* what is in the channel they report to

proxyVars == <<handler, backend, copiers, done>>

ProxyInit == /\ handler = [s \in Sockets |-> "none"] /\ backend = [s \in Sockets |-> "none"]
             /\ copiers = [s \in Sockets |-> {}] /\ done = [s \in Sockets |-> 0]

\* The page's end of the connection is up as far as the proxy can tell.
PageUp(s) == socket[s] \in {"connecting", "open"}
Free(s) == socket[s] \in {"none", "closed"} /\ handler[s] \in {"none", "over"} /\ copiers[s] = {}

Dial(s) ==
  /\ handler[s] = "dial"
  /\ handler' = [handler EXCEPT ![s] = "upgrade"] /\ backend' = [backend EXCEPT ![s] = "open"]
  /\ UNCHANGED <<socket, copiers, done>>

\* 502: the page's socket will not open.
DialFails(s) ==
  /\ handler[s] = "dial" /\ handler' = [handler EXCEPT ![s] = "over"]
  /\ UNCHANGED <<socket, backend, copiers, done>>

Upgrade(s) ==
  /\ handler[s] = "upgrade" /\ handler' = [handler EXCEPT ![s] = "copy"]
  /\ copiers' = [copiers EXCEPT ![s] = {"up", "down"}]
  /\ UNCHANGED <<socket, backend, done>>

UpgradeFails(s) ==
  /\ handler[s] = "upgrade" /\ handler' = [handler EXCEPT ![s] = "over"]
  /\ backend' = [backend EXCEPT ![s] = "closed"]
  /\ UNCHANGED <<socket, copiers, done>>

\* The game service, or the network to it, ends the connection.
BackendCloses(s) ==
  /\ backend[s] = "open" /\ backend' = [backend EXCEPT ![s] = "closed"]
  /\ UNCHANGED <<socket, handler, copiers, done>>

\* The connection a copier reads from; the handler closes both when it is over.
SourceUp(s, d) == /\ handler[s] = "copy"
                  /\ IF d = "up" THEN PageUp(s) ELSE backend[s] = "open"

\* A copier that reports on a channel without room: it waits for the handler.
ReadFailsUnbuffered(s, d) ==
  /\ d \in copiers[s] /\ ~SourceUp(s, d) /\ handler[s] = "copy" /\ done[s] = 0
  /\ copiers' = [copiers EXCEPT ![s] = @ \ {d}] /\ done' = [done EXCEPT ![s] = @ + 1]
  /\ UNCHANGED <<socket, handler, backend>>

ReadFails(s, d) ==
  /\ d \in copiers[s] /\ ~SourceUp(s, d) /\ done[s] < 2
  /\ copiers' = [copiers EXCEPT ![s] = @ \ {d}] /\ done' = [done EXCEPT ![s] = @ + 1]
  /\ UNCHANGED <<socket, handler, backend>>

\* A message for the other side, which is gone.
WriteFails(s, d) ==
  /\ d \in copiers[s] /\ done[s] < 2
  /\ ~SourceUp(s, IF d = "up" THEN "down" ELSE "up")
  /\ copiers' = [copiers EXCEPT ![s] = @ \ {d}] /\ done' = [done EXCEPT ![s] = @ + 1]
  /\ UNCHANGED <<socket, handler, backend>>

\* <-done, and both deferred Closes.
Finish(s) ==
  /\ handler[s] = "copy" /\ done[s] > 0
  /\ done' = [done EXCEPT ![s] = @ - 1] /\ handler' = [handler EXCEPT ![s] = "over"]
  /\ backend' = [backend EXCEPT ![s] = "closed"]
  /\ UNCHANGED <<socket, copiers>>

ProxyStep(s) == \/ Dial(s) \/ DialFails(s) \/ Upgrade(s) \/ UpgradeFails(s)
                \/ \E d \in {"up", "down"} : ReadFails(s, d)
                \/ Finish(s)
ProxyFault(s) == BackendCloses(s) \/ \E d \in {"up", "down"} : WriteFails(s, d)
==============================================================================
