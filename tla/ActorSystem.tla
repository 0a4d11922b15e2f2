------------------------------ MODULE ActorSystem ------------------------------
(***************************************************************************)
(* The end of the game service: the registry of actors (pkg/actor/system.go) *)
(* with its Register, Unregister and Shutdown, the HTTP server whose         *)
(* handlers register rooms (internal/server/server.go), and the main         *)
(* goroutine that stops one after the other (cmd/game-service/main.go).      *)
(*                                                                         *)
(* An actor is known by the Register call that brings it; of its life only   *)
(* what Start and Stop make of it is kept (BaseActor has the rest).          *)
(***************************************************************************)
EXTENDS Integers, FiniteSets

CONSTANTS Ids,       \* actor ids
          Calls,     \* Register calls, each with an actor of its own
          Removals,  \* Unregister calls under way at once
          None

ASSUME NoneAssumption == None \notin Calls
ASSUME FiniteAssumption == IsFiniteSet(Ids) /\ IsFiniteSet(Calls) /\ IsFiniteSet(Removals)

VARIABLES
  registry,  \* ActorSystem.actors
  count,     \* ActorSystem.count
  call,      \* how far each Register call is, and its actor's id
  actor,     \* "new", "running", "cancelled" before its Start, "leaving" or "gone"
  removal,   \* the Unregister calls
  server,    \* "starting" while Server.srv is nil, "listening", "closing"
  main,      \* the main goroutine
  seen,      \* actors the Range may come across
  visited,   \* ids the Range has come across
  stops,     \* the goroutines of Shutdown
  expired,   \* the deadline of Shutdown has passed
  early,     \* history: actors stored before the Range began
  drained    \* history: srv.Shutdown has answered nil

registerVars == <<registry, count, call, actor, removal>>
rangeVars == <<seen, visited, early>>
svars == <<registerVars, server, main, rangeVars, stops, expired, drained>>

Idle == [step |-> "idle"]

Init == /\ registry = [i \in Ids |-> None] /\ count = 0
        /\ call = [c \in Calls |-> Idle] /\ actor = [c \in Calls |-> "new"]
        /\ removal = [u \in Removals |-> Idle]
        /\ server = "starting" /\ main = "serving"
        /\ seen = {} /\ visited = {} /\ stops = [c \in Calls |-> "none"]
        /\ expired = FALSE /\ early = {} /\ drained = FALSE

Goto(c, step) == call' = [call EXCEPT ![c].step = step]
Registering == {c \in Calls : call[c].step \in {"enter", "stored", "counted"}}

------------------------------------------------------------------------------
\* A handler comes to Register.
Enter(c, i) ==
  /\ server = "listening" /\ call[c] = Idle
  /\ call' = [call EXCEPT ![c] = [step |-> "enter", id |-> i]]
  /\ UNCHANGED <<registry, count, actor, removal, server, main, rangeVars, stops, expired, drained>>

\* A Store, which replaces what is there.
StoreAnyway(c) ==
  /\ call[c].step = "enter" /\ Goto(c, "stored")
  /\ registry' = [registry EXCEPT ![call[c].id] = c]
  /\ seen' = IF main = "range" THEN seen \union {c} ELSE seen
  /\ UNCHANGED <<count, actor, removal, server, main, visited, early, stops, expired, drained>>

\* LoadOrStore, which refuses an id that is there; a Range under way may still see the actor.
LoadOrStore(c) ==
  /\ call[c].step = "enter"
  /\ LET i == call[c].id IN
       IF registry[i] # None
       THEN Goto(c, "refused") /\ UNCHANGED <<registry, seen>>
       ELSE /\ Goto(c, "stored") /\ registry' = [registry EXCEPT ![i] = c]
            /\ seen' = IF main = "range" THEN seen \union {c} ELSE seen
  /\ UNCHANGED <<count, actor, removal, server, main, visited, early, stops, expired, drained>>

AddOne(c) ==
  /\ call[c].step = "stored" /\ Goto(c, "counted") /\ count' = count + 1
  /\ UNCHANGED <<registry, actor, removal, server, main, rangeVars, stops, expired, drained>>

\* Start: an actor that was cancelled before runs as well, and leaves at once.
StartActor(c) ==
  /\ call[c].step = "counted" /\ Goto(c, "done")
  /\ actor' = [actor EXCEPT ![c] = IF @ = "new" THEN "running" ELSE "leaving"]
  /\ UNCHANGED <<registry, count, removal, server, main, rangeVars, stops, expired, drained>>

Leave(c) ==
  /\ actor[c] = "leaving" /\ actor' = [actor EXCEPT ![c] = "gone"]
  /\ UNCHANGED <<registry, count, call, removal, server, main, rangeVars, stops, expired, drained>>

\* What BaseActor.Stop does first, whether the actor was started or not.
Cancelled(a) == CASE a = "new" -> "cancelled" [] a = "running" -> "leaving" [] OTHER -> a

\* Unregister: LoadAndDelete, the counter, then Stop, for at most five seconds.
Delete(u, i) ==
  /\ removal[u] = Idle /\ registry[i] # None
  /\ removal' = [removal EXCEPT ![u] = [step |-> "count", actor |-> registry[i]]]
  /\ registry' = [registry EXCEPT ![i] = None]
  /\ UNCHANGED <<count, call, actor, server, main, rangeVars, stops, expired, drained>>

SubtractOne(u) ==
  /\ removal[u].step = "count"
  /\ removal' = [removal EXCEPT ![u].step = "stop"] /\ count' = count - 1
  /\ UNCHANGED <<registry, call, actor, server, main, rangeVars, stops, expired, drained>>

StopRemoved(u) ==
  /\ removal[u].step = "stop"
  /\ actor' = [actor EXCEPT ![removal[u].actor] = Cancelled(@)]
  /\ removal' = [removal EXCEPT ![u] = Idle]
  /\ UNCHANGED <<registry, count, call, server, main, rangeVars, stops, expired, drained>>

------------------------------------------------------------------------------
\* go srv.Start().
Listen ==
  /\ server = "starting" /\ server' = "listening"
  /\ UNCHANGED <<registerVars, main, rangeVars, stops, expired, drained>>

\* A signal that leaves the server as it is.
SignalUnheard ==
  /\ main = "serving" /\ main' = "draining"
  /\ UNCHANGED <<registerVars, server, rangeVars, stops, expired, drained>>

\* WaitForShutdown: no new connections, and the handlers are waited for; nothing of it if
\* the other goroutine has not set srv yet.
Signal ==
  /\ main = "serving"
  /\ IF server = "starting" THEN main' = "shutdown" /\ UNCHANGED server
     ELSE main' = "draining" /\ server' = "closing"
  /\ UNCHANGED <<registerVars, rangeVars, stops, expired, drained>>

Drain ==
  /\ main = "draining" /\ Registering = {}
  /\ main' = "shutdown" /\ drained' = TRUE
  /\ UNCHANGED <<registerVars, server, rangeVars, stops, expired>>

\* Thirty seconds, and the handlers run on.
DrainTimeout ==
  /\ main = "draining" /\ main' = "shutdown"
  /\ UNCHANGED <<registerVars, server, rangeVars, stops, expired, drained>>

------------------------------------------------------------------------------
\* Shutdown.  Range comes across every key that is there all the time, no key twice, and
\* of keys that come or go meanwhile it may report any value they had.
RangeBegin ==
  /\ main = "shutdown" /\ main' = "range"
  /\ seen' = {c \in Calls : \E i \in Ids : registry[i] = c}
  /\ early' = {c \in Calls : call[c].step \in {"stored", "counted", "done"}}
  /\ UNCHANGED <<registerVars, server, visited, stops, expired, drained>>

Visit(c) ==
  /\ main = "range" /\ c \in seen /\ call[c].id \notin visited
  /\ visited' = visited \union {call[c].id} /\ stops' = [stops EXCEPT ![c] = "spawned"]
  /\ UNCHANGED <<registerVars, server, main, seen, early, expired, drained>>

\* A Range that ends with the first actor.
RangeShort ==
  /\ main = "range" /\ main' = "wait"
  /\ (\A i \in Ids : registry[i] = None) \/ visited # {}
  /\ UNCHANGED <<registerVars, server, rangeVars, stops, expired, drained>>

RangeEnd ==
  /\ main = "range" /\ \A i \in Ids : registry[i] \in early => i \in visited
  /\ main' = "wait"
  /\ UNCHANGED <<registerVars, server, rangeVars, stops, expired, drained>>

\* A goroutine of Shutdown: Stop cancels, and waits for the actor or the deadline.
StopCancels(c) ==
  /\ stops[c] = "spawned" /\ stops' = [stops EXCEPT ![c] = "waiting"]
  /\ actor' = [actor EXCEPT ![c] = Cancelled(@)]
  /\ UNCHANGED <<registry, count, call, removal, server, main, rangeVars, expired, drained>>

\* A Stop without a deadline.
StopWaits(c) ==
  /\ stops[c] = "waiting" /\ actor[c] # "leaving"
  /\ stops' = [stops EXCEPT ![c] = "over"]
  /\ UNCHANGED <<registerVars, server, main, rangeVars, expired, drained>>

StopReturns(c) ==
  /\ stops[c] = "waiting" /\ (actor[c] # "leaving" \/ expired)
  /\ stops' = [stops EXCEPT ![c] = "over"]
  /\ UNCHANGED <<registerVars, server, main, rangeVars, expired, drained>>

Deadline ==
  /\ main \in {"range", "wait"} /\ ~expired /\ expired' = TRUE
  /\ UNCHANGED <<registerVars, server, main, rangeVars, stops, drained>>

WaitOver ==
  /\ main = "wait" /\ \A c \in Calls : stops[c] \in {"none", "over"}
  /\ main' = "replace"
  /\ UNCHANGED <<registerVars, server, rangeVars, stops, expired, drained>>

\* s.actors = sync.Map{}: copied over while handlers use it, so that one that is in
\* LoadOrStore then may see half of it and panic (its request is lost, gin recovers), and
\* one that is not sees the empty map.
ReplaceMap(lost) ==
  /\ main = "replace" /\ \A c \in lost : call[c].step = "enter"
  /\ main' = "reset" /\ registry' = [i \in Ids |-> None]
  /\ call' = [c \in Calls |-> IF c \in lost THEN [call[c] EXCEPT !.step = "panicked"] ELSE call[c]]
  /\ UNCHANGED <<count, actor, removal, server, rangeVars, stops, expired, drained>>

ResetCount ==
  /\ main = "reset" /\ main' = "done" /\ count' = 0
  /\ UNCHANGED <<registry, call, actor, removal, server, rangeVars, stops, expired, drained>>

------------------------------------------------------------------------------
RegisterStep(c) == LoadOrStore(c) \/ AddOne(c) \/ StartActor(c)
StopStep(c) == StopCancels(c) \/ StopReturns(c)
MainStep == \/ Drain \/ DrainTimeout \/ RangeBegin \/ RangeEnd \/ WaitOver
            \/ \E lost \in SUBSET Calls : ReplaceMap(lost)
            \/ ResetCount

Next == \/ \E c \in Calls, i \in Ids : Enter(c, i)
        \/ \E c \in Calls : RegisterStep(c) \/ Leave(c) \/ Visit(c) \/ StopStep(c)
        \/ \E u \in Removals, i \in Ids : Delete(u, i)
        \/ \E u \in Removals : SubtractOne(u) \/ StopRemoved(u)
        \/ Listen \/ Signal \/ Deadline \/ MainStep

Spec == Init /\ [][Next]_svars

\* The main goroutine and those it spawns are scheduled, and the clock goes on.  Handlers
\* need not come to an end, actors need not leave (a script may hang), nobody has to signal.
FairSpec == /\ Spec /\ WF_svars(MainStep) /\ WF_svars(Deadline)
            /\ \A c \in Calls : WF_svars(Visit(c)) /\ WF_svars(StopStep(c))

------------------------------------------------------------------------------
TypeOK ==
  /\ registry \in [Ids -> Calls \union {None}] /\ count \in Int
  /\ call \in [Calls -> {Idle} \union
       [step : {"enter", "stored", "counted", "done", "refused", "panicked"}, id : Ids]]
  /\ actor \in [Calls -> {"new", "running", "cancelled", "leaving", "gone"}]
  /\ removal \in [Removals -> {Idle} \union [step : {"count", "stop"}, actor : Calls]]
  /\ server \in {"starting", "listening", "closing"}
  /\ main \in {"serving", "draining", "shutdown", "range", "wait", "replace", "reset", "done"}
  /\ seen \subseteq Calls /\ visited \subseteq Ids /\ early \subseteq Calls
  /\ stops \in [Calls -> {"none", "spawned", "waiting", "over"}]
  /\ expired \in BOOLEAN /\ drained \in BOOLEAN

\* Until Shutdown replaces the map, the counter /health shows is the number of entries,
\* give or take the calls that are between the map and the counter (system.go:39-42, :55-59).
Uncounted == {c \in Calls : call[c].step = "stored"}
Undiscounted == {u \in Removals : removal[u].step = "count"}
Taken == {i \in Ids : registry[i] # None}
CountTracksRegistry ==
  main \notin {"reset", "done"} =>
    count + Cardinality(Uncounted) - Cardinality(Undiscounted) = Cardinality(Taken)

\* An actor that Shutdown replaces the map under without having stopped it was stored after
\* the Range began: one that was there, even one not yet started or just being replaced by
\* another of its id, is cancelled, or an Unregister holds it (system.go:104-116).
Held(c) == \E u \in Removals : removal[u].step # "idle" /\ removal[u].actor = c
OnlyLateAreForgotten ==
  main \in {"replace", "reset", "done"} =>
    \A c \in early : actor[c] \in {"cancelled", "leaving", "gone"} \/ Held(c)

\* When the HTTP server has come to rest in its thirty seconds no actor outlives Shutdown
\* unheard of: none runs but in an Unregister's hands, and those that Shutdown stopped
\* within its ten seconds are gone (main.go:104-106).
NoneOutlivesShutdown ==
  main = "done" /\ drained =>
    \A c \in Calls : /\ actor[c] = "running" => Held(c)
                     /\ stops[c] = "over" /\ ~expired => actor[c] = "gone"

\* The inductive invariant behind the two.  An actor that was stored stays within reach of
\* the map or of an Unregister until it is stopped; the Range finds for an id no other actor
\* than the one that was there all the time; and after it a goroutine has those in hand.
Stored == {c \in Calls : call[c].step \in {"stored", "counted", "done"}}
Stopped(c) == actor[c] \in {"cancelled", "leaving", "gone"}
InMap(c) == registry[call[c].id] = c

EntriesAreStored == \A i \in Ids : registry[i] # None =>
                      registry[i] \in Stored /\ call[registry[i]].id = i
SeenAreStored == seen \union early \union {c \in Calls : stops[c] # "none"} \subseteq Stored
StartedAreDone == \A c \in Calls :
                    IF call[c].step = "done" THEN actor[c] \in {"running", "leaving", "gone"}
                    ELSE actor[c] \in {"new", "cancelled"}
StoredAreInReach == main \notin {"reset", "done"} =>
                      \A c \in Stored : InMap(c) \/ Held(c) \/ Stopped(c)
RangeNotBegun == main \in {"serving", "draining", "shutdown"} =>
                   visited = {} /\ \A c \in Calls : stops[c] = "none"
RangeFinds == main = "range" =>
                \A c \in early : InMap(c) =>
                  /\ \A d \in seen : call[d].id = call[c].id => d = c
                  /\ call[c].id \in visited => stops[c] # "none"
StopsStop == \A c \in Calls : stops[c] \in {"waiting", "over"} => Stopped(c)
WaitHasAll == main = "wait" => \A c \in early : Stopped(c) \/ Held(c) \/ stops[c] = "spawned"
DrainIsClosing == main = "draining" \/ drained => server = "closing"
DrainedIsQuiet == drained => /\ Registering = {} /\ main \notin {"serving", "draining"}
                             /\ main # "shutdown" => Stored \subseteq early
                             /\ \A c \in Calls : stops[c] = "over" /\ ~expired => actor[c] = "gone"
SInv == /\ TypeOK /\ EntriesAreStored /\ SeenAreStored /\ StartedAreDone /\ StoredAreInReach
        /\ RangeNotBegun /\ RangeFinds /\ StopsStop /\ WaitHasAll /\ OnlyLateAreForgotten
        /\ DrainIsClosing /\ DrainedIsQuiet

\* Once the signal has come, Shutdown comes to its end, whatever handlers are under way and
\* however long an actor takes.
ShutdownReturns == main # "serving" ~> main = "done"
==============================================================================
