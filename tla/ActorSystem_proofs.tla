-------------------------- MODULE ActorSystem_proofs --------------------------
(***************************************************************************)
(* What Shutdown stops and what it forgets, for any number of ids, Register  *)
(* and Unregister calls.                                                     *)
(***************************************************************************)
EXTENDS ActorSystem, FiniteSetTheorems, TLAPS

\* Before anything is registered the invariant holds of nothing.
LEMMA InitSInv == Init => SInv
<1> SUFFICES ASSUME Init PROVE SInv
  OBVIOUS
<1>1. TypeOK
  <2>1. Calls \subseteq Calls \union {None} /\ None \in Calls \union {None}
    OBVIOUS
  <2>2. /\ registry \in [Ids -> Calls \union {None}] /\ count \in Int
        /\ actor \in [Calls -> {"new", "running", "cancelled", "leaving", "gone"}]
        /\ stops \in [Calls -> {"none", "spawned", "waiting", "over"}]
    BY <2>1 DEF Init
  <2>3. call \in [Calls -> {Idle} \union
          [step : {"enter", "stored", "counted", "done", "refused", "panicked"}, id : Ids]]
    BY DEF Init
  <2>4. removal \in [Removals -> {Idle} \union [step : {"count", "stop"}, actor : Calls]]
    BY DEF Init
  <2> QED
    BY <2>2, <2>3, <2>4 DEF Init, TypeOK
<1>2. Stored = {} /\ \A c \in Calls : call[c].step = "idle"
  BY DEF Init, Stored, Idle
<1>3. /\ EntriesAreStored /\ SeenAreStored /\ StartedAreDone /\ StoredAreInReach
      /\ RangeNotBegun /\ StopsStop
  BY <1>2 DEF Init, EntriesAreStored, SeenAreStored, StartedAreDone, StoredAreInReach,
              RangeNotBegun, StopsStop
<1>4. RangeFinds /\ WaitHasAll /\ OnlyLateAreForgotten /\ DrainIsClosing /\ DrainedIsQuiet
  BY DEF Init, RangeFinds, WaitHasAll, OnlyLateAreForgotten, DrainIsClosing, DrainedIsQuiet
<1> QED
  BY <1>1, <1>3, <1>4 DEF SInv

\* LoadOrStore that finds the id taken changes nothing but the call.
LEMMA RefusedSInv ==
  ASSUME SInv, NEW c \in Calls, LoadOrStore(c), registry[call[c].id] # None
  PROVE  SInv'
<1>1. UNCHANGED <<registry, seen, early, actor, stops, main, visited>>
  BY DEF LoadOrStore
<1>2. call' = [call EXCEPT ![c].step = "refused"]
  BY DEF LoadOrStore, Goto
<1>3. call[c].step = "enter" /\ call[c].id \in Ids /\ c \notin Stored
  BY DEF LoadOrStore, SInv, TypeOK, Idle, Stored
<1>4. /\ Stored' = Stored
      /\ Registering' \subseteq Registering
      /\ \A d \in Stored : call'[d] = call[d]
  BY <1>2, <1>3 DEF SInv, TypeOK, Stored, Registering, Idle
<1>5. TypeOK'
  BY <1>1, <1>2, <1>3 DEF LoadOrStore, SInv, TypeOK, Idle
<1>6. (EntriesAreStored /\ SeenAreStored /\ StartedAreDone /\ StoredAreInReach)'
  BY <1>1, <1>2, <1>3, <1>4
     DEF LoadOrStore, SInv, TypeOK, EntriesAreStored, SeenAreStored, StartedAreDone,
         StoredAreInReach, Stopped, InMap, Held
<1>7. (RangeNotBegun /\ RangeFinds /\ StopsStop /\ WaitHasAll /\ OnlyLateAreForgotten)'
  BY <1>1, <1>4
     DEF LoadOrStore, SInv, SeenAreStored, RangeNotBegun, RangeFinds, StopsStop, WaitHasAll,
         OnlyLateAreForgotten, Stopped, InMap, Held
<1>8. (DrainIsClosing /\ DrainedIsQuiet)'
  BY <1>1, <1>4 DEF LoadOrStore, SInv, DrainIsClosing, DrainedIsQuiet
<1> QED
  BY <1>5, <1>6, <1>7, <1>8 DEF SInv

\* LoadOrStore that finds it free: the actor is in the map, and no actor of its id was.
LEMMA StoredSInv ==
  ASSUME SInv, NEW c \in Calls, LoadOrStore(c), registry[call[c].id] = None
  PROVE  SInv'
<1>1. /\ call' = [call EXCEPT ![c].step = "stored"]
      /\ registry' = [registry EXCEPT ![call[c].id] = c]
      /\ seen' = IF main = "range" THEN seen \union {c} ELSE seen
      /\ UNCHANGED <<early, actor, stops, main, visited>>
  BY DEF LoadOrStore, Goto
<1>2. call[c].step = "enter" /\ call[c].id \in Ids /\ c \notin Stored
  BY DEF LoadOrStore, SInv, TypeOK, Idle, Stored
<1>3. /\ call'[c].step = "stored" /\ call'[c].id = call[c].id
      /\ \A d \in Calls \ {c} : call'[d] = call[d]
  BY <1>1, <1>2 DEF SInv, TypeOK, Idle
<1>4. Stored' = Stored \union {c} /\ Registering' = Registering
  BY <1>2, <1>3 DEF Stored, Registering
<1>5. TypeOK'
  BY <1>1, <1>2 DEF LoadOrStore, SInv, TypeOK, Idle
<1>6. (EntriesAreStored /\ SeenAreStored /\ StartedAreDone)'
  BY <1>1, <1>2, <1>3, <1>4
     DEF SInv, TypeOK, EntriesAreStored, SeenAreStored, StartedAreDone
<1>7. \A d \in Calls \ {c} : d \in Stored /\ InMap(d) => InMap(d)'
  BY <1>1, <1>2, <1>3, NoneAssumption DEF SInv, TypeOK, InMap, Stored, Idle
<1>8. InMap(c)'
  BY <1>1, <1>2, <1>3 DEF SInv, TypeOK, InMap
<1>9. \A d \in Calls : (Held(d)' <=> Held(d)) /\ (Stopped(d)' <=> Stopped(d))
  BY <1>1 DEF LoadOrStore, Held, Stopped
<1>10. StoredAreInReach'
  BY <1>1, <1>4, <1>7, <1>8, <1>9 DEF SInv, StoredAreInReach, Stored
<1>11. \A d \in early : d # c /\ (InMap(d)' => InMap(d) /\ call[d].id # call[c].id)
  BY <1>1, <1>2, <1>3, NoneAssumption DEF SInv, TypeOK, SeenAreStored, InMap, Stored, Idle
<1>12. RangeFinds'
  BY <1>1, <1>2, <1>3, <1>11 DEF SInv, TypeOK, RangeFinds, SeenAreStored
<1>13. (RangeNotBegun /\ StopsStop /\ WaitHasAll /\ OnlyLateAreForgotten)'
  BY <1>1, <1>9
     DEF SInv, TypeOK, RangeNotBegun, StopsStop, WaitHasAll, OnlyLateAreForgotten, Stopped
<1>14. (DrainIsClosing /\ DrainedIsQuiet)'
  BY <1>1, <1>2, <1>4
     DEF LoadOrStore, SInv, DrainIsClosing, DrainedIsQuiet, Registering
<1> QED
  BY <1>5, <1>6, <1>10, <1>12, <1>13, <1>14 DEF SInv

\* The other steps of Register, and the actor's own end.
LEMMA RegisterSInv ==
  ASSUME SInv, NEW c \in Calls, (\E i \in Ids : Enter(c, i)) \/ RegisterStep(c) \/ Leave(c)
  PROVE  SInv'
<1> USE DEF SInv, TypeOK, EntriesAreStored, SeenAreStored, StartedAreDone, StoredAreInReach,
        RangeNotBegun, RangeFinds, StopsStop, WaitHasAll, OnlyLateAreForgotten,
        DrainIsClosing, DrainedIsQuiet, Stored, Stopped, InMap, Held, Registering, rangeVars, Idle
<1>1. ASSUME NEW i \in Ids, Enter(c, i) PROVE SInv'
  BY <1>1, NoneAssumption DEF Enter
<1>2. CASE LoadOrStore(c)
  BY <1>2, RefusedSInv, StoredSInv
<1>3. CASE AddOne(c)
  BY <1>3, NoneAssumption DEF AddOne, Goto
<1>4. CASE StartActor(c)
  BY <1>4, NoneAssumption DEF StartActor, Goto
<1>5. CASE Leave(c)
  BY <1>5, NoneAssumption DEF Leave
<1> QED
  BY <1>1, <1>2, <1>3, <1>4, <1>5 DEF RegisterStep

\* Unregister takes the actor out of the map into its own hands, and lets go of it stopped.
LEMMA UnregisterSInv ==
  ASSUME SInv, NEW u \in Removals,
         (\E i \in Ids : Delete(u, i)) \/ SubtractOne(u) \/ StopRemoved(u)
  PROVE  SInv'
<1> USE DEF SInv, TypeOK, EntriesAreStored, SeenAreStored, StartedAreDone, StoredAreInReach,
        RangeNotBegun, RangeFinds, StopsStop, WaitHasAll, OnlyLateAreForgotten,
        DrainIsClosing, DrainedIsQuiet, Stored, Stopped, InMap, Held, Registering, rangeVars, Idle
<1>1. ASSUME NEW i \in Ids, Delete(u, i) PROVE SInv'
  BY <1>1, NoneAssumption DEF Delete
<1>2. CASE SubtractOne(u)
  BY <1>2, NoneAssumption DEF SubtractOne
<1>3. CASE StopRemoved(u)
  BY <1>3, NoneAssumption DEF StopRemoved, Cancelled
<1> QED
  BY <1>1, <1>2, <1>3

\* The server and the signal: nothing is registered any more once it has drained.
LEMMA ServerSInv ==
  ASSUME SInv, Listen \/ Signal \/ Drain \/ DrainTimeout
  PROVE  SInv'
<1> USE DEF SInv, TypeOK, EntriesAreStored, SeenAreStored, StartedAreDone, StoredAreInReach,
        RangeNotBegun, RangeFinds, StopsStop, WaitHasAll, OnlyLateAreForgotten,
        DrainIsClosing, DrainedIsQuiet, Stored, Stopped, InMap, Held, Registering,
        registerVars, rangeVars, Idle
<1>1. CASE Listen
  BY <1>1 DEF Listen
<1>2. CASE Signal
  BY <1>2 DEF Signal
<1>3. CASE Drain
  BY <1>3 DEF Drain
<1>4. CASE DrainTimeout
  BY <1>4 DEF DrainTimeout
<1> QED
  BY <1>1, <1>2, <1>3, <1>4

\* Shutdown itself: the Range, the goroutines it spawns, and what follows them.
LEMMA ShutdownSInv ==
  ASSUME SInv, \/ RangeBegin \/ RangeEnd \/ Deadline \/ WaitOver \/ ResetCount
               \/ \E lost \in SUBSET Calls : ReplaceMap(lost)
               \/ \E c \in Calls : Visit(c) \/ StopStep(c)
  PROVE  SInv'
<1> USE DEF SInv, TypeOK, EntriesAreStored, SeenAreStored, StartedAreDone, StoredAreInReach,
        RangeNotBegun, RangeFinds, StopsStop, WaitHasAll, OnlyLateAreForgotten,
        DrainIsClosing, DrainedIsQuiet, Stored, Stopped, InMap, Held, Registering,
        registerVars, rangeVars, Idle
<1>1. CASE RangeBegin
  BY <1>1, NoneAssumption DEF RangeBegin
<1>2. ASSUME NEW c \in Calls, Visit(c) PROVE SInv'
  BY <1>2, NoneAssumption DEF Visit
<1>3. CASE RangeEnd
  BY <1>3, NoneAssumption DEF RangeEnd
<1>4. ASSUME NEW c \in Calls, StopCancels(c) PROVE SInv'
  BY <1>4, NoneAssumption DEF StopCancels, Cancelled
<1>5. ASSUME NEW c \in Calls, StopReturns(c) PROVE SInv'
  BY <1>5, NoneAssumption DEF StopReturns
<1>6. CASE Deadline
  BY <1>6, NoneAssumption DEF Deadline
<1>7. CASE WaitOver
  BY <1>7, NoneAssumption DEF WaitOver
<1>8. ASSUME NEW lost \in SUBSET Calls, ReplaceMap(lost) PROVE SInv'
  BY <1>8, NoneAssumption DEF ReplaceMap
<1>9. CASE ResetCount
  BY <1>9, NoneAssumption DEF ResetCount
<1> QED
  BY <1>1, <1>2, <1>3, <1>4, <1>5, <1>6, <1>7, <1>8, <1>9 DEF StopStep

\* SInv is an invariant of the system, whatever the numbers of ids and calls.
THEOREM SystemInvariance == Spec => []SInv
<1>1. ASSUME SInv, [Next]_svars PROVE SInv'
  <2>1. CASE UNCHANGED svars
    BY <1>1, <2>1
       DEF svars, registerVars, rangeVars, SInv, TypeOK, EntriesAreStored, SeenAreStored,
           StartedAreDone, StoredAreInReach, RangeNotBegun, RangeFinds, StopsStop, WaitHasAll,
           OnlyLateAreForgotten, DrainIsClosing, DrainedIsQuiet, Stored, Stopped, InMap, Held,
           Registering
  <2>2. CASE Next
    BY <1>1, <2>2, RegisterSInv, UnregisterSInv, ServerSInv, ShutdownSInv DEF Next, MainStep
  <2> QED
    BY <1>1, <2>1, <2>2
<1> QED
  BY InitSInv, <1>1, PTL DEF Spec

\* No actor that was stored before the Range began is forgotten running (system.go:104-116).
THEOREM NobodyEarlyForgotten == Spec => []OnlyLateAreForgotten
<1>1. SInv => OnlyLateAreForgotten
  BY DEF SInv
<1> QED
  BY <1>1, SystemInvariance, PTL

\* A server that has drained in time leaves Shutdown nothing to forget (main.go:104-106).
THEOREM DrainedShutdown == Spec => []NoneOutlivesShutdown
<1>1. SInv => NoneOutlivesShutdown
  <2> SUFFICES ASSUME SInv, main = "done", drained, NEW c \in Calls
               PROVE  /\ actor[c] = "running" => Held(c)
                      /\ stops[c] = "over" /\ ~expired => actor[c] = "gone"
    BY DEF NoneOutlivesShutdown
  <2>1. actor[c] = "running" => c \in early
    BY DEF SInv, StartedAreDone, DrainedIsQuiet, Stored
  <2>2. c \in early => Stopped(c) \/ Held(c)
    BY DEF SInv, OnlyLateAreForgotten, Stopped
  <2> QED
    BY <2>1, <2>2 DEF SInv, DrainedIsQuiet, Stopped
<1> QED
  BY <1>1, SystemInvariance, PTL

------------------------------------------------------------------------------
\* The three sets the counter is about are finite.
LEMMA CountsAreNumbers ==
  /\ IsFiniteSet(Uncounted) /\ IsFiniteSet(Undiscounted) /\ IsFiniteSet(Taken)
  /\ Cardinality(Uncounted) \in Nat
  /\ Cardinality(Undiscounted) \in Nat
  /\ Cardinality(Taken) \in Nat
<1>1. IsFiniteSet(Uncounted)
  BY FiniteAssumption, FS_Subset, Zenon DEF Uncounted
<1>2. IsFiniteSet(Undiscounted)
  BY FiniteAssumption, FS_Subset, Zenon DEF Undiscounted
<1>3. IsFiniteSet(Taken)
  BY FiniteAssumption, FS_Subset, Zenon DEF Taken
<1> QED
  BY <1>1, <1>2, <1>3, FS_CardinalityType

\* Storing an actor adds an entry and a call that has yet to count it, counting it takes the
\* call away.
LEMMA RegisterCounts ==
  ASSUME SInv, CountTracksRegistry, NEW c \in Calls, RegisterStep(c)
  PROVE  CountTracksRegistry'
<1>1. CASE LoadOrStore(c) /\ registry[call[c].id] # None
  <2>1. Uncounted' = Uncounted /\ Undiscounted' = Undiscounted /\ Taken' = Taken
    BY <1>1 DEF LoadOrStore, Goto, Uncounted, Undiscounted, Taken, SInv, TypeOK, Idle
  <2> QED
    BY <1>1, <2>1 DEF LoadOrStore, CountTracksRegistry
<1>2. CASE LoadOrStore(c) /\ registry[call[c].id] = None
  <2>1. call[c].id \in Ids /\ c \notin Uncounted
    BY <1>2 DEF LoadOrStore, Uncounted, SInv, TypeOK, Idle
  <2>2. call' = [call EXCEPT ![c].step = "stored"]
        /\ registry' = [registry EXCEPT ![call[c].id] = c]
    BY <1>2 DEF LoadOrStore, Goto
  <2>3. Uncounted' = Uncounted \union {c}
    BY <2>2 DEF Uncounted, SInv, TypeOK, Idle
  <2>4. Taken' = Taken \union {call[c].id} /\ call[c].id \notin Taken
    BY <1>2, <2>1, <2>2, NoneAssumption DEF Taken, SInv, TypeOK
  <2>5. Undiscounted' = Undiscounted /\ count' = count /\ main' = main
    BY <1>2 DEF LoadOrStore, Undiscounted
  <2>6. Cardinality(Uncounted') = Cardinality(Uncounted) + 1
        /\ Cardinality(Taken') = Cardinality(Taken) + 1
    BY <2>1, <2>3, <2>4, CountsAreNumbers, FS_AddElement
  <2> QED
    BY <2>5, <2>6, CountsAreNumbers DEF CountTracksRegistry, SInv, TypeOK
<1>3. CASE AddOne(c)
  <2>1. c \in Uncounted /\ call' = [call EXCEPT ![c].step = "counted"]
    BY <1>3 DEF AddOne, Goto, Uncounted
  <2>2. Uncounted' = Uncounted \ {c}
    BY <2>1 DEF Uncounted, SInv, TypeOK, Idle
  <2>3. /\ Undiscounted' = Undiscounted /\ Taken' = Taken
        /\ count' = count + 1 /\ main' = main
    BY <1>3 DEF AddOne, Undiscounted, Taken
  <2>4. Cardinality(Uncounted') = Cardinality(Uncounted) - 1
    BY <2>1, <2>2, CountsAreNumbers, FS_RemoveElement
  <2> QED
    BY <2>3, <2>4, CountsAreNumbers DEF CountTracksRegistry, SInv, TypeOK
<1>4. CASE StartActor(c)
  <2>1. call[c].step = "counted" /\ call' = [call EXCEPT ![c].step = "done"]
    BY <1>4 DEF StartActor, Goto
  <2>2. Uncounted' = Uncounted /\ Undiscounted' = Undiscounted /\ Taken' = Taken
    BY <1>4, <2>1 DEF StartActor, Uncounted, Undiscounted, Taken, SInv, TypeOK, Idle
  <2> QED
    BY <1>4, <2>2 DEF StartActor, CountTracksRegistry
<1> QED
  BY <1>1, <1>2, <1>3, <1>4 DEF RegisterStep

\* Removing an entry leaves a call that has yet to discount it.
LEMMA UnregisterCounts ==
  ASSUME SInv, CountTracksRegistry, NEW u \in Removals,
         \/ \E i \in Ids : Delete(u, i)
         \/ SubtractOne(u)
         \/ StopRemoved(u)
  PROVE  CountTracksRegistry'
<1>1. ASSUME NEW i \in Ids, Delete(u, i) PROVE CountTracksRegistry'
  <2>1. u \notin Undiscounted /\ i \in Taken
    BY <1>1 DEF Delete, Undiscounted, Taken, Idle
  <2>2. Undiscounted' = Undiscounted \union {u}
    BY <1>1 DEF Delete, Undiscounted, SInv, TypeOK, Idle
  <2>3. Taken' = Taken \ {i}
    BY <1>1 DEF Delete, Taken, SInv, TypeOK
  <2>4. Uncounted' = Uncounted /\ count' = count /\ main' = main
    BY <1>1 DEF Delete, Uncounted
  <2>5. Cardinality(Undiscounted') = Cardinality(Undiscounted) + 1
    BY <2>1, <2>2, CountsAreNumbers, FS_AddElement
  <2>6. Cardinality(Taken') = Cardinality(Taken) - 1
    BY <2>1, <2>3, CountsAreNumbers, FS_RemoveElement
  <2> QED
    BY <2>4, <2>5, <2>6, CountsAreNumbers DEF CountTracksRegistry, SInv, TypeOK
<1>2. CASE SubtractOne(u)
  <2>1. u \in Undiscounted
    BY <1>2 DEF SubtractOne, Undiscounted
  <2>2. Undiscounted' = Undiscounted \ {u}
    BY <1>2 DEF SubtractOne, Undiscounted, SInv, TypeOK, Idle
  <2>3. /\ Uncounted' = Uncounted /\ Taken' = Taken
        /\ count' = count - 1 /\ main' = main
    BY <1>2 DEF SubtractOne, Uncounted, Taken
  <2>4. Cardinality(Undiscounted') = Cardinality(Undiscounted) - 1
    BY <2>1, <2>2, CountsAreNumbers, FS_RemoveElement
  <2> QED
    BY <2>3, <2>4, CountsAreNumbers DEF CountTracksRegistry, SInv, TypeOK
<1>3. CASE StopRemoved(u)
  <2>1. Uncounted' = Uncounted /\ Undiscounted' = Undiscounted /\ Taken' = Taken
    BY <1>3 DEF StopRemoved, Uncounted, Undiscounted, Taken, SInv, TypeOK, Idle
  <2> QED
    BY <1>3, <2>1 DEF StopRemoved, CountTracksRegistry
<1> QED
  BY <1>1, <1>2, <1>3

\* Any other step leaves counter, map and calls alone, or is past the replacement.
LEMMA OthersCount ==
  ASSUME CountTracksRegistry,
         \/ main' \in {"reset", "done"}
         \/ /\ UNCHANGED <<count, registry, call, removal>>
            /\ main' \in {"reset", "done"} \/ main \notin {"reset", "done"}
  PROVE  CountTracksRegistry'
  BY DEF CountTracksRegistry, Uncounted, Undiscounted, Taken

\* The counter is the number of entries, give or take the calls under way, for any numbers of
\* ids and calls.
THEOREM CounterTracksRegistry == Spec => []CountTracksRegistry
<1>1. Init => CountTracksRegistry
  <2> SUFFICES ASSUME Init PROVE CountTracksRegistry
    OBVIOUS
  <2>1. Uncounted = {} /\ Undiscounted = {} /\ Taken = {} /\ count = 0
    BY DEF Init, Uncounted, Undiscounted, Taken, Idle
  <2> QED
    BY <2>1, FS_EmptySet DEF CountTracksRegistry
<1>2. ASSUME SInv, CountTracksRegistry, [Next]_svars PROVE CountTracksRegistry'
  <2>1. CASE \E c \in Calls, i \in Ids : Enter(c, i)
    <3> PICK c \in Calls, i \in Ids : Enter(c, i)
      BY <2>1
    <3>1. Uncounted' = Uncounted /\ Undiscounted' = Undiscounted /\ Taken' = Taken
      BY <1>2 DEF Enter, Uncounted, Undiscounted, Taken, SInv, TypeOK, Idle
    <3> QED
      BY <1>2, <3>1 DEF Enter, CountTracksRegistry
  <2>2. CASE \E c \in Calls : RegisterStep(c)
    BY <1>2, <2>2, RegisterCounts
  <2>3. CASE \/ \E u \in Removals, i \in Ids : Delete(u, i)
             \/ \E u \in Removals : SubtractOne(u) \/ StopRemoved(u)
    BY <1>2, <2>3, UnregisterCounts
  <2>4. CASE \E c \in Calls : Leave(c) \/ Visit(c) \/ StopStep(c)
    <3>1. /\ UNCHANGED <<count, registry, call, removal, main>>
      BY <2>4 DEF Leave, Visit, StopStep, StopCancels, StopReturns, registerVars
    <3> QED
      BY <1>2, <3>1, OthersCount
  <2>5. CASE Listen \/ Signal \/ Deadline \/ Drain \/ DrainTimeout \/ RangeBegin \/ RangeEnd
             \/ WaitOver \/ UNCHANGED svars
    <3>1. /\ UNCHANGED <<count, registry, call, removal>>
          /\ main' \in {"reset", "done"} \/ main \notin {"reset", "done"} \/ main' = main
      BY <2>5 DEF Listen, Signal, Deadline, Drain, DrainTimeout, RangeBegin, RangeEnd, WaitOver,
                  registerVars, svars
    <3> QED
      BY <1>2, <3>1, OthersCount
  <2>6. CASE ResetCount \/ \E lost \in SUBSET Calls : ReplaceMap(lost)
    BY <1>2, <2>6, OthersCount DEF ResetCount, ReplaceMap
  <2> QED
    BY <1>2, <2>1, <2>2, <2>3, <2>4, <2>5, <2>6 DEF Next, MainStep
<1> QED
  BY <1>1, <1>2, SystemInvariance, PTL DEF Spec
==============================================================================
