----------------------------- MODULE Engine_proofs -----------------------------
(***************************************************************************)
(* The timers of an engine for every limit and every number of ids.        *)
(***************************************************************************)
EXTENDS Engine, FiniteSetTheorems, TLAPS

\* The timers map is finite and within the limit, whatever the script sets and clears:
\* what TypeOK says of it, with the finiteness that Cardinality needs.
TimersBounded == IsFiniteSet(timers) /\ Cardinality(timers) <= MaxTimers

Types ==
  /\ vm \in {"live", "nil"} /\ kind \in [Ids -> {"none", "timeout", "interval"}]
  /\ timers \in SUBSET Ids /\ armed \in SUBSET Ids
  /\ hook \in {"none", "running", "last", "destroy"} /\ watch \in {"off", "armed", "fired"}
  /\ late \in 0..MaxLate /\ interrupt \in BOOLEAN
  /\ status \in {"open", "closed"} /\ process \in {"up", "panic"}

\* A hook only runs on a live engine, and the execution timeout is stopped with its hook:
\* with them the silence of a destroyed engine is inductive.
HookNeedsVM == /\ hook \in {"running", "last"} => vm = "live"
               /\ hook \notin {"running", "last"} => watch = "off"

EInv == Types /\ TimersBounded /\ ArmedAreCounted /\ DestroyedIsSilent /\ HookNeedsVM

\* A fresh engine satisfies the invariant.
LEMMA InitEInv == Init => EInv
<1> SUFFICES ASSUME Init PROVE EInv
  OBVIOUS
<1>1. IsFiniteSet({}) /\ Cardinality({}) = 0
  BY FS_EmptySet
<1>2. 0 \in 0..MaxLate /\ 0 <= MaxTimers
  BY MaxTimersAssumption, MaxLateAssumption
<1>3. Types
  BY <1>2 DEF Init, Types
<1>4. TimersBounded
  BY <1>1, <1>2 DEF Init, TimersBounded
<1> QED
  BY <1>3, <1>4 DEF Init, EInv, ArmedAreCounted, DestroyedIsSilent, HookNeedsVM

\* The steps that leave the timers alone.
LEMMA HookEInv ==
  ASSUME EInv, \/ \E which \in {"running", "last"} : HookStart(which)
               \/ HookReturn \/ HookAborted \/ WatchFires \/ Interrupt
               \/ ShutdownStart \/ UNCHANGED vars
  PROVE  EInv'
<1>1. UNCHANGED <<timers, armed, kind, vm, status>>
  BY DEF HookStart, HookReturn, HookAborted, WatchFires, Interrupt, ShutdownStart, vars, timerVars
<1>4. late' \in 0..MaxLate
  BY MaxLateAssumption
     DEF EInv, Types, HookStart, HookReturn, HookAborted, WatchFires, Interrupt, ShutdownStart, vars
<1>2. Types'
  BY <1>1, <1>4
     DEF EInv, Types, HookStart, HookReturn, HookAborted, HookOver, After, WatchFires, Interrupt,
         ShutdownStart, vars
<1>3. HookNeedsVM'
  BY <1>1 DEF EInv, HookNeedsVM, HookStart, HookReturn, HookAborted, HookOver, After, WatchFires,
              Interrupt, ShutdownStart, vars
<1>5. DestroyedIsSilent'
  <2>1. vm = "nil" => hook' \notin {"running", "last"}
    BY <1>1, <1>3 DEF HookNeedsVM
  <2>2. hook' \notin {"running", "last"} => watch' = "off"
    BY <1>3 DEF HookNeedsVM
  <2> QED
    BY <1>1, <2>1, <2>2 DEF EInv, DestroyedIsSilent
<1> QED
  BY <1>1, <1>2, <1>3, <1>5 DEF EInv, TimersBounded, ArmedAreCounted

\* A timer is set, cleared, or fires.
LEMMA TimerEInv ==
  ASSUME EInv, NEW i \in Ids, \/ \E k \in {"timeout", "interval"} : SetTimer(i, k)
                              \/ ClearTimer(i) \/ Fire(i)
  PROVE  EInv'
<1> USE DEF EInv
<1>1. Types' /\ HookNeedsVM'
  BY DEF Types, HookNeedsVM, SetTimer, ClearTimer, Fire, HookOver, After, timerVars
<1>2. Cardinality(timers) \in Nat
  BY FS_CardinalityType DEF TimersBounded
<1>3. /\ IsFiniteSet(timers \union {i}) /\ IsFiniteSet(timers \ {i})
      /\ Cardinality(timers \union {i}) <= Cardinality(timers) + 1
      /\ Cardinality(timers \ {i}) <= Cardinality(timers)
  <2>1. /\ IsFiniteSet(timers \union {i})
        /\ Cardinality(timers \union {i}) =
             IF i \in timers THEN Cardinality(timers) ELSE Cardinality(timers) + 1
    BY FS_AddElement DEF TimersBounded
  <2>2. /\ IsFiniteSet(timers \ {i})
        /\ Cardinality(timers \ {i}) =
             IF i \in timers THEN Cardinality(timers) - 1 ELSE Cardinality(timers)
    BY FS_RemoveElement DEF TimersBounded
  <2> QED
    BY <1>2, <2>1, <2>2
<1>7. Cardinality(timers \union {i}) \in Nat /\ Cardinality(timers \ {i}) \in Nat
  BY <1>3, FS_CardinalityType
<1>4. TimersBounded'
  <2>1. CASE \E k \in {"timeout", "interval"} : SetTimer(i, k)
    <3>1. timers' = timers \union {i} /\ Cardinality(timers) < MaxTimers
      BY <2>1 DEF SetTimer
    <3>2. Cardinality(timers \union {i}) <= MaxTimers
      BY <1>2, <1>3, <1>7, <3>1, MaxTimersAssumption
    <3> QED
      BY <1>3, <3>1, <3>2 DEF TimersBounded
  <2>2. CASE ClearTimer(i) \/ Fire(i)
    <3>1. timers' = timers \ {i} \/ timers' = timers
      BY <2>2 DEF ClearTimer, Fire
    <3>2. Cardinality(timers \ {i}) <= MaxTimers
      BY <1>2, <1>3, <1>7, MaxTimersAssumption DEF TimersBounded
    <3> QED
      BY <1>3, <3>1, <3>2 DEF TimersBounded
  <2> QED
    BY <2>1, <2>2
<1>8. InHook /\ hook # "destroy" => vm = "live"
  BY DEF InHook, HookNeedsVM, Types
<1>5. ArmedAreCounted'
  <2>1. CASE \E k \in {"timeout", "interval"} : SetTimer(i, k)
    BY <2>1, <1>8 DEF ArmedAreCounted, SetTimer, Types
  <2>2. CASE ClearTimer(i)
    BY <2>2 DEF ArmedAreCounted, ClearTimer
  <2>3. CASE Fire(i)
    BY <2>3 DEF ArmedAreCounted, Fire
  <2> QED
    BY <2>1, <2>2, <2>3
<1>6. DestroyedIsSilent'
  BY <1>8 DEF DestroyedIsSilent, SetTimer, ClearTimer, Fire
<1> QED
  BY <1>1, <1>4, <1>5, <1>6

\* Destroy, whether it comes to its end or panics at a placeholder.
LEMMA DestroyEInv == EInv /\ Destroy => EInv'
<1> SUFFICES ASSUME EInv, Destroy PROVE EInv'
  OBVIOUS
<1> USE DEF EInv
<1>1. timers' \subseteq timers
  BY DEF Destroy
<1>2. TimersBounded'
  BY <1>1, FS_Subset, FS_CardinalityType, MaxTimersAssumption DEF TimersBounded
<1>3. Types' /\ HookNeedsVM'
  BY <1>1 DEF Types, HookNeedsVM, Destroy
<1>4. ArmedAreCounted'
  <2>1. CASE Intervals = {}
    <3>1. \A i \in Ids : kind[i] # "interval"
      BY <2>1 DEF Intervals, ArmedAreCounted
    <3> QED
      BY <2>1, <3>1 DEF ArmedAreCounted, Destroy
  <2>2. CASE Intervals # {}
    BY <2>2 DEF ArmedAreCounted, Intervals, Destroy
  <2> QED
    BY <2>1, <2>2
<1>5. DestroyedIsSilent'
  BY DEF DestroyedIsSilent, ArmedAreCounted, HookNeedsVM, Destroy
<1> QED
  BY <1>2, <1>3, <1>4, <1>5

\* The invariant of the engine.
THEOREM EngineInvariance == Spec => []EInv
<1>1. EInv /\ [Next]_vars => EInv'
  BY HookEInv, TimerEInv, DestroyEInv DEF Next
<1> QED
  BY <1>1, InitEInv, PTL DEF Spec

\* The types, and the sandbox limit on entries (js_engine.go:283-302).
THEOREM EngineTypes == Spec => []TypeOK
<1>1. EInv => TypeOK
  BY DEF EInv, Types, TimersBounded, TypeOK
<1> QED
  BY <1>1, EngineInvariance, PTL

\* What can fire is counted in the map, and an interval stays armed on a live engine
\* (js_engine.go:200-209, 283-336).
THEOREM Counted == Spec => []ArmedAreCounted
<1>1. EInv => ArmedAreCounted
  BY DEF EInv
<1> QED
  BY <1>1, EngineInvariance, PTL

\* Once e.vm is nil no timer of any kind is left to fire, and no hook runs
\* (js_engine.go:160-170, 200-209).
THEOREM Silent == Spec => []DestroyedIsSilent
<1>1. EInv => DestroyedIsSilent
  BY DEF EInv
<1> QED
  BY <1>1, EngineInvariance, PTL

------------------------------------------------------------------------------
\* What HookEnds rests on: a hook that runs has its timeout still to fire, or an interrupt
\* on its way or raised, however many late timeouts of earlier hooks come in between; one
\* of them can end the hook too early, and never leaves it without.
HookIsWatched ==
  hook \in {"running", "last"} => \/ watch = "armed"
                                  \/ watch = "fired" /\ (late > 0 \/ interrupt)

LEMMA WatchedStep == EInv /\ HookIsWatched /\ [Next]_vars => HookIsWatched'
<1> SUFFICES ASSUME EInv, HookIsWatched, [Next]_vars PROVE HookIsWatched'
  OBVIOUS
<1> USE DEF HookIsWatched, HookOver, After
<1>1. CASE \E which \in {"running", "last"} : HookStart(which)
  BY <1>1 DEF HookStart
<1>2. CASE HookReturn \/ HookAborted \/ ShutdownStart \/ Destroy
  BY <1>2 DEF HookReturn, HookAborted, ShutdownStart, Destroy
<1>3. CASE WatchFires
  <2>1. watch' = "fired" /\ late' = late + 1 /\ late \in Nat
    BY <1>3, MaxLateAssumption DEF WatchFires, EInv, Types
  <2> QED
    BY <2>1
<1>4. CASE Interrupt
  <2>1. hook \in {"running", "last"} => vm = "live"
    BY DEF EInv, HookNeedsVM
  <2>2. UNCHANGED <<hook, watch>> /\ (vm = "live" => interrupt')
    BY <1>4 DEF Interrupt
  <2> QED
    BY <2>1, <2>2
<1>5. ASSUME NEW i \in Ids, \/ \E k \in {"timeout", "interval"} : SetTimer(i, k)
                            \/ ClearTimer(i) \/ Fire(i)
      PROVE  HookIsWatched'
  BY <1>5 DEF SetTimer, ClearTimer, Fire
<1>6. CASE UNCHANGED vars
  BY <1>6 DEF vars
<1> QED
  BY <1>1, <1>2, <1>3, <1>4, <1>5, <1>6 DEF Next

\* No hook runs unwatched (js_engine.go:160-170): what is left to liveness is that the
\* runtime fires its timers, runs their goroutines, and goja looks at its flag.
THEOREM NoHookUnwatched == Spec => []HookIsWatched
<1>1. Init => HookIsWatched
  BY DEF Init, HookIsWatched
<1> QED
  BY <1>1, WatchedStep, EngineInvariance, PTL DEF Spec
==============================================================================
