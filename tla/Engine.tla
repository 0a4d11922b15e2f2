-------------------------------- MODULE Engine --------------------------------
(***************************************************************************)
(* pkg/engine/js_engine.go: the script engine of one room.  The actor's    *)
(* goroutine runs the hooks and Destroy; beside it run the execution       *)
(* timeout of each hook (time.AfterFunc), the script's timeouts and its    *)
(* interval tickers.  They meet in the timers map, in the interrupt flag   *)
(* of the goja runtime and in e.vm.                                        *)
(*                                                                         *)
(* goja is external: Interrupt sets a flag that aborts the script at its   *)
(* next instruction, and aborting clears it.  A timer that fires sends the *)
(* actor a message whose handler is one more hook.  Interval periods are   *)
(* positive.                                                               *)
(***************************************************************************)
EXTENDS Naturals, FiniteSets

CONSTANTS Ids,        \* timer ids the script gets
          MaxTimers,  \* sandbox.MaxActiveTimers
          MaxLate     \* bound: timeout goroutines that have not run yet

ASSUME MaxTimersAssumption == MaxTimers \in Nat
ASSUME MaxLateAssumption == MaxLate \in Nat \ {0}

VARIABLES
  vm,        \* "live" or "nil"
  kind,      \* per id: "none" before it is given out, "timeout", "interval"
  timers,    \* keys of e.timers
  armed,     \* timers and tickers of the Go runtime that can still fire
  hook,      \* the actor: "none", "running" a hook, or the "last" one before Destroy
  watch,     \* the hook's execution timeout: "off", "armed", "fired"
  late,      \* timeout goroutines started that have yet to call Interrupt
  interrupt, \* goja's flag
  status,    \* what handleShutdown wrote: "open", "closed"
  process    \* "up", or "panic" in a goroutine nobody recovers

vars == <<vm, kind, timers, armed, hook, watch, late, interrupt, status, process>>
timerVars == <<kind, timers, armed>>

Init == /\ vm = "live" /\ kind = [i \in Ids |-> "none"] /\ timers = {} /\ armed = {}
        /\ hook = "none" /\ watch = "off" /\ late = 0 /\ interrupt = FALSE
        /\ status = "open" /\ process = "up"

InHook == process = "up" /\ hook # "none"
Intervals == {i \in timers : kind[i] = "interval"}

------------------------------------------------------------------------------
\* TriggerHook, up to the call of the script.  `last` is onGameEnd in handleShutdown.
HookStart(which) ==
  /\ process = "up" /\ hook = "none" /\ vm = "live"
  /\ hook' = which /\ watch' = "armed"
  /\ UNCHANGED <<vm, timerVars, late, interrupt, status, process>>

\* The deferred Stop: too late if the timeout has fired.
HookOver(next) == hook' = next /\ watch' = "off"
After == IF hook = "last" THEN "destroy" ELSE "none"

HookReturn ==
  /\ InHook /\ hook # "destroy" /\ ~interrupt /\ HookOver(After)
  /\ UNCHANGED <<vm, timerVars, late, interrupt, status, process>>

HookAborted ==
  /\ InHook /\ hook # "destroy" /\ interrupt /\ interrupt' = FALSE /\ HookOver(After)
  /\ UNCHANGED <<vm, timerVars, late, status, process>>

\* A timeout that stops counting but tells nobody.
WatchFiresSilently ==
  /\ process = "up" /\ watch = "armed" /\ late < MaxLate
  /\ watch' = "fired" /\ late' = late
  /\ UNCHANGED <<vm, timerVars, hook, interrupt, status, process>>

\* The execution timeout: the timer fires, and its goroutine calls e.vm.Interrupt.
WatchFires ==
  /\ process = "up" /\ watch = "armed" /\ late < MaxLate
  /\ watch' = "fired" /\ late' = late + 1
  /\ UNCHANGED <<vm, timerVars, hook, interrupt, status, process>>

Interrupt ==
  /\ process = "up" /\ late > 0 /\ late' = late - 1
  /\ IF vm = "live" THEN interrupt' = TRUE /\ process' = process
                    ELSE interrupt' = interrupt /\ process' = "panic"
  /\ UNCHANGED <<vm, timerVars, hook, watch, status>>

------------------------------------------------------------------------------
\* __platform_setTimeout and __platform_setInterval: nothing at the limit.
SetTimer(i, k) ==
  /\ InHook /\ hook # "destroy" /\ kind[i] = "none"
  /\ Cardinality(timers) < MaxTimers
  /\ kind' = [kind EXCEPT ![i] = k]
  /\ timers' = timers \union {i} /\ armed' = armed \union {i}
  /\ UNCHANGED <<vm, hook, watch, late, interrupt, status, process>>

\* The placeholder of an interval dropped, its ticker left alone.
ClearTimerDropping(i) ==
  /\ InHook /\ hook # "destroy" /\ i \in timers
  /\ timers' = timers \ {i}
  /\ armed' = IF kind[i] = "interval" THEN armed ELSE armed \ {i}
  /\ UNCHANGED <<vm, kind, hook, watch, late, interrupt, status, process>>

\* __platform_clearTimeout and __platform_clearInterval: Stop of an interval's placeholder
\* panics, which ends the hook (TriggerHook recovers) before the entry is deleted.
ClearTimer(i) ==
  /\ InHook /\ hook # "destroy" /\ i \in timers
  /\ \/ /\ kind[i] = "timeout"
        /\ timers' = timers \ {i} /\ armed' = armed \ {i} /\ UNCHANGED <<hook, watch>>
     \/ /\ kind[i] = "interval" /\ HookOver(After) /\ UNCHANGED <<timers, armed>>
  /\ UNCHANGED <<vm, kind, late, interrupt, status, process>>

\* A timeout fires: it sends MsgTimer, and its entry stays.
Fire(i) ==
  /\ process = "up" /\ i \in armed /\ kind[i] = "timeout"
  /\ armed' = armed \ {i}
  /\ UNCHANGED <<vm, kind, timers, hook, watch, late, interrupt, status, process>>

\* handleShutdown without a game on: straight to Destroy.
ShutdownStart ==
  /\ process = "up" /\ hook = "none" /\ hook' = "destroy"
  /\ UNCHANGED <<vm, timerVars, watch, late, interrupt, status, process>>

\* Placeholders passed over.
DestroySkipping ==
  /\ process = "up" /\ hook = "destroy" /\ hook' = "none"
  /\ timers' = {} /\ armed' = armed \ (timers \ Intervals)
  /\ vm' = "nil" /\ status' = "closed"
  /\ UNCHANGED <<kind, watch, late, interrupt, process>>

\* Destroy and the write of the row after it.  With an interval the range over the map
\* panics at its placeholder: some timeouts are gone, and e.vm and the row are left alone.
Destroy ==
  /\ process = "up" /\ hook = "destroy" /\ hook' = "none"
  /\ \/ /\ Intervals = {}
        /\ timers' = {} /\ armed' = armed \ timers /\ vm' = "nil" /\ status' = "closed"
     \/ /\ Intervals # {}
        /\ \E stopped \in SUBSET (timers \ Intervals) :
             timers' = timers \ stopped /\ armed' = armed \ stopped
        /\ UNCHANGED <<vm, status>>
  /\ UNCHANGED <<kind, watch, late, interrupt, process>>

Next == \/ \E which \in {"running", "last"} : HookStart(which)
        \/ HookReturn \/ HookAborted \/ WatchFires \/ Interrupt
        \/ \E i \in Ids, k \in {"timeout", "interval"} : SetTimer(i, k)
        \/ \E i \in Ids : ClearTimer(i) \/ Fire(i)
        \/ ShutdownStart \/ Destroy

Spec == Init /\ [][Next]_vars

\* Timers of the Go runtime fire, their goroutines run, and goja looks at its flag; the
\* script promises nothing.
FairSpec == Spec /\ WF_vars(WatchFires) /\ WF_vars(Interrupt) /\ WF_vars(HookAborted)

------------------------------------------------------------------------------
TypeOK ==
  /\ vm \in {"live", "nil"} /\ kind \in [Ids -> {"none", "timeout", "interval"}]
  /\ timers \in SUBSET Ids /\ Cardinality(timers) <= MaxTimers /\ armed \in SUBSET Ids
  /\ hook \in {"none", "running", "last", "destroy"} /\ watch \in {"off", "armed", "fired"}
  /\ late \in 0..MaxLate /\ interrupt \in BOOLEAN
  /\ status \in {"open", "closed"} /\ process \in {"up", "panic"}

\* What can fire has an entry, so the sandbox limit bounds the timers of a room whatever
\* its hooks set, clear and lose; and an interval is for ever: no clear stops its ticker,
\* and no Destroy takes the engine away from under it.
ArmedAreCounted == /\ armed \subseteq timers
                   /\ \A i \in Ids : kind[i] = "interval" => i \in armed /\ vm = "live"

\* A destroyed engine has no timer, no ticker and no execution timeout left to fire, runs no
\* hook, and its row is closed.  Timeouts that had fired before (late) are not covered: the
\* Interrupt of each is still to come, on an e.vm that is nil.
DestroyedIsSilent ==
  vm = "nil" => /\ armed = {} /\ timers = {} /\ watch = "off"
                /\ hook \notin {"running", "last"} /\ status = "closed"

\* "Enforces execution timeout via vm.Interrupt()" (js_engine.go:131): a hook ends, even
\* one whose script never returns, so it cannot keep the actor for ever.
HookEnds == hook \in {"running", "last"} ~> hook \notin {"running", "last"} \/ process = "panic"
==============================================================================
