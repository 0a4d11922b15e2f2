------------------------------ MODULE BaseActor ------------------------------
(***************************************************************************)
(* pkg/actor/actor.go: one actor, a buffered channel drained by a single   *)
(* goroutine.  Start, Send and Stop are called by arbitrary goroutines, so *)
(* each is cut at every point where it touches shared state (the running   *)
(* flag, the channel, the context, the wait group).                        *)
(*                                                                         *)
(* A member of Starts is one call of Start and the run goroutine it may    *)
(* spawn; a member of Stops is one call of Stop and the goroutine in which *)
(* it waits; a member of Msgs is one call of Send.                         *)
(***************************************************************************)
EXTENDS Naturals, Sequences

CONSTANTS Starts, Stops, Msgs, InboxCap

\* NewBaseActor replaces a capacity <= 0 by 256, so a channel is never empty-sized.
ASSUME CapAssumption == InboxCap \in Nat \ {0}

VARIABLES
  running,   \* atomic.Bool
  cancelled, \* the actor's context has been cancelled
  wg,        \* the wait group: the Start calls whose Add(1) has no Done() yet
  inbox,     \* the channel's buffer
  g,         \* per Start call: where it, or the goroutine it spawned, is
  call,      \* per Send call: where it is, then its answer
  stop,      \* per Stop call: where it is, then its answer
  waiter,    \* per Stop call: where its wg.Wait() goroutine is
  processed, errors, \* the counters of Stats()
  crashed,   \* wg.Wait() panicked in a goroutine with no recover
  accepted,  \* history: messages Send answered nil for, in channel order
  taken,     \* history: messages received from the channel, in order
  atCancel,  \* history: how many messages were accepted before the first Stop
  owed       \* history, per Stop call: the run goroutines registered when it began

actorVars == <<running, cancelled, wg, inbox, g, processed, errors, taken>>
sendVars  == <<call, accepted>>
stopVars  == <<stop, waiter, crashed, atCancel, owed>>
vars      == <<actorVars, sendVars, stopVars>>

Unstarted == {"idle", "noop"}
Handling  == {"handle", "drainHandle"}
Active    == {"won", "loop", "drain", "leaving"} \union Handling
Exited    == {"joining", "gone"}

Init ==
  /\ running = FALSE /\ cancelled = FALSE /\ wg = {} /\ inbox = <<>>
  /\ g = [i \in Starts |-> "idle"]
  /\ call = [m \in Msgs |-> "idle"]
  /\ stop = [s \in Stops |-> "idle"]
  /\ waiter = [s \in Stops |-> "none"]
  /\ processed = 0 /\ errors = 0 /\ crashed = FALSE
  /\ accepted = <<>> /\ taken = <<>> /\ atCancel = 0
  /\ owed = [s \in Stops |-> {}]

\* A step of Start or of the goroutine it spawned.  A panic in any goroutine ends them all.
Moves(i, from, to) == ~crashed /\ g[i] = from /\ g' = [g EXCEPT ![i] = to]

------------------------------------------------------------------------------
(* Start: running.CompareAndSwap(false, true), then wg.Add(1); go a.run(). *)

\* A Start that tests the flag but does not swap it atomically.
StartCallRacy(i) ==
  /\ Moves(i, "idle", "won")
  /\ running' = TRUE
  /\ UNCHANGED <<cancelled, wg, inbox, processed, errors, taken, sendVars, stopVars>>

StartCall(i) ==
  /\ \/ ~running /\ Moves(i, "idle", "won")
     \/ running /\ Moves(i, "idle", "noop")
  /\ running' = TRUE
  /\ UNCHANGED <<cancelled, wg, inbox, processed, errors, taken, sendVars, stopVars>>

Spawn(i) ==
  /\ Moves(i, "won", "loop")
  /\ wg' = wg \union {i}
  /\ UNCHANGED <<running, cancelled, inbox, processed, errors, taken, sendVars, stopVars>>

------------------------------------------------------------------------------
(* run and drain.  Both branches of run's select may be ready: Go picks one. *)

Receive ==
  /\ inbox # <<>>
  /\ inbox' = Tail(inbox)
  /\ taken' = Append(taken, Head(inbox))

LoopReceive(i) ==
  /\ Moves(i, "loop", "handle")
  /\ Receive
  /\ UNCHANGED <<running, cancelled, wg, processed, errors, sendVars, stopVars>>

\* ctx.Done() returns at once, without draining.
LoopCancelledNoDrain(i) ==
  /\ cancelled
  /\ Moves(i, "loop", "leaving")
  /\ UNCHANGED <<running, cancelled, wg, inbox, processed, errors, taken, sendVars, stopVars>>

LoopCancelled(i) ==
  /\ cancelled
  /\ Moves(i, "loop", "drain")
  /\ UNCHANGED <<running, cancelled, wg, inbox, processed, errors, taken, sendVars, stopVars>>

DrainReceive(i) ==
  /\ Moves(i, "drain", "drainHandle")
  /\ Receive
  /\ UNCHANGED <<running, cancelled, wg, processed, errors, sendVars, stopVars>>

DrainEmpty(i) ==
  /\ inbox = <<>>
  /\ Moves(i, "drain", "leaving")
  /\ UNCHANGED <<running, cancelled, wg, inbox, processed, errors, taken, sendVars, stopVars>>

Outcomes == {"ok", "error", "panic"}

\* The recover sits in run instead of processMessage: a panic ends the goroutine.
HandledRecoverOutside(i, outcome) ==
  /\ \/ outcome # "panic" /\ Moves(i, "handle", "loop")
     \/ outcome = "panic" /\ Moves(i, "handle", "joining")
     \/ Moves(i, "drainHandle", "drain")
  /\ errors' = errors + (IF outcome = "ok" THEN 0 ELSE 1)
  /\ processed' = processed + (IF outcome = "panic" THEN 0 ELSE 1)
  /\ running' = (outcome # "panic" \/ g[i] = "drainHandle")
  /\ UNCHANGED <<cancelled, wg, inbox, taken, sendVars, stopVars>>

\* processMessage returns: an error is counted in both counters, a recovered
\* panic in errors only.
Handled(i, outcome) ==
  /\ Moves(i, "handle", "loop") \/ Moves(i, "drainHandle", "drain")
  /\ errors' = errors + (IF outcome = "ok" THEN 0 ELSE 1)
  /\ processed' = processed + (IF outcome = "panic" THEN 0 ELSE 1)
  /\ UNCHANGED <<running, cancelled, wg, inbox, taken, sendVars, stopVars>>

\* The deferred calls of run, last deferred first.
Leave(i) ==
  /\ Moves(i, "leaving", "joining")
  /\ running' = FALSE
  /\ UNCHANGED <<cancelled, wg, inbox, processed, errors, taken, sendVars, stopVars>>

\* The deferred wg.Done() is forgotten.
JoinForgotten(i) ==
  /\ Moves(i, "joining", "gone")
  /\ UNCHANGED <<wg, waiter, running, cancelled, inbox, processed, errors, taken,
                 sendVars, stop, crashed, atCancel, owed>>

\* A goroutine that finds messages left behind after its Done and runs once more.
JoinAndRestart(i) ==
  /\ Moves(i, "joining", IF inbox = <<>> THEN "gone" ELSE "won")
  /\ running' = (running \/ inbox # <<>>)
  /\ wg' = wg \ {i}
  /\ waiter' = IF wg' = {}
               THEN [s \in Stops |-> IF waiter[s] = "parked" THEN "woken" ELSE waiter[s]]
               ELSE waiter
  /\ UNCHANGED <<cancelled, inbox, processed, errors, taken, sendVars, stop, crashed,
                 atCancel, owed>>

\* wg.Done(): the last one wakes every parked Wait.
Join(i) ==
  /\ Moves(i, "joining", "gone")
  /\ wg' = wg \ {i}
  /\ waiter' = IF wg' = {}
               THEN [s \in Stops |-> IF waiter[s] = "parked" THEN "woken" ELSE waiter[s]]
               ELSE waiter
  /\ UNCHANGED <<running, cancelled, inbox, processed, errors, taken,
                 sendVars, stop, crashed, atCancel, owed>>

------------------------------------------------------------------------------
(* Send: test running, then a non-blocking channel send. *)

SendCheck(m) ==
  /\ ~crashed /\ call[m] = "idle"
  /\ call' = [call EXCEPT ![m] = IF running THEN "checked" ELSE "notRunning"]
  /\ UNCHANGED <<actorVars, accepted, stopVars>>

Enqueue(m) ==
  /\ ~crashed /\ call[m] = "checked"
  /\ Len(inbox) < InboxCap
  /\ call' = [call EXCEPT ![m] = "nil"]
  /\ inbox' = Append(inbox, m)
  /\ accepted' = Append(accepted, m)
  /\ UNCHANGED <<running, cancelled, wg, g, processed, errors, taken, stopVars>>

EnqueueFull(m) ==
  /\ ~crashed /\ call[m] = "checked"
  /\ Len(inbox) = InboxCap
  /\ call' = [call EXCEPT ![m] = "full"]
  /\ UNCHANGED <<actorVars, accepted, stopVars>>

------------------------------------------------------------------------------
(* Stop: cancel(), a goroutine for wg.Wait(), then select done / ctx.Done(). *)

StopCall(s) ==
  /\ ~crashed /\ stop[s] = "idle"
  /\ stop' = [stop EXCEPT ![s] = "waiting"]
  /\ waiter' = [waiter EXCEPT ![s] = "spawned"]
  /\ cancelled' = TRUE
  /\ atCancel' = IF cancelled THEN atCancel ELSE Len(accepted)
  /\ owed' = [owed EXCEPT ![s] = wg]
  /\ UNCHANGED <<running, wg, inbox, g, processed, errors, taken, sendVars, crashed>>

\* Signals done without waiting for the counter.
WaitImpatient(s) ==
  /\ ~crashed /\ waiter[s] = "spawned"
  /\ waiter' = [waiter EXCEPT ![s] = "done"]
  /\ UNCHANGED <<actorVars, sendVars, stop, crashed, atCancel, owed>>

\* wg.Wait() returns at once on a zero counter and parks otherwise.
Wait(s) ==
  /\ ~crashed /\ waiter[s] = "spawned"
  /\ waiter' = [waiter EXCEPT ![s] = IF wg = {} THEN "done" ELSE "parked"]
  /\ UNCHANGED <<actorVars, sendVars, stop, crashed, atCancel, owed>>

\* A woken Wait that finds the counter raised again panics ("WaitGroup is reused
\* before previous Wait has returned"), and nothing recovers in that goroutine.
Resume(s) ==
  /\ ~crashed /\ waiter[s] = "woken"
  /\ waiter' = [waiter EXCEPT ![s] = "done"]
  /\ crashed' = (wg # {})
  /\ UNCHANGED <<actorVars, sendVars, stop, atCancel, owed>>

StopReturns(s) ==
  /\ ~crashed /\ stop[s] = "waiting"
  /\ waiter[s] = "done"
  /\ stop' = [stop EXCEPT ![s] = "ok"]
  /\ UNCHANGED <<actorVars, sendVars, waiter, crashed, atCancel, owed>>

StopTimesOut(s) ==
  /\ ~crashed /\ stop[s] = "waiting"
  /\ stop' = [stop EXCEPT ![s] = "timeout"]
  /\ UNCHANGED <<actorVars, sendVars, waiter, crashed, atCancel, owed>>

------------------------------------------------------------------------------
RunStep(i) == \/ LoopReceive(i) \/ LoopCancelled(i) \/ DrainReceive(i) \/ DrainEmpty(i)
              \/ Leave(i) \/ Join(i)
              \/ \E outcome \in Outcomes : Handled(i, outcome)
SendStep(m) == SendCheck(m) \/ Enqueue(m) \/ EnqueueFull(m)
StopStep(s) == Wait(s) \/ Resume(s) \/ StopReturns(s)

Next ==
  \/ \E i \in Starts : StartCall(i) \/ Spawn(i) \/ RunStep(i)
  \/ \E m \in Msgs : SendStep(m)
  \/ \E s \in Stops : StopCall(s) \/ StopStep(s) \/ StopTimesOut(s)

Spec == Init /\ [][Next]_vars

\* The Go scheduler runs every goroutine that can go on.  Handled is included:
\* handlers are assumed to return.  No fairness for the callers of Start, Send
\* and Stop, none for the timeout.
Fairness == /\ \A i \in Starts : WF_vars(Spawn(i)) /\ WF_vars(RunStep(i))
            /\ \A s \in Stops : WF_vars(StopStep(s))

FairSpec == Spec /\ Fairness

------------------------------------------------------------------------------
TypeOK ==
  /\ running \in BOOLEAN /\ cancelled \in BOOLEAN /\ crashed \in BOOLEAN
  /\ wg \in SUBSET Starts
  /\ inbox \in Seq(Msgs) /\ Len(inbox) <= InboxCap
  /\ g \in [Starts -> Unstarted \union Active \union Exited]
  /\ call \in [Msgs -> {"idle", "checked", "notRunning", "nil", "full"}]
  /\ stop \in [Stops -> {"idle", "waiting", "ok", "timeout"}]
  /\ waiter \in [Stops -> {"none", "spawned", "parked", "woken", "done"}]
  /\ processed \in Nat /\ errors \in Nat /\ atCancel \in Nat
  /\ accepted \in Seq(Msgs) /\ taken \in Seq(Msgs)
  /\ owed \in [Stops -> SUBSET Starts]

\* "Single goroutine, no locks" (actor.go:21-23, 65): however Start, Stop and
\* restarts interleave, two run goroutines are never inside the loop or the
\* handler together, and running is true exactly while one of them may be.
SingleRunner ==
  /\ \A i, j \in Starts : g[i] \in Active /\ g[j] \in Active => i = j
  /\ running <=> \E i \in Starts : g[i] \in Active

\* The drain: once any run goroutine has decided to leave, every message accepted
\* before the first Stop has been received.
DrainedBeforeLeaving ==
  (\E i \in Starts : g[i] \in {"leaving"} \union Exited) => Len(taken) >= atCancel

\* A Stop that answers nil has outlived every run goroutine that was registered
\* when it was called, even if another Start revived the actor meanwhile.
StopJoinsOwed ==
  \A s \in Stops : stop[s] = "ok" => \A i \in owed[s] : g[i] = "gone"

\* The process can only die of a wait group reused under a Wait (actor.go:142-152) when
\* two Start calls have passed the swap, a restart or a race: an actor started once is
\* stopped safely, by however many Stops at whatever point of its life.
OneStartNeverCrashes ==
  crashed => \E i, j \in Starts : i # j /\ g[i] \notin Unstarted /\ g[j] \notin Unstarted

\* What the properties above rest on, conjunct by conjunct: what was accepted is received
\* or queued, in order; the wait group holds exactly the goroutines between Spawn and
\* Join; leaving takes a cancellation; the snapshots a Stop takes are settled when its
\* Wait has been woken, which takes a goroutine that is gone.
AcceptedIsHeld == accepted = taken \o inbox
WgIsSpawned == \A i \in Starts : i \in wg <=> g[i] \in (Active \ {"won"}) \union {"joining"}
LeavingIsCancelled ==
  \A i \in Starts : g[i] \in {"drain", "drainHandle", "leaving"} \union Exited => cancelled
SnapshotsInRange == /\ atCancel <= Len(accepted)
                    /\ \A s \in Stops : \A i \in owed[s] : i \in wg \/ g[i] = "gone"
WaitersSettled ==
  \A s \in Stops :
     /\ stop[s] = "ok" => waiter[s] = "done"
     /\ waiter[s] \in {"woken", "done"} => \A i \in owed[s] : g[i] = "gone"
     /\ stop[s] = "idle" => waiter[s] = "none"
     /\ waiter[s] = "woken" => \E i \in Starts : g[i] = "gone"
AcceptedAnswered == \A k \in DOMAIN accepted : call[accepted[k]] = "nil"

\* The inductive invariant: every reachable state satisfies it and every step keeps it.
IInv == /\ TypeOK /\ SingleRunner /\ DrainedBeforeLeaving /\ StopJoinsOwed
        /\ OneStartNeverCrashes /\ AcceptedIsHeld
        /\ WgIsSpawned /\ LeavingIsCancelled /\ SnapshotsInRange /\ WaitersSettled
        /\ AcceptedAnswered

\* The actor is a bounded FIFO with one handler at a time.
Busy == \E i \in Starts : g[i] \in Handling
M == INSTANCE Mailbox WITH queue <- inbox, delivered <- taken, busy <- Busy
ImplementsMailbox == M!MSpec

\* While nobody stops the actor, a message Send accepted is received, whatever the
\* handlers of the messages before it return or panic with.
AcceptedIsHandled ==
  \A m \in Msgs : call[m] = "nil" ~> \/ \E k \in DOMAIN taken : taken[k] = m
                                     \/ cancelled

\* A Stop without a deadline returns once handlers return: no step of run leaves
\* the wait group short of a Done.
StopEventuallyReturns ==
  \A s \in Stops : stop[s] = "waiting" ~> stop[s] \in {"ok", "timeout"} \/ crashed
==============================================================================
