-------------------------- MODULE BaseActor_proofs --------------------------
(***************************************************************************)
(* Theorems about BaseActor for any number of Start, Stop and Send calls   *)
(* and any channel capacity.  IInv is shown inductive action by action; the *)
(* safety properties are its conjuncts, and with it each step of the actor *)
(* is a step, or a stutter, of Mailbox.                                    *)
(***************************************************************************)
EXTENDS BaseActor, SequenceTheorems, TLAPS

\* Receiving moves the boundary between what was taken and what is queued and
\* leaves their concatenation alone.
LEMMA TakeHead ==
  ASSUME NEW S, NEW s \in Seq(S), NEW t \in Seq(S), t # <<>>
  PROVE  /\ Append(s, Head(t)) \in Seq(S)
         /\ Tail(t) \in Seq(S)
         /\ Len(Tail(t)) = Len(t) - 1
         /\ Len(Append(s, Head(t))) = Len(s) + 1
         /\ Append(s, Head(t)) \o Tail(t) = s \o t
<1>1. /\ Head(t) \in S /\ Tail(t) \in Seq(S) /\ Len(Tail(t)) = Len(t) - 1
      /\ \A i \in 1 .. Len(Tail(t)) : Tail(t)[i] = t[i+1]
  BY HeadTailProperties
<1>2. t[1] = Head(t)
  OBVIOUS
<1>3. /\ Append(s, Head(t)) \in Seq(S) /\ Len(Append(s, Head(t))) = Len(s) + 1
      /\ \A i \in 1 .. Len(s) : Append(s, Head(t))[i] = s[i]
      /\ Append(s, Head(t))[Len(s) + 1] = Head(t)
  BY <1>1, AppendProperties
<1> DEFINE u == Append(s, Head(t))
           v == Tail(t)
<1>4. u \in Seq(S) /\ v \in Seq(S) /\ Len(u) = Len(s) + 1 /\ Len(v) = Len(t) - 1
  BY <1>1, <1>3
<1>5. /\ u \o v \in Seq(S) /\ Len(u \o v) = Len(u) + Len(v)
      /\ \A i \in 1 .. Len(u) + Len(v) :
           (u \o v)[i] = IF i <= Len(u) THEN u[i] ELSE v[i - Len(u)]
  BY <1>4, ConcatProperties
<1>6. /\ s \o t \in Seq(S) /\ Len(s \o t) = Len(s) + Len(t)
      /\ \A i \in 1 .. Len(s) + Len(t) : (s \o t)[i] = IF i <= Len(s) THEN s[i] ELSE t[i - Len(s)]
  BY ConcatProperties
<1>7. Len(s) \in Nat /\ Len(t) \in Nat /\ Len(t) # 0
  BY LenProperties, EmptySeq
<1>8. Len(u \o v) = Len(s \o t)
  BY <1>4, <1>5, <1>6, <1>7
<1>9. ASSUME NEW i \in 1 .. Len(u \o v)
      PROVE  (u \o v)[i] = (s \o t)[i]
  <2> HIDE DEF u, v
  <2>1. i \in 1 .. Len(u) + Len(v) /\ i \in 1 .. Len(s) + Len(t)
    BY <1>5, <1>6, <1>8
  <2>2. CASE i <= Len(s)
    BY <2>1, <2>2, <1>3, <1>4, <1>5, <1>6, <1>7 DEF u
  <2>3. CASE i = Len(s) + 1
    BY <2>1, <2>3, <1>2, <1>3, <1>4, <1>5, <1>6, <1>7 DEF u
  <2>4. CASE i > Len(s) + 1
    <3>1. i - Len(u) \in 1 .. Len(v) /\ (i - Len(u)) + 1 = i - Len(s)
      BY <2>1, <2>4, <1>4, <1>7
    <3>2. (u \o v)[i] = v[i - Len(u)]
      BY <2>1, <2>4, <1>4, <1>5, <1>7
    <3>3. v[i - Len(u)] = t[i - Len(s)]
      BY <3>1, <1>1 DEF v
    <3>4. (s \o t)[i] = t[i - Len(s)]
      BY <2>1, <2>4, <1>6, <1>7
    <3> QED
      BY <3>2, <3>3, <3>4
  <2> QED
    BY <2>1, <2>2, <2>3, <2>4, <1>7
<1>10. u \o v = s \o t
  <2> HIDE DEF u, v
  <2> QED
    BY <1>5, <1>6, <1>8, <1>9, SeqEqual
<1> QED
  BY <1>1, <1>3, <1>10

\* Enqueuing at the tail commutes with the concatenation.
LEMMA AppendAtTail ==
  ASSUME NEW S, NEW s \in Seq(S), NEW t \in Seq(S), NEW e \in S
  PROVE  Append(s \o t, e) = s \o Append(t, e)
<1>1. s \o t \in Seq(S) /\ <<e>> \in Seq(S)
  BY ConcatProperties
<1>2. Append(s \o t, e) = (s \o t) \o <<e>>
  BY <1>1, AppendIsConcat
<1>3. Append(t, e) = t \o <<e>>
  BY AppendIsConcat
<1> QED
  BY <1>1, <1>2, <1>3, ConcatAssociative

------------------------------------------------------------------------------
\* No Start has run: every conjunct holds of the freshly built actor.
LEMMA InitIInv == Init => IInv
<1> SUFFICES ASSUME Init PROVE IInv
  OBVIOUS
<1> USE DEF Init, Unstarted, Active, Handling, Exited
<1>1. TypeOK
  <2>1. <<>> \in Seq(Msgs) /\ Len(<<>>) = 0 /\ 0 <= InboxCap
    BY CapAssumption, EmptySeq
  <2>2. g \in [Starts -> Unstarted \union Active \union Exited]
    OBVIOUS
  <2> QED
    BY <2>1, <2>2 DEF TypeOK
<1>2. SingleRunner
  BY DEF SingleRunner
<1>3. AcceptedIsHeld
  BY EmptySeq, ConcatEmptySeq DEF AcceptedIsHeld
<1>4. DrainedBeforeLeaving /\ StopJoinsOwed /\ WgIsSpawned /\ LeavingIsCancelled
  BY DEF DrainedBeforeLeaving, StopJoinsOwed, WgIsSpawned, LeavingIsCancelled
<1>5. SnapshotsInRange /\ WaitersSettled /\ AcceptedAnswered
  BY EmptySeq DEF SnapshotsInRange, WaitersSettled, AcceptedAnswered
<1>6. OneStartNeverCrashes
  BY DEF OneStartNeverCrashes
<1> QED
  BY <1>1, <1>2, <1>3, <1>4, <1>5, <1>6 DEF IInv

\* Start and its goroutine's control steps, which touch neither the channel nor Stop.
LEMMA StartIInv ==
  ASSUME IInv, NEW i \in Starts, StartCall(i) \/ Spawn(i)
  PROVE  IInv'
<1> USE DEF Unstarted, Active, Handling, Exited, Moves, sendVars, stopVars, IInv
<1>1. TypeOK'
  BY DEF TypeOK, StartCall, Spawn
<1>2. SingleRunner'
  <2>1. SingleRunner /\ g \in [Starts -> Unstarted \union Active \union Exited]
    BY DEF TypeOK
  <2>2. CASE StartCall(i)
    BY ONLY <2>1, <2>2, i \in Starts
       DEF SingleRunner, StartCall, Moves, Unstarted, Active, Handling, Exited
  <2>3. CASE Spawn(i)
    BY ONLY <2>1, <2>3, i \in Starts
       DEF SingleRunner, Spawn, Moves, Unstarted, Active, Handling, Exited
  <2> QED
    BY <2>2, <2>3
<1>3. AcceptedIsHeld' /\ AcceptedAnswered'
  BY DEF AcceptedIsHeld, AcceptedAnswered, StartCall, Spawn
<1>4. DrainedBeforeLeaving'
  BY DEF TypeOK, DrainedBeforeLeaving, StartCall, Spawn
<1>5. WgIsSpawned' /\ LeavingIsCancelled'
  BY DEF TypeOK, WgIsSpawned, LeavingIsCancelled, StartCall, Spawn
<1>6. StopJoinsOwed' /\ SnapshotsInRange' /\ WaitersSettled'
  BY DEF TypeOK, StopJoinsOwed, SnapshotsInRange, WaitersSettled, StartCall, Spawn
<1>7. OneStartNeverCrashes'
  BY DEF OneStartNeverCrashes, StartCall, Spawn
<1> QED
  BY <1>1, <1>2, <1>3, <1>4, <1>5, <1>6, <1>7

\* Taking a message from the channel, in the loop or in the drain.
LEMMA ReceiveIInv ==
  ASSUME IInv, NEW i \in Starts, LoopReceive(i) \/ DrainReceive(i)
  PROVE  IInv'
<1> USE DEF Unstarted, Active, Handling, Exited, Moves, sendVars, stopVars, IInv
<1>1. /\ inbox \in Seq(Msgs) /\ taken \in Seq(Msgs) /\ inbox # <<>>
      /\ inbox' = Tail(inbox) /\ taken' = Append(taken, Head(inbox))
      /\ UNCHANGED <<running, cancelled, wg, processed, errors, sendVars, stopVars>>
  BY DEF TypeOK, LoopReceive, DrainReceive, Receive
<1>2. /\ taken' \in Seq(Msgs) /\ inbox' \in Seq(Msgs) /\ Len(inbox') = Len(inbox) - 1
      /\ Len(taken') = Len(taken) + 1 /\ taken' \o inbox' = taken \o inbox
  BY <1>1, TakeHead
<1>3. Len(inbox) \in Nat /\ Len(taken) \in Nat
  BY <1>1, LenProperties
<1>4. TypeOK'
  <2>1. g' \in [Starts -> Unstarted \union Active \union Exited]
    BY DEF TypeOK, LoopReceive, DrainReceive
  <2>2. Len(inbox') <= InboxCap
    BY <1>2, <1>3, CapAssumption DEF TypeOK
  <2> QED
    BY <1>1, <1>2, <2>1, <2>2 DEF TypeOK
<1>5. SingleRunner'
  BY <1>1 DEF TypeOK, SingleRunner, LoopReceive, DrainReceive
<1>6. AcceptedIsHeld' /\ AcceptedAnswered'
  BY <1>1, <1>2 DEF AcceptedIsHeld, AcceptedAnswered
<1>7. DrainedBeforeLeaving'
  BY <1>1, <1>2, <1>3 DEF TypeOK, DrainedBeforeLeaving, LoopReceive, DrainReceive
<1>8. WgIsSpawned' /\ LeavingIsCancelled'
  <2>1. CASE LoopReceive(i)
    BY <2>1, <1>1 DEF TypeOK, WgIsSpawned, LeavingIsCancelled, LoopReceive
  <2>2. CASE DrainReceive(i)
    BY <2>2, <1>1 DEF TypeOK, WgIsSpawned, LeavingIsCancelled, DrainReceive
  <2> QED
    BY <2>1, <2>2
<1>9. StopJoinsOwed' /\ SnapshotsInRange' /\ WaitersSettled'
  BY <1>1 DEF TypeOK, StopJoinsOwed, SnapshotsInRange, WaitersSettled, LoopReceive, DrainReceive
<1>10. OneStartNeverCrashes'
  BY <1>1 DEF OneStartNeverCrashes, LoopReceive, DrainReceive
<1> QED
  BY <1>4, <1>5, <1>6, <1>7, <1>8, <1>9, <1>10

\* The rest of run: the handler returns, the context is seen, the drain ends, the
\* two deferred calls.
LEMMA RunIInv ==
  ASSUME IInv, NEW i \in Starts,
         \/ LoopCancelled(i) \/ DrainEmpty(i) \/ Leave(i) \/ Join(i)
         \/ \E outcome \in Outcomes : Handled(i, outcome)
  PROVE  IInv'
<1> USE DEF Unstarted, Active, Handling, Exited, Moves, sendVars, stopVars, IInv
<1> DEFINE Step == \/ LoopCancelled(i) \/ DrainEmpty(i) \/ Leave(i) \/ Join(i)
                   \/ \E outcome \in Outcomes : Handled(i, outcome)
<1>0. UNCHANGED <<inbox, taken, accepted, call, cancelled, atCancel, owed, stop, crashed>>
  BY DEF LoopCancelled, DrainEmpty, Leave, Join, Handled
<1>1. TypeOK'
  <2>1. CASE \E outcome \in Outcomes : Handled(i, outcome)
    BY <2>1 DEF TypeOK, Handled, Outcomes
  <2>2. CASE Join(i)
    BY <2>2 DEF TypeOK, Join
  <2>3. CASE LoopCancelled(i)
    BY <2>3 DEF TypeOK, LoopCancelled
  <2>4. CASE DrainEmpty(i)
    BY <2>4 DEF TypeOK, DrainEmpty
  <2>5. CASE Leave(i)
    BY <2>5 DEF TypeOK, Leave
  <2> QED
    BY <2>1, <2>2, <2>3, <2>4, <2>5
<1>2. SingleRunner'
  <2>1. CASE Leave(i)
    BY <2>1 DEF TypeOK, SingleRunner, Leave
  <2>2. CASE Join(i)
    BY <2>2 DEF TypeOK, SingleRunner, Join
  <2>3. CASE LoopCancelled(i)
    BY <2>3 DEF TypeOK, SingleRunner, LoopCancelled
  <2>4. CASE DrainEmpty(i)
    BY <2>4 DEF TypeOK, SingleRunner, DrainEmpty
  <2>5. CASE \E outcome \in Outcomes : Handled(i, outcome)
    <3>1. /\ g[i] \in Active /\ running' = running
          /\ \E at \in Active : g' = [g EXCEPT ![i] = at]
      BY <2>5 DEF Handled
    <3> QED
      BY <3>1 DEF TypeOK, SingleRunner
  <2> QED
    BY <2>1, <2>2, <2>3, <2>4, <2>5
<1>3. AcceptedIsHeld' /\ AcceptedAnswered'
  BY <1>0 DEF AcceptedIsHeld, AcceptedAnswered
<1>4. DrainedBeforeLeaving'
  <2>1. CASE DrainEmpty(i)
    <3>1. accepted = taken
      BY <2>1, ConcatEmptySeq DEF DrainEmpty, AcceptedIsHeld, TypeOK
    <3> QED
      BY <1>0, <3>1 DEF DrainedBeforeLeaving, SnapshotsInRange
  <2>2. CASE Leave(i) \/ Join(i)
    BY <2>2, <1>0 DEF TypeOK, DrainedBeforeLeaving, Leave, Join
  <2>3. CASE LoopCancelled(i) \/ \E outcome \in Outcomes : Handled(i, outcome)
    BY <2>3, <1>0 DEF TypeOK, DrainedBeforeLeaving, LoopCancelled, Handled
  <2> QED
    BY <2>1, <2>2, <2>3
<1>5. WgIsSpawned'
  <2>1. CASE Join(i)
    BY <2>1 DEF TypeOK, WgIsSpawned, Join
  <2>2. CASE ~Join(i)
    BY <2>2 DEF TypeOK, WgIsSpawned, LoopCancelled, DrainEmpty, Leave, Handled
  <2> QED
    BY <2>1, <2>2
<1>6. LeavingIsCancelled'
  BY <1>0 DEF TypeOK, LeavingIsCancelled, LoopCancelled, DrainEmpty, Leave, Join, Handled
<1>7. SnapshotsInRange'
  BY <1>0 DEF TypeOK, SnapshotsInRange, LoopCancelled, DrainEmpty, Leave, Join, Handled
<1>8. StopJoinsOwed'
  BY <1>0 DEF TypeOK, StopJoinsOwed, LoopCancelled, DrainEmpty, Leave, Join, Handled
<1>9. WaitersSettled'
  <2>1. CASE Join(i)
    <3>1. ASSUME NEW s \in Stops, waiter'[s] \in {"woken", "done"}, NEW j \in owed[s]
          PROVE  g'[j] = "gone"
      <4>1. CASE waiter[s] \in {"woken", "done"}
        <5>1. g[j] = "gone"
          BY <4>1, <3>1 DEF WaitersSettled
        <5>2. j \in Starts
          BY <3>1 DEF TypeOK
        <5> QED
          BY <5>1, <5>2, <2>1 DEF Join, TypeOK
      <4>2. CASE waiter[s] \notin {"woken", "done"}
        BY <4>2, <2>1, <3>1 DEF Join, SnapshotsInRange, TypeOK
      <4> QED
        BY <4>1, <4>2
    <3> QED
      <4>1. ASSUME NEW s \in Stops, waiter'[s] = "woken" PROVE \E j \in Starts : g'[j] = "gone"
        BY <2>1, <4>1 DEF Join, TypeOK
      <4> QED
        BY <3>1, <4>1, <2>1, <1>0 DEF Join, WaitersSettled, TypeOK
  <2>2. CASE ~Join(i)
    BY <2>2, <1>0 DEF TypeOK, WaitersSettled, LoopCancelled, DrainEmpty, Leave, Handled
  <2> QED
    BY <2>1, <2>2
<1>10. OneStartNeverCrashes'
  BY <1>0 DEF OneStartNeverCrashes, LoopCancelled, DrainEmpty, Leave, Join, Handled
<1> QED
  BY <1>1, <1>2, <1>3, <1>4, <1>5, <1>6, <1>7, <1>8, <1>9, <1>10

\* Send.
LEMMA SendIInv ==
  ASSUME IInv, NEW m \in Msgs, SendStep(m)
  PROVE  IInv'
<1> USE DEF Unstarted, Active, Handling, Exited, sendVars, stopVars, actorVars, IInv
<1>1. CASE Enqueue(m)
  <2>1. /\ inbox' = Append(inbox, m) /\ accepted' = Append(accepted, m)
        /\ call' = [call EXCEPT ![m] = "nil"] /\ call[m] = "checked" /\ Len(inbox) < InboxCap
        /\ UNCHANGED <<running, cancelled, wg, g, processed, errors, taken, stopVars>>
    BY <1>1 DEF Enqueue
  <2>2. /\ inbox' \in Seq(Msgs) /\ Len(inbox') = Len(inbox) + 1
        /\ accepted' \in Seq(Msgs) /\ Len(accepted') = Len(accepted) + 1
        /\ \A k \in 1 .. Len(accepted) : accepted'[k] = accepted[k]
        /\ accepted'[Len(accepted) + 1] = m
    BY <2>1, AppendProperties DEF TypeOK
  <2>3. /\ Len(inbox) \in Nat /\ Len(accepted) \in Nat
        /\ DOMAIN accepted = 1 .. Len(accepted) /\ DOMAIN accepted' = 1 .. Len(accepted')
    BY <2>2, LenProperties DEF TypeOK
  <2>4. TypeOK'
    BY <2>1, <2>2, <2>3, CapAssumption DEF TypeOK
  <2>5. AcceptedIsHeld'
    <3>1. Append(taken \o inbox, m) = taken \o Append(inbox, m)
      <4>1. taken \in Seq(Msgs) /\ inbox \in Seq(Msgs)
        BY DEF TypeOK
      <4>2. \A s, t \in Seq(Msgs) : \A e \in Msgs : Append(s \o t, e) = s \o Append(t, e)
        BY AppendAtTail
      <4> QED
        BY <4>1, <4>2, Zenon
    <3> QED
      BY <2>1, <3>1 DEF AcceptedIsHeld
  <2>6. AcceptedAnswered'
    BY <2>1, <2>2, <2>3 DEF AcceptedAnswered, TypeOK
  <2>7. SnapshotsInRange'
    BY <2>1, <2>2, <2>3 DEF SnapshotsInRange, TypeOK
  <2>8. SingleRunner' /\ WgIsSpawned' /\ LeavingIsCancelled'
    BY <2>1 DEF SingleRunner, WgIsSpawned, LeavingIsCancelled
  <2>9. DrainedBeforeLeaving' /\ StopJoinsOwed' /\ WaitersSettled' /\ OneStartNeverCrashes'
    BY <2>1 DEF DrainedBeforeLeaving, StopJoinsOwed, WaitersSettled, OneStartNeverCrashes
  <2> QED
    BY <2>4, <2>5, <2>6, <2>7, <2>8, <2>9
<1>2. CASE SendCheck(m) \/ EnqueueFull(m)
  <2>1. TypeOK'
    BY <1>2 DEF TypeOK, SendCheck, EnqueueFull
  <2>2. UNCHANGED <<actorVars, accepted, stopVars>>
    BY <1>2 DEF SendCheck, EnqueueFull
  <2>3. \A n \in Msgs : call[n] = "nil" => call'[n] = "nil"
    BY <1>2 DEF TypeOK, SendCheck, EnqueueFull
  <2>4. \A k \in DOMAIN accepted : accepted[k] \in Msgs
    BY LenProperties DEF TypeOK
  <2>5. AcceptedAnswered'
    BY <2>2, <2>3, <2>4 DEF AcceptedAnswered
  <2> QED
    BY <2>1, <2>2, <2>5 DEF SingleRunner, AcceptedIsHeld, DrainedBeforeLeaving, StopJoinsOwed,
                      WgIsSpawned, LeavingIsCancelled, SnapshotsInRange, WaitersSettled,
                      OneStartNeverCrashes
<1> QED
  BY <1>1, <1>2 DEF SendStep

\* Stop and the goroutine in which it waits.
LEMMA StopIInv ==
  ASSUME IInv, NEW s \in Stops, StopCall(s) \/ StopStep(s) \/ StopTimesOut(s)
  PROVE  IInv'
<1> USE DEF Unstarted, Active, Handling, Exited, sendVars, stopVars, actorVars, IInv
<1> USE DEF StopStep, Wait, Resume, StopReturns, StopTimesOut
<1>1. UNCHANGED <<running, wg, inbox, g, processed, errors, taken, sendVars>>
  BY DEF StopCall
<1>2. Len(accepted) \in Nat /\ Len(taken) \in Nat
  BY LenProperties DEF TypeOK
<1>3. TypeOK'
  BY <1>1, <1>2 DEF TypeOK, StopCall
<1>4. SingleRunner' /\ AcceptedIsHeld' /\ WgIsSpawned' /\ AcceptedAnswered'
  BY <1>1 DEF SingleRunner, AcceptedIsHeld, WgIsSpawned, AcceptedAnswered
<1>5. LeavingIsCancelled'
  BY <1>1 DEF LeavingIsCancelled, StopCall
<1>6. DrainedBeforeLeaving'
  BY <1>1 DEF DrainedBeforeLeaving, LeavingIsCancelled, StopCall
<1>7. SnapshotsInRange'
  BY <1>1, <1>2 DEF TypeOK, SnapshotsInRange, StopCall
<1>8. WaitersSettled'
  <2>1. CASE StopCall(s)
    BY <2>1, <1>1 DEF TypeOK, WaitersSettled, StopCall
  <2>2. CASE Wait(s)
    BY <2>2, <1>1 DEF TypeOK, WaitersSettled, SnapshotsInRange
  <2>3. CASE Resume(s)
    BY <2>3, <1>1 DEF TypeOK, WaitersSettled
  <2>4. CASE StopReturns(s) \/ StopTimesOut(s)
    BY <2>4, <1>1 DEF TypeOK, WaitersSettled
  <2> QED
    BY <2>1, <2>2, <2>3, <2>4
<1>9. StopJoinsOwed'
  BY ONLY <1>8 DEF StopJoinsOwed, WaitersSettled
<1>10. OneStartNeverCrashes'
  <2>1. CASE Resume(s) /\ wg # {}
    <3>1. PICK i \in Starts : i \in wg
      BY <2>1 DEF TypeOK
    <3>2. PICK j \in Starts : g[j] = "gone"
      BY <2>1 DEF WaitersSettled
    <3>3. i # j /\ g[i] \notin Unstarted
      BY <3>1, <3>2 DEF WgIsSpawned
    <3> QED
      BY <3>2, <3>3, <1>1 DEF OneStartNeverCrashes
  <2>2. CASE ~(Resume(s) /\ wg # {})
    <3>1. crashed' => crashed
      BY <2>2 DEF StopCall
    <3> QED
      BY <3>1, <1>1 DEF OneStartNeverCrashes
  <2> QED
    BY <2>1, <2>2
<1> QED
  BY <1>3, <1>4, <1>5, <1>6, <1>7, <1>8, <1>9, <1>10

\* Every step, or a stutter, keeps the inductive invariant.
LEMMA NextIInv == IInv /\ [Next]_vars => IInv'
<1> SUFFICES ASSUME IInv, [Next]_vars PROVE IInv'
  OBVIOUS
<1>1. ASSUME NEW i \in Starts, StartCall(i) \/ Spawn(i) \/ RunStep(i) PROVE IInv'
  BY <1>1, StartIInv, ReceiveIInv, RunIInv DEF RunStep
<1>2. ASSUME NEW m \in Msgs, SendStep(m) PROVE IInv'
  BY <1>2, SendIInv
<1>3. ASSUME NEW s \in Stops, StopCall(s) \/ StopStep(s) \/ StopTimesOut(s) PROVE IInv'
  BY <1>3, StopIInv
<1>4. CASE UNCHANGED vars
  BY <1>4 DEF vars, actorVars, sendVars, stopVars, IInv, TypeOK, SingleRunner, AcceptedIsHeld,
     DrainedBeforeLeaving, StopJoinsOwed, WgIsSpawned, LeavingIsCancelled,
     SnapshotsInRange, WaitersSettled, AcceptedAnswered, OneStartNeverCrashes
<1> QED
  BY <1>1, <1>2, <1>3, <1>4 DEF Next

\* The inductive invariant holds in every reachable state of the actor.
THEOREM Invariance == Spec => []IInv
  BY InitIInv, NextIInv, PTL DEF Spec

\* Every variable keeps its type; the channel never exceeds its capacity.
THEOREM TypeCorrect == Spec => []TypeOK
<1>1. IInv => TypeOK
  BY DEF IInv
<1> QED
  BY <1>1, Invariance, PTL

\* One goroutine at a time runs the loop or a handler (actor.go:21-23, 57-83).
THEOREM OneRunner == Spec => []SingleRunner
<1>1. IInv => SingleRunner
  BY DEF IInv
<1> QED
  BY <1>1, Invariance, PTL

\* The drain reaches every message accepted before Stop (actor.go:78-80, 110-122).
THEOREM DrainComplete == Spec => []DrainedBeforeLeaving
<1>1. IInv => DrainedBeforeLeaving
  BY DEF IInv
<1> QED
  BY <1>1, Invariance, PTL

\* A Stop that answers nil outlived the goroutines it had to wait for (actor.go:138-152).
THEOREM StopJoins == Spec => []StopJoinsOwed
<1>1. IInv => StopJoinsOwed
  BY DEF IInv
<1> QED
  BY <1>1, Invariance, PTL

\* Without a second Start past its swap no Wait finds its group reused (actor.go:57-66,
\* 138-152): the panic nothing recovers takes a restart or a race of two Starts.
THEOREM OneStartSafe == Spec => []OneStartNeverCrashes
<1>1. IInv => OneStartNeverCrashes
  BY DEF IInv
<1> QED
  BY <1>1, Invariance, PTL
------------------------------------------------------------------------------
\* Refinement.  A message not answered yet is in neither half of the mailbox.
LEMMA CheckedIsFresh ==
  ASSUME IInv, NEW m \in Msgs, call[m] = "checked"
  PROVE  M!Fresh(m)
<1>1. /\ taken \in Seq(Msgs) /\ inbox \in Seq(Msgs) /\ accepted = taken \o inbox
      /\ \A k \in DOMAIN accepted : call[accepted[k]] = "nil"
  BY DEF IInv, TypeOK, AcceptedIsHeld, AcceptedAnswered
<1>2. /\ Len(accepted) = Len(taken) + Len(inbox) /\ accepted \in Seq(Msgs)
      /\ \A k \in 1 .. Len(taken) + Len(inbox) :
           accepted[k] = IF k <= Len(taken) THEN taken[k] ELSE inbox[k - Len(taken)]
  BY <1>1, ConcatProperties
<1>3. /\ Len(taken) \in Nat /\ Len(inbox) \in Nat /\ DOMAIN accepted = 1 .. Len(accepted)
      /\ DOMAIN taken = 1 .. Len(taken) /\ DOMAIN inbox = 1 .. Len(inbox)
  BY <1>1, <1>2, LenProperties
<1>4. ASSUME NEW k \in DOMAIN taken PROVE taken[k] # m
  <2>1. k \in DOMAIN accepted /\ accepted[k] = taken[k]
    BY <1>2, <1>3, <1>4
  <2> QED
    BY <2>1, <1>1
<1>5. ASSUME NEW k \in DOMAIN inbox PROVE inbox[k] # m
  <2>1. /\ Len(taken) + k \in DOMAIN accepted /\ ~(Len(taken) + k <= Len(taken))
        /\ (Len(taken) + k) - Len(taken) = k
    BY <1>2, <1>3, <1>5
  <2>2. accepted[Len(taken) + k] = inbox[k]
    BY <2>1, <1>2, <1>3
  <2> QED
    BY <2>1, <2>2, <1>1
<1> QED
  BY <1>4, <1>5 DEF M!Fresh

\* A step that moves goroutine i leaves every other goroutine out of the handler.
LEMMA OthersIdle ==
  ASSUME IInv, NEW i \in Starts, g[i] \in Active, NEW at, g' = [g EXCEPT ![i] = at]
  PROVE  /\ Busy <=> g[i] \in Handling
         /\ Busy' <=> at \in Handling
<1>1. g \in [Starts -> Unstarted \union Active \union Exited]
  BY DEF IInv, TypeOK
<1>2. \A j \in Starts : j # i => g[j] \notin Handling
  BY DEF IInv, SingleRunner, Active
<1> QED
  BY <1>1, <1>2 DEF Busy

\* Every step of the actor is a step of the mailbox or leaves the mailbox alone.
LEMMA StepSimulation == IInv /\ [Next]_vars => [M!MNext]_(M!mvars)
<1> SUFFICES ASSUME IInv, [Next]_vars PROVE [M!MNext]_(M!mvars)
  OBVIOUS
<1> USE DEF Moves, sendVars, stopVars, actorVars
<1>1. ASSUME NEW i \in Starts, StartCall(i) \/ Spawn(i)
      PROVE  UNCHANGED M!mvars
  <2>1. UNCHANGED <<inbox, taken>>
    BY <1>1 DEF StartCall, Spawn
  <2>2. \A j \in Starts : g'[j] \in Handling <=> g[j] \in Handling
    BY <1>1 DEF StartCall, Spawn, Handling, IInv, TypeOK
  <2> QED
    BY <2>1, <2>2 DEF M!mvars, Busy
<1>2. ASSUME NEW i \in Starts, LoopReceive(i) \/ DrainReceive(i)
      PROVE  M!Deliver
  <2>1. g[i] \in Active \ Handling /\ \E at \in Handling : g' = [g EXCEPT ![i] = at]
    BY <1>2 DEF LoopReceive, DrainReceive, Active, Handling
  <2>2. ~Busy /\ Busy'
    BY <2>1, OthersIdle
  <2>3. inbox # <<>> /\ inbox' = Tail(inbox) /\ taken' = Append(taken, Head(inbox))
    BY <1>2 DEF LoopReceive, DrainReceive, Receive
  <2> QED
    BY <2>2, <2>3 DEF M!Deliver
<1>3. ASSUME NEW i \in Starts, NEW outcome \in Outcomes, Handled(i, outcome)
      PROVE  M!Release
  <2>1. g[i] \in Handling /\ \E at \in Active \ Handling : g' = [g EXCEPT ![i] = at]
    BY <1>3 DEF Handled, Active, Handling
  <2>2. Busy /\ ~Busy'
    BY <2>1, OthersIdle DEF Active
  <2>3. UNCHANGED <<inbox, taken>>
    BY <1>3 DEF Handled
  <2> QED
    BY <2>2, <2>3 DEF M!Release
<1>4. ASSUME NEW i \in Starts, LoopCancelled(i) \/ DrainEmpty(i) \/ Leave(i) \/ Join(i)
      PROVE  UNCHANGED M!mvars
  <2>1. UNCHANGED <<inbox, taken>>
    BY <1>4 DEF LoopCancelled, DrainEmpty, Leave, Join
  <2>2. \A j \in Starts : g'[j] \in Handling <=> g[j] \in Handling
    BY <1>4 DEF LoopCancelled, DrainEmpty, Leave, Join, Handling, IInv, TypeOK
  <2> QED
    BY <2>1, <2>2 DEF M!mvars, Busy
<1>5. ASSUME NEW m \in Msgs, Enqueue(m) PROVE M!Accept(m)
  <2>1. M!Fresh(m)
    BY <1>5, CheckedIsFresh DEF Enqueue
  <2>2. /\ Len(inbox) < InboxCap /\ inbox' = Append(inbox, m)
        /\ taken' = taken /\ g' = g
    BY <1>5 DEF Enqueue
  <2> QED
    BY <2>1, <2>2 DEF M!Accept, Busy
<1>6. ASSUME NEW m \in Msgs, SendCheck(m) \/ EnqueueFull(m) PROVE UNCHANGED M!mvars
  BY <1>6 DEF SendCheck, EnqueueFull, M!mvars, Busy
<1>7. ASSUME NEW s \in Stops, StopCall(s) \/ StopStep(s) \/ StopTimesOut(s)
      PROVE  UNCHANGED M!mvars
  BY <1>7 DEF StopCall, StopStep, Wait, Resume, StopReturns, StopTimesOut, M!mvars, Busy
<1>8. CASE UNCHANGED vars
  BY <1>8 DEF vars, M!mvars, Busy
<1> QED
  BY <1>1, <1>2, <1>3, <1>4, <1>5, <1>6, <1>7, <1>8 DEF Next, RunStep, SendStep, M!MNext

\* The actor of actor.go implements the bounded FIFO mailbox with one handler at a time.
THEOREM Refinement == Spec => ImplementsMailbox
<1>1. Init => M!MInit
  BY DEF Init, M!MInit, Busy, Handling
<1> QED
  BY <1>1, Invariance, StepSimulation, PTL DEF Spec, ImplementsMailbox, M!MSpec

------------------------------------------------------------------------------
\* What the liveness properties rest on.

\* Who waits has somebody at work to end the wait: a parked Wait a goroutine that has still
\* to call Done, and, until the first Stop, a message in the channel a goroutine that is
\* about to enter the loop, is in it, or handles the message before.
NobodyStranded ==
  /\ \A s \in Stops : waiter[s] = "parked" =>
        \E i \in Starts : g[i] \in (Active \ {"won"}) \union {"joining"}
  /\ inbox # <<>> /\ ~cancelled => \E i \in Starts : g[i] \in {"won", "loop", "handle"}

\* A Send past its test found a runner, who leaves only once cancelled; the last Done wakes
\* everybody parked.
RunnerAhead == /\ \A m \in Msgs : call[m] = "checked" => running \/ cancelled
               /\ inbox # <<>> => running \/ cancelled
               /\ \A s \in Stops : waiter[s] = "parked" => wg # {}

LEMMA RunnerAheadStep == IInv /\ RunnerAhead /\ [Next]_vars => RunnerAhead'
<1> SUFFICES ASSUME IInv, RunnerAhead, [Next]_vars PROVE RunnerAhead'
  OBVIOUS
<1> USE DEF sendVars, stopVars, actorVars, Moves
<1>1. ASSUME NEW i \in Starts, StartCall(i) PROVE RunnerAhead'
  BY <1>1 DEF StartCall, RunnerAhead
<1>2. ASSUME NEW i \in Starts, Spawn(i) PROVE RunnerAhead'
  BY <1>2 DEF Spawn, RunnerAhead
<1>3. ASSUME NEW i \in Starts, LoopReceive(i) \/ DrainReceive(i) PROVE RunnerAhead'
  BY <1>3 DEF LoopReceive, DrainReceive, Receive, RunnerAhead
<1>4. ASSUME NEW i \in Starts, LoopCancelled(i) \/ DrainEmpty(i)
                               \/ \E outcome \in Outcomes : Handled(i, outcome)
      PROVE  RunnerAhead'
  BY <1>4 DEF LoopCancelled, DrainEmpty, Handled, RunnerAhead
<1>5. ASSUME NEW i \in Starts, Leave(i) PROVE RunnerAhead'
  <2>1. cancelled
    BY <1>5 DEF Leave, IInv, LeavingIsCancelled
  <2> QED
    BY <1>5, <2>1 DEF Leave, RunnerAhead
<1>6. ASSUME NEW i \in Starts, Join(i) PROVE RunnerAhead'
  <2>1. ASSUME NEW s \in Stops, waiter'[s] = "parked" PROVE wg' # {}
    BY <1>6, <2>1 DEF Join
  <2> QED
    BY <1>6, <2>1 DEF Join, RunnerAhead
<1>7. ASSUME NEW m \in Msgs, SendStep(m) PROVE RunnerAhead'
  <2>1. UNCHANGED <<running, cancelled, waiter, wg>>
    BY <1>7 DEF SendStep, SendCheck, Enqueue, EnqueueFull
  <2>2. inbox' # <<>> => inbox # <<>> \/ call[m] = "checked"
    BY <1>7 DEF SendStep, SendCheck, Enqueue, EnqueueFull
  <2>3. \A n \in Msgs : call'[n] = "checked" => call[n] = "checked" \/ running
    BY <1>7 DEF SendStep, SendCheck, Enqueue, EnqueueFull, IInv, TypeOK
  <2> QED
    BY <2>1, <2>2, <2>3 DEF RunnerAhead
<1>8. ASSUME NEW s \in Stops, StopCall(s) \/ StopStep(s) \/ StopTimesOut(s) PROVE RunnerAhead'
  <2>1. UNCHANGED <<running, inbox, call, wg>> /\ (cancelled => cancelled')
    BY <1>8 DEF StopCall, StopStep, Wait, Resume, StopReturns, StopTimesOut
  <2>2. \A t \in Stops : waiter'[t] = "parked" => waiter[t] = "parked" \/ wg # {}
    BY <1>8 DEF StopCall, StopStep, Wait, Resume, StopReturns, StopTimesOut, IInv, TypeOK
  <2> QED
    BY <2>1, <2>2 DEF RunnerAhead
<1>9. CASE UNCHANGED vars
  BY <1>9 DEF vars, RunnerAhead
<1> QED
  BY <1>1, <1>2, <1>3, <1>4, <1>5, <1>6, <1>7, <1>8, <1>9 DEF Next, RunStep

\* Nobody waits for a step that no goroutine is left to take (actor.go:57-83, 126-152): no
\* wakeup is lost and no message strands, however Start, Stop and Send interleave.
THEOREM NoneStranded == Spec => []NobodyStranded
<1>1. Init => RunnerAhead
  BY DEF Init, RunnerAhead
<1>2. IInv /\ RunnerAhead => NobodyStranded
  <2> SUFFICES ASSUME IInv, RunnerAhead PROVE NobodyStranded
    OBVIOUS
  <2>1. ASSUME NEW s \in Stops, waiter[s] = "parked"
        PROVE  \E i \in Starts : g[i] \in (Active \ {"won"}) \union {"joining"}
    <3>1. PICK i \in Starts : i \in wg
      BY <2>1 DEF RunnerAhead, IInv, TypeOK
    <3> QED
      BY <3>1 DEF IInv, WgIsSpawned
  <2>2. ASSUME inbox # <<>>, ~cancelled
        PROVE  \E i \in Starts : g[i] \in {"won", "loop", "handle"}
    <3>1. PICK i \in Starts : g[i] \in Active
      BY <2>2 DEF RunnerAhead, IInv, SingleRunner
    <3>2. g[i] \notin {"drain", "drainHandle", "leaving"}
      BY <2>2 DEF IInv, LeavingIsCancelled
    <3> QED
      BY <3>1, <3>2 DEF Active, Handling
  <2> QED
    BY <2>1, <2>2 DEF NobodyStranded
<1> QED
  BY <1>1, <1>2, Invariance, RunnerAheadStep, PTL DEF Spec
==============================================================================
