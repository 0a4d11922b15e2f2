------------------------------- MODULE Mailbox -------------------------------
(***************************************************************************)
(* What an actor promises to the rest of the program, with no goroutine,   *)
(* flag or wait group in sight: a bounded FIFO of messages from which one  *)
(* message at a time is taken and handled.  BaseActor (pkg/actor/actor.go) *)
(* is shown to implement this module.                                      *)
(***************************************************************************)
EXTENDS Naturals, Sequences

CONSTANTS Msgs,      \* messages, each offered to the mailbox at most once
          InboxCap   \* capacity of the mailbox

VARIABLES queue,     \* messages accepted and not taken yet
          delivered, \* messages taken, in the order they were taken
          busy       \* a message is being handled

mvars == <<queue, delivered, busy>>

MInit == queue = <<>> /\ delivered = <<>> /\ busy = FALSE

Fresh(m) == /\ \A k \in DOMAIN queue : queue[k] # m
            /\ \A k \in DOMAIN delivered : delivered[k] # m

Accept(m) == /\ Fresh(m)
             /\ Len(queue) < InboxCap
             /\ queue' = Append(queue, m)
             /\ UNCHANGED <<delivered, busy>>

Deliver == /\ ~busy
           /\ queue # <<>>
           /\ queue' = Tail(queue)
           /\ delivered' = Append(delivered, Head(queue))
           /\ busy' = TRUE

Release == busy /\ busy' = FALSE /\ UNCHANGED <<queue, delivered>>

MNext == (\E m \in Msgs : Accept(m)) \/ Deliver \/ Release

MSpec == MInit /\ [][MNext]_mvars
==============================================================================
