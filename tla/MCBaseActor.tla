----------------------------- MODULE MCBaseActor -----------------------------
(* A small instance of BaseActor: two Start calls (a race, or a restart after *)
(* the Stop), a Stop and two messages over a channel of one.                  *)
EXTENDS BaseActor
==============================================================================
