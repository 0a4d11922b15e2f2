----------------------------- MODULE MCGameActor -----------------------------
(* One room with a capacity of two and three players who may want in: every  *)
(* sequence of messages, so every way to fill, empty, start and shut it down. *)
EXTENDS GameActor
==============================================================================
