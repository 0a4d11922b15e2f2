---------------------------- MODULE MCActorSystem ----------------------------
(* Two rooms that may want one id, one of them unregistered meanwhile, around a signal. *)
EXTENDS ActorSystem
==============================================================================
