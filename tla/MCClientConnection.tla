-------------------------- MODULE MCClientConnection --------------------------
(* A page, polite or not, with two sockets at a time and two attempts. *)
EXTENDS ClientConnection
==============================================================================
