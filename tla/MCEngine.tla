------------------------------- MODULE MCEngine -------------------------------
(* Three timer ids for a limit of two, so that entries are lost, cleared and     *)
(* refused, and two timeout goroutines that may come late.                       *)
EXTENDS Engine
==============================================================================
