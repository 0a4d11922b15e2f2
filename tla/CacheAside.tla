------------------------------ MODULE CacheAside ------------------------------
(***************************************************************************)
(* The read path that three methods share: Service.GetGame and              *)
(* Service.GetLatestVersion (internal/game/service.go) and Service.GetUser  *)
(* (internal/user/service.go).  A reader asks Redis, then the database, then *)
(* writes its answer to Redis with a time to live; every Redis error counts *)
(* as a miss, and a missing row is not cached.  Nothing invalidates a copy: *)
(* invalidateGameCache has no caller.                                       *)
(***************************************************************************)
CONSTANTS Keys,     \* what is looked up
          Readers,  \* handlers that may be under way at once
          NoRow,    \* the database has nothing for the key
          NoCopy    \* Redis has nothing for the key

VARIABLES row,   \* what the database answers for a key
          copy,  \* what Redis answers for a key
          fill   \* per reader: waiting for the database, or about to write to Redis

Resting == [step |-> "rest"]
AtQuery(k) == [step |-> "query", key |-> k]
AtStore(k, v) == [step |-> "store", key |-> k, value |-> v]

CacheInit == copy = [k \in Keys |-> NoCopy] /\ fill = [r \in Readers |-> Resting]

\* A hit that is written again, to extend its time to live.
MissOrSlide(r, k) ==
  /\ fill[r] = Resting
  /\ fill' = [fill EXCEPT ![r] = IF copy[k] = NoCopy THEN AtQuery(k) ELSE AtStore(k, copy[k])]
  /\ UNCHANGED copy

\* A hit answers at once and changes nothing; a miss goes to the database.
Miss(r, k) ==
  /\ fill[r] = Resting /\ copy[k] = NoCopy
  /\ fill' = [fill EXCEPT ![r] = AtQuery(k)]
  /\ UNCHANGED copy

\* Redis does not answer, whether it has a copy or not.
Unreachable(r, k) ==
  /\ fill[r] = Resting
  /\ fill' = [fill EXCEPT ![r] = AtQuery(k)]
  /\ UNCHANGED copy

\* No row, and an error of the database, end the call with nothing cached.
Query(r) ==
  /\ fill[r].step = "query"
  /\ LET k == fill[r].key IN
       \/ fill' = [fill EXCEPT ![r] = Resting]
       \/ row[k] # NoRow /\ fill' = [fill EXCEPT ![r] = AtStore(k, row[k])]
  /\ UNCHANGED copy

Store(r) ==
  /\ fill[r].step = "store"
  /\ copy' = [copy EXCEPT ![fill[r].key] = fill[r].value]
  /\ fill' = [fill EXCEPT ![r] = Resting]

\* The error of Set is ignored.
StoreLost(r) ==
  /\ fill[r].step = "store"
  /\ fill' = [fill EXCEPT ![r] = Resting]
  /\ UNCHANGED copy

Expire(k) ==
  /\ copy[k] # NoCopy
  /\ copy' = [copy EXCEPT ![k] = NoCopy]
  /\ UNCHANGED fill
==============================================================================
