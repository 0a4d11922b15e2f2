------------------------------- MODULE MCCatalog -------------------------------
(* MCCatalog.cfg: one game with two versions, an upload, a publish and a reader.   *)
(* MCPackages.cfg: two uploads at once of two packages, one with an entry whose    *)
(* path both versions share.  Nothing else goes on there, so a deleted game stops it. *)
EXTENDS Catalog, TLC
CONSTANTS g1, v1, v2, main, extra, k1, k2

TwoPackages == k1 :> {main, extra} @@ k2 :> {main}
OnePackage == k1 :> {main}
Shared == [x \in Games \X Versions \X Names |-> IF x[3] = extra THEN <<x[1], extra>> ELSE x]
SharedPaths == {Shared[x] : x \in DOMAIN Shared}
Symmetry == Permutations(Uploads) \union Permutations(Millis)
==============================================================================
