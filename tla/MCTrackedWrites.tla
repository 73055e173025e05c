--------------------------- MODULE MCTrackedWrites ---------------------------
(* Constants for the model-checking runs of TrackedWrites.                 *)
EXTENDS TrackedWrites, TLC

CONSTANTS k1, k2, k3, v1, v2

ByKey(kind, k, d)  == [kind |-> kind, keys |-> {k}, vals |-> Vals, data |-> d]
DeleteKeys(K)      == [kind |-> "deleteMany", keys |-> K, vals |-> Vals, data |-> None]
DeleteValue(v)     == [kind |-> "deleteMany", keys |-> Keys, vals |-> {v}, data |-> None]

(* Every kind of operation on a row by its key, and deleteMany over all.   *)
AllKinds ==
  {ByKey("create", k2, v1), ByKey("update", k1, v2), ByKey("update", k2, v1),
   ByKey("upsert", k2, v2), ByKey("delete", k2, None), DeleteKeys(Keys)}

(* deleteMany with a filter on a column other operations change.           *)
Filtered == {ByKey("update", k1, v2), ByKey("update", k2, v1), DeleteValue(v1)}

Symmetry == Permutations(Txs) \cup Permutations(Ops)

Creations == {ByKey("create", k2, v1)}

OneAbsent == k1 :> v1 @@ k2 :> None @@ k3 :> v1
TwoRows   == k1 :> v1 @@ k2 :> v2
=============================================================================
