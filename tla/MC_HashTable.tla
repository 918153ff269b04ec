---------------------------- MODULE MC_HashTable ----------------------------
(* Small instances of HashTable.  Keys 1 and 2 have the same hash; key 3 shares *)
(* their chain until the table grows; key 4 is in the last bucket.              *)
EXTENDS HashTable

CONSTANTS k1, k2, k3, k4

SameHash == {k1, k2}

MCHash ==
    [k \in Keys |-> IF k \in SameHash THEN 1
                    ELSE IF k = k3 THEN 1 + MinCapacity
                    ELSE MinCapacity - 1]

\* Renaming the two keys of equal hash changes no behaviour.
Interchangeable == Permutations(SameHash)
=============================================================================
