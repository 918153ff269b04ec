-------------------------- MODULE MC_HashSnapshot --------------------------
(* The validator, over every damaged table of a small size: two buckets with    *)
(* chains of at most two entries, whose ids, hashes and keys may be wrong,      *)
(* misplaced or repeated, under counters that may be wrong too.                 *)
EXTENDS SnapshotValidator

CONSTANTS k1, k2

MCHash == [k \in Keys |-> IF k = k1 THEN 0 ELSE 1]

MCCapacity == 2

Entries == {[entry_id |-> id, hash |-> h, key |-> k, value |-> v] :
                id \in 0..NextId, h \in 0..1, k \in Keys, v \in Values}

Chains == UNION {[1..n -> Entries] : n \in 0..2}

MCSubjects == {SnapshotOf(B, sz, MCCapacity, threshold, 0) :
                  B \in {C \in [0..(MCCapacity - 1) -> Chains] : Len(C[0]) + Len(C[1]) <= 3},
                  sz \in 0..3, threshold \in {1, 2}}
=============================================================================
