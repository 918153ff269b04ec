----------------------------- MODULE TableShape -----------------------------
(***************************************************************************)
(* How a table of hash_table.c holds its entries: what the table, the      *)
(* inspector's snapshots and its validator speak of.                       *)
(*                                                                         *)
(* A bucket array is a function from bucket indices to chains; a chain is a*)
(* sequence of entries, its head first.  The bucket of an entry is         *)
(* hash & (capacity - 1) in the code and hash % capacity here: the two     *)
(* agree while a capacity is a power of two.                               *)
(***************************************************************************)
EXTENDS Naturals, Sequences, SequencesExt

CONSTANTS
    Keys,             \* the byte strings used as keys
    Values,           \* the int64 values
    Hash              \* the seeded hash of each key

ASSUME HashAssumption == Hash \in [Keys -> Nat]

Entry == [entry_id : Nat, hash : Nat, key : Keys, value : Values]

IsPowerOfTwo(n) == n > 0 /\ \A d \in 2..n : n % d = 0 => d % 2 = 0

ThresholdFor(c) == c - (c \div 4)

BucketIndex(hash, c) == hash % c

\* The entries that the chains of a bucket array hold.
Linked(B) == UNION {ToSet(B[b]) : b \in DOMAIN B}

\* Every entry is in the bucket that its hash selects for c buckets.
Placed(B, c) == \A b \in DOMAIN B : \A i \in DOMAIN B[b] : BucketIndex(B[b][i].hash, c) = b

\* No key and no id occurs at two positions.
Distinct(B) ==
    \A b, c \in DOMAIN B : \A i \in DOMAIN B[b], j \in DOMAIN B[c] :
        (B[b][i].key = B[c][j].key \/ B[b][i].entry_id = B[c][j].entry_id)
            => b = c /\ i = j

=============================================================================
