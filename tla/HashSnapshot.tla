---------------------------- MODULE HashSnapshot ----------------------------
(***************************************************************************)
(* The snapshots of native/adapters/hash_table/src/hash_snapshot.c and the *)
(* validator that judges each of them when it is taken.                    *)
(*                                                                         *)
(* A snapshot is one arena: its header, a record per bucket, a record per  *)
(* entry in the order of the buckets and chains, and the keys.  Here it is *)
(* a copy of the header and of the chains; the index of an entry record is *)
(* its position, a bucket and a place in the chain, and the order of the   *)
(* records is the order of the positions.  The offsets into the arena and  *)
(* their overflow checks are left out.                                     *)
(***************************************************************************)
EXTENDS TableShape, FiniteSets

\* The copy that hti_snapshot_capture_internal makes of a table.
SnapshotOf(B, sz, c, threshold, rev) ==
    [chains |-> B, reported_size |-> sz, capacity |-> c, resize_threshold |-> threshold,
     revision |-> rev]

Positions(B) == UNION {{b} \X DOMAIN B[b] : b \in DOMAIN B}

EntryCount(s) == Cardinality(Positions(s.chains))

At(s, p) == s.chains[p[1]][p[2]]

\* The records before an entry's own, which the inner loop compares it with.
Earlier(s, p) == {q \in Positions(s.chains) : q[1] < p[1] \/ (q[1] = p[1] /\ q[2] < p[2])}

\* What the header violates.
HeaderViolations(s) ==
    {code \in {"SIZE_MISMATCH", "RESIZE_THRESHOLD", "LOAD_EXCEEDED"} :
        CASE code = "SIZE_MISMATCH"    -> s.reported_size # EntryCount(s)
          [] code = "RESIZE_THRESHOLD" -> s.resize_threshold # ThresholdFor(s.capacity)
          [] code = "LOAD_EXCEEDED"    -> s.reported_size > s.resize_threshold}

\* Mutant: the hash is compared with the hash that is stored, not recomputed.
EntryViolationsTrustingHash(s, next_id, p) ==
    {code \in {"WRONG_BUCKET", "ZERO_ENTRY_ID", "NEXT_ENTRY_ID"} :
        CASE code = "WRONG_BUCKET"  -> p[1] # BucketIndex(At(s, p).hash, s.capacity)
          [] code = "ZERO_ENTRY_ID" -> At(s, p).entry_id = 0
          [] code = "NEXT_ENTRY_ID" -> At(s, p).entry_id >= next_id}

\* What the entry at p violates by itself: its hash is computed again from its key,
\* and its bucket from that hash.
EntryViolations(s, next_id, p) ==
    {code \in {"HASH_MISMATCH", "WRONG_BUCKET", "ZERO_ENTRY_ID", "NEXT_ENTRY_ID"} :
        CASE code = "HASH_MISMATCH" -> At(s, p).hash # Hash[At(s, p).key]
          [] code = "WRONG_BUCKET"  -> p[1] # BucketIndex(Hash[At(s, p).key], s.capacity)
          [] code = "ZERO_ENTRY_ID" -> At(s, p).entry_id = 0
          [] code = "NEXT_ENTRY_ID" -> At(s, p).entry_id >= next_id}

\* What the entries at p and q violate together.
PairViolations(s, p, q) ==
    {code \in {"DUPLICATE_ENTRY_ID", "DUPLICATE_KEY"} :
        CASE code = "DUPLICATE_ENTRY_ID" -> At(s, p).entry_id = At(s, q).entry_id
          [] code = "DUPLICATE_KEY"      -> /\ At(s, p).hash = At(s, q).hash
                                            /\ At(s, p).key = At(s, q).key}

\* What the loops over the records find.
RecordViolations(s, next_id) ==
    UNION {EntryViolations(s, next_id, p) : p \in Positions(s.chains)}

RepeatedRecords(s) ==
    UNION {UNION {PairViolations(s, p, q) : q \in Earlier(s, p)} : p \in Positions(s.chains)}

\* What the validator records, by the kind of invariant.
Violations(s, next_id) ==
    HeaderViolations(s) \cup RecordViolations(s, next_id) \cup RepeatedRecords(s)

\* What it should be: a table is sound when its counters tell the truth about its
\* chains and every entry is where a search for its key looks.
Sound(s, next_id) ==
    /\ s.reported_size = Cardinality(Linked(s.chains))
    /\ s.resize_threshold = ThresholdFor(s.capacity)
    /\ s.reported_size <= s.resize_threshold
    /\ Placed(s.chains, s.capacity)
    /\ Distinct(s.chains)
    /\ \A e \in Linked(s.chains) : e.hash = Hash[e.key] /\ e.entry_id \in 1..(next_id - 1)

=============================================================================
