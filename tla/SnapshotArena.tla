---------------------------- MODULE SnapshotArena ----------------------------
(***************************************************************************)
(* hti_snapshot_capture_internal, the capture of a snapshot into its arena.*)
(* Its first pass checks each chain for a cycle and counts the entries and *)
(* the bytes of their keys, its second writes a record for each.  What the *)
(* arena then tells is what the accessors and hti_json_append_snapshot read*)
(* back from the records.                                                  *)
(*                                                                         *)
(* The chains are whatever the pointers make of them: a capture is made of *)
(* damaged tables too, and its first pass is what protects it.  Of an entry*)
(* there is its identity and the size of its key; HashSnapshot has what a  *)
(* snapshot shows, and what the validator says of it at the end.           *)
(***************************************************************************)
EXTENDS ArenaLayout, ChainCycle, Sequences, SequencesExt

CONSTANTS
    Capacity,   \* table->capacity: less than 4, or no power of two, is refused at once
    KeySize     \* the size of each entry's key

ASSUME ArenaAssumption ==
    /\ Capacity \in 4..SizeMax /\ \E e \in 0..Capacity : Capacity = 2 ^ e
    /\ KeySize \in [Nodes -> 0..SizeMax]

VARIABLES
    buckets,                    \* table->buckets
    pass,                       \* where the capture is, or how it ended
    bucket_index, entry,        \* where the pass is
    chain_index,
    entry_count, key_bytes,     \* what the first pass has counted
    entry_index, key_offset,    \* what the second has written
    bucket_records, entry_records

counted == <<entry_count, key_bytes>>
written == <<chain_index, entry_index, key_offset, bucket_records, entry_records>>
vars == <<cyclevars, buckets, pass, bucket_index, entry, counted, written>>

Buckets == 0..(Capacity - 1)

Init ==
    /\ next \in [Nodes -> Links] /\ buckets \in [Buckets -> Links]
    /\ head = buckets[0] /\ slow = head /\ fast = head /\ has_cycle = NULL
    /\ pass = "checking"
    /\ bucket_index = 0 /\ entry = NULL /\ chain_index = 0
    /\ entry_count = 0 /\ key_bytes = 0 /\ entry_index = 0 /\ key_offset = 0
    /\ bucket_records = <<>> /\ entry_records = <<>>

Returns(how) == pass' = how /\ UNCHANGED <<bucket_index, entry>>

-----------------------------------------------------------------------------
(* The first pass. *)

CheckChain ==
    /\ pass = "checking"
    /\ Advance \/ EndOfChain
    /\ UNCHANGED <<buckets, pass, bucket_index, entry, counted, written>>

IsChecked ==
    /\ pass = "checking" /\ has_cycle # NULL
    /\ IF has_cycle THEN Returns("CORRUPT_STRUCTURE")
       ELSE pass' = "counting" /\ entry' = buckets[bucket_index] /\ UNCHANGED bucket_index
    /\ UNCHANGED <<cyclevars, buckets, counted, written>>

Count ==
    /\ pass = "counting" /\ entry # NULL
    /\ IF CanAdd(entry_count, 1) /\ CanAdd(key_bytes, KeySize[entry])
       THEN /\ entry_count' = Plus(entry_count, 1)
            /\ key_bytes' = Plus(key_bytes, KeySize[entry])
            /\ entry' = next[entry] /\ UNCHANGED <<pass, bucket_index>>
       ELSE Returns("OVERFLOW") /\ UNCHANGED counted
    /\ UNCHANGED <<cyclevars, buckets, written>>

CountNextBucket ==
    /\ pass = "counting" /\ entry = NULL
    /\ bucket_index' = bucket_index + 1
    /\ IF bucket_index' < Capacity
       THEN pass' = "checking" /\ StartsAt(buckets[bucket_index']) /\ UNCHANGED next
       ELSE pass' = "allocating" /\ UNCHANGED cyclevars
    /\ UNCHANGED <<buckets, entry, counted, written>>

\* The layout is computed and the arena allocated, or not.
Allocate ==
    /\ pass = "allocating"
    /\ IF LayoutFits(Capacity, entry_count, key_bytes)
       THEN \/ pass' = "filling" /\ bucket_index' = 0 /\ entry' = buckets[0]
            \/ Returns("NO_MEMORY")
       ELSE Returns("OVERFLOW")
    /\ UNCHANGED <<cyclevars, buckets, counted, written>>

-----------------------------------------------------------------------------
(* The second pass. *)

\* The record of an entry, and the bytes of its key.
Fill ==
    /\ pass = "filling" /\ entry # NULL
    /\ entry_records' = Append(entry_records,
           [entry_id |-> entry, bucket_index |-> bucket_index, chain_index |-> chain_index,
            key_offset |-> key_offset, key_size |-> KeySize[entry]])
    /\ key_offset' = key_offset + KeySize[entry]
    /\ entry_index' = entry_index + 1 /\ chain_index' = chain_index + 1
    /\ entry' = next[entry]
    /\ UNCHANGED <<cyclevars, buckets, pass, bucket_index, counted, bucket_records>>

\* Mutant: the first entry of a bucket is taken after the walk over its chain.
RecordAfterWalk == [first_entry_index |-> entry_index, chain_length |-> chain_index]

\* The record of a bucket: its first entry, SIZE_MAX when it has none, and how many follow.
BucketRecord ==
    [first_entry_index |-> IF buckets[bucket_index] = NULL THEN SizeMax
                           ELSE entry_index - chain_index,
     chain_length |-> chain_index]

FillNextBucket ==
    /\ pass = "filling" /\ entry = NULL
    /\ bucket_records' = Append(bucket_records, BucketRecord)
    /\ IF bucket_index + 1 < Capacity
       THEN /\ bucket_index' = bucket_index + 1
            /\ entry' = buckets[bucket_index'] /\ chain_index' = 0
            /\ UNCHANGED pass
       ELSE Returns("OK") /\ UNCHANGED chain_index
    /\ UNCHANGED <<cyclevars, buckets, counted, entry_index, key_offset, entry_records>>

Next ==
    \/ CheckChain \/ IsChecked \/ Count \/ CountNextBucket
    \/ Allocate
    \/ Fill \/ FillNextBucket

\* The loops run on: no step of them waits for anything.
Spec == Init /\ [][Next]_vars /\ WF_vars(Next)

-----------------------------------------------------------------------------
(* Reading a snapshot back. *)

\* hti_snapshot_bucket and hti_snapshot_entry: what they find at an index, as a set.
BucketView(index) == IF index >= Capacity THEN {} ELSE {bucket_records[index + 1]}

EntryView(index) == IF index >= entry_count THEN {} ELSE {entry_records[index + 1]}

\* The entries that hti_json_append_snapshot writes for a bucket.
Listed(bucket) ==
    [i \in 1..bucket.chain_length |-> EntryView(Plus(bucket.first_entry_index, i - 1))]

-----------------------------------------------------------------------------
(* What a capture promises. *)

\* The entries of a bucket's chain, and over all buckets their number and their keys' bytes.
Chain(b) == Reached(buckets[b]) \ {NULL}

ChainLengths == [b \in Buckets |-> Cardinality(Chain(b))]

ChainBytes == [b \in Buckets |-> SumFunctionOnSet(KeySize, Chain(b))]

\* The size that the arena of the table would have if numbers had no limit.
TableSize == TrueSize(Capacity, SumFunction(ChainLengths), SumFunction(ChainBytes))

\* An arena is large enough and no larger than it may be: a capture reports an overflow
\* exactly when no size_t can hold the arena's size, and otherwise what it writes lies in
\* its region, records between the offsets and each key in the bytes that were counted for
\* keys, next to the key before it (hash_snapshot.c:239-303).
ArenaFitsTheTable ==
    /\ pass = "OVERFLOW" => TableSize > SizeMax
    /\ pass \in {"filling", "OK", "NO_MEMORY"} =>
          /\ TableSize <= SizeMax
          /\ RegionsAreSound(Capacity, entry_count, key_bytes)
          /\ EntriesOffset(Capacity) + Len(entry_records) * EntrySize
                <= KeysOffset(Capacity, entry_count)
          /\ \A i \in DOMAIN entry_records :
                /\ entry_records[i].key_offset =
                      IF i = 1 THEN 0
                      ELSE entry_records[i - 1].key_offset + entry_records[i - 1].key_size
                /\ KeysOffset(Capacity, entry_count) + entry_records[i].key_offset
                      + entry_records[i].key_size <= TotalSize(Capacity, entry_count, key_bytes)

\* What is read back is the table: the entries listed for a bucket are its chain from the
\* head to the end, and nothing of another bucket, at the places they have in it.
ReadsBackTheTable ==
    pass = "OK" =>
        \A b \in Buckets : \A bucket \in BucketView(b) :
            LET listed == Listed(bucket)
            IN /\ bucket.chain_length = 0 <=> buckets[b] = NULL
               /\ \A i \in DOMAIN listed : \E record \in listed[i] :
                     /\ record.bucket_index = b /\ record.chain_index = i - 1
                     /\ record.key_size = KeySize[record.entry_id]
                     /\ i = 1 => record.entry_id = buckets[b]
                     /\ IF i = Len(listed) THEN next[record.entry_id] = NULL
                        ELSE \A after \in listed[i + 1] : after.entry_id = next[record.entry_id]

\* A capture ends, on chains that loop too.
CaptureEnds == <>(pass \in {"OK", "NO_MEMORY", "OVERFLOW", "CORRUPT_STRUCTURE"})

=============================================================================
