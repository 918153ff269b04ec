----------------------------- MODULE ArenaLayout -----------------------------
(***************************************************************************)
(* The size_t arithmetic of hash_snapshot.c and the layout of a snapshot's *)
(* arena: the header, a record for each bucket, a record for each entry,   *)
(* and the bytes of the keys, one after the other.                         *)
(*                                                                         *)
(* A sum or a product wraps at SizeMax + 1 when nothing checks it.         *)
(***************************************************************************)
EXTENDS Integers

CONSTANTS
    SizeMax,         \* SIZE_MAX
    HeaderSize,      \* sizeof(hti_snapshot_t)
    BucketSize,      \* sizeof(hti_snapshot_bucket_record_t)
    EntrySize,       \* sizeof(hti_snapshot_entry_record_t)
    BucketAlign,     \* their alignments
    EntryAlign

\* An alignment divides the sizes of its type, and a power of two divides SIZE_MAX + 1.
ASSUME LayoutAssumption ==
    /\ {HeaderSize, BucketSize, EntrySize, BucketAlign, EntryAlign} \subseteq Nat \ {0}
    /\ SizeMax \in Nat
    /\ HeaderSize <= SizeMax
    /\ (SizeMax + 1) % BucketAlign = 0 /\ (SizeMax + 1) % EntryAlign = 0

Wrap(n) == n % (SizeMax + 1)

\* hti_size_add and hti_size_multiply: what they give, and whether they do.
Plus(left, right) == Wrap(left + right)

CanAdd(left, right) == left <= SizeMax - right

Times(left, right) == Wrap(left * right)

\* Mutant: a product is not checked.
CanMultiplyAnything(left, right) == TRUE

CanMultiply(left, right) == right # 0 => left <= SizeMax \div right

\* hti_align_up adds this.
Padding(value, alignment) == IF value % alignment = 0 THEN 0 ELSE alignment - (value % alignment)

AlignUp(value, alignment) == Plus(value, Padding(value, alignment))

CanAlignUp(value, alignment) == CanAdd(value, Padding(value, alignment))

-----------------------------------------------------------------------------
(* hti_snapshot_capture_internal: the regions for c buckets, n entries and k bytes of *)
(* keys.                                                                              *)

BucketsOffset == AlignUp(HeaderSize, BucketAlign)

BucketsEnd(c) == Plus(BucketsOffset, Times(c, BucketSize))

EntriesOffset(c) == AlignUp(BucketsEnd(c), EntryAlign)

KeysOffset(c, n) == Plus(EntriesOffset(c), Times(n, EntrySize))

TotalSize(c, n, k) == Plus(KeysOffset(c, n), k)

\* Every step of the computation is checked; the first that fails ends the capture.
LayoutFits(c, n, k) ==
    /\ CanMultiply(c, BucketSize)
    /\ CanMultiply(n, EntrySize)
    /\ CanAlignUp(HeaderSize, BucketAlign)
    /\ CanAdd(BucketsOffset, Times(c, BucketSize))
    /\ CanAlignUp(BucketsEnd(c), EntryAlign)
    /\ CanAdd(EntriesOffset(c), Times(n, EntrySize))
    /\ CanAdd(KeysOffset(c, n), k)

-----------------------------------------------------------------------------
(* What a layout has to be. *)

\* The regions follow each other without overlapping, aligned for what they hold, and the
\* arena's size is the end of the last one.
RegionsAreSound(c, n, k) ==
    /\ HeaderSize <= BucketsOffset /\ BucketsOffset % BucketAlign = 0
    /\ BucketsOffset + c * BucketSize <= EntriesOffset(c) /\ EntriesOffset(c) % EntryAlign = 0
    /\ EntriesOffset(c) + n * EntrySize = KeysOffset(c, n)
    /\ KeysOffset(c, n) + k = TotalSize(c, n, k)
    /\ TotalSize(c, n, k) <= SizeMax

\* The size that the arena would have if numbers had no limit.
Aligned(value, alignment) == value + Padding(value, alignment)

TrueSize(c, n, k) ==
    Aligned(Aligned(HeaderSize, BucketAlign) + c * BucketSize, EntryAlign) + n * EntrySize + k

=============================================================================
