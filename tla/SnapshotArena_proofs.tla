-------------------------- MODULE SnapshotArena_proofs --------------------------
(***************************************************************************)
(* The capture of a snapshot, for every SIZE_MAX, every size and alignment *)
(* of the records, every table and every way in which its entries are      *)
(* linked.                                                                 *)
(*                                                                         *)
(* CycleInv: the fast pointer has walked from the head and the slow one is *)
(* half as far on the walk.  WayInv: the first pass leaves a way of places *)
(* through the table, which the second follows, so it writes no more than  *)
(* was counted.  CountInv: what has been counted and what is ahead is the  *)
(* table; the sums are folds, so what they add up to is proved by the      *)
(* smallest counterexample.  RecordsInv: what has been written tells of    *)
(* the buckets and entries that were passed.  TurnsInv: the check of a     *)
(* chain has made a number of turns without a meeting, which is never more *)
(* than the chain has entries; with CountInv it bounds the steps of a      *)
(* capture.                                                                *)
(***************************************************************************)
EXTENDS SnapshotArena, FiniteSetTheorems, WellFoundedInduction, TLAPS

-----------------------------------------------------------------------------
(* The layout of an arena. *)

\* A number that a size_t can hold is not changed.
LEMMA WrapKeeps ==
    ASSUME NEW n \in Nat, n <= SizeMax PROVE Wrap(n) = n
  BY LayoutAssumption DEF Wrap

\* The division in hti_size_multiply tells exactly whether the product fits.
LEMMA ProductIsChecked ==
    ASSUME NEW left \in Nat, NEW right \in Nat \ {0}
    PROVE  CanMultiply(left, right) <=> left * right <= SizeMax
<1> DEFINE q == SizeMax \div right
<1>1. q \in Nat /\ q * right <= SizeMax /\ SizeMax < (q + 1) * right
  BY LayoutAssumption
<1>2. left <= q <=> left * right <= SizeMax
  BY <1>1, LayoutAssumption
<1> QED
  BY <1>2 DEF CanMultiply

\* The padding leads to the next multiple of the alignment.
LEMMA PaddingAligns ==
    ASSUME NEW value \in Nat, NEW alignment \in Nat \ {0}
    PROVE  /\ Padding(value, alignment) \in Nat
           /\ Aligned(value, alignment) % alignment = 0
<1> DEFINE m == value % alignment
           q == value \div alignment
<1>1. m \in Nat /\ q \in Nat /\ m < alignment /\ value = q * alignment + m
  OBVIOUS
<1>2. CASE m = 0
  BY <1>1, <1>2 DEF Padding, Aligned
<1>3. CASE m # 0
  <2>1. Padding(value, alignment) = alignment - m
    BY <1>3 DEF Padding
  <2>2. Aligned(value, alignment) = (q + 1) * alignment
    BY <1>1, <2>1 DEF Aligned
  <2>3. ((q + 1) * alignment) % alignment = 0
    BY <1>1
  <2> QED
    BY <1>1, <2>1, <2>2, <2>3
<1> QED
  BY <1>2, <1>3

-----------------------------------------------------------------------------

\* The offsets without a limit of numbers.
TrueBuckets == Aligned(HeaderSize, BucketAlign)
TrueBucketsEnd(c) == TrueBuckets + c * BucketSize
TrueEntries(c) == Aligned(TrueBucketsEnd(c), EntryAlign)
TrueKeys(c, n) == TrueEntries(c) + n * EntrySize

\* They follow each other.
LEMMA TrueOffsets ==
    ASSUME NEW c \in Nat, NEW n \in Nat, NEW k \in Nat
    PROVE  /\ TrueBuckets \in Nat /\ HeaderSize <= TrueBuckets
           /\ TrueBuckets % BucketAlign = 0
           /\ c * BucketSize \in Nat /\ n * EntrySize \in Nat
           /\ TrueBucketsEnd(c) \in Nat
           /\ TrueEntries(c) \in Nat /\ TrueBucketsEnd(c) <= TrueEntries(c)
           /\ TrueEntries(c) % EntryAlign = 0
           /\ TrueKeys(c, n) \in Nat
           /\ TrueSize(c, n, k) = TrueKeys(c, n) + k
<1> USE LayoutAssumption
<1>1. Padding(HeaderSize, BucketAlign) \in Nat /\ TrueBuckets % BucketAlign = 0
  BY PaddingAligns DEF TrueBuckets
<1>2. TrueBuckets \in Nat /\ HeaderSize <= TrueBuckets
  BY <1>1 DEF TrueBuckets, Aligned
<1>3. c * BucketSize \in Nat /\ n * EntrySize \in Nat
  OBVIOUS
<1>4. TrueBucketsEnd(c) \in Nat
  BY <1>2, <1>3 DEF TrueBucketsEnd
<1>5. Padding(TrueBucketsEnd(c), EntryAlign) \in Nat /\ TrueEntries(c) % EntryAlign = 0
  BY <1>4, PaddingAligns DEF TrueEntries
<1>6. TrueEntries(c) \in Nat /\ TrueBucketsEnd(c) <= TrueEntries(c)
  BY <1>4, <1>5 DEF TrueEntries, Aligned
<1>7. TrueKeys(c, n) \in Nat
  BY <1>3, <1>6 DEF TrueKeys
<1>8. TrueSize(c, n, k) = TrueKeys(c, n) + k
  BY DEF TrueSize, TrueKeys, TrueEntries, TrueBucketsEnd, TrueBuckets
<1> QED
  BY <1>1, <1>2, <1>3, <1>4, <1>5, <1>6, <1>7, <1>8

\* A sum that was checked is the true one.
LEMMA CheckedSum ==
    ASSUME NEW left \in Nat, NEW right \in Nat
    PROVE  /\ CanAdd(left, right) <=> left + right <= SizeMax
           /\ CanAdd(left, right) => Plus(left, right) = left + right
<1>1. CanAdd(left, right) <=> left + right <= SizeMax
  BY LayoutAssumption DEF CanAdd
<1>2. left + right \in Nat
  OBVIOUS
<1> QED
  BY <1>1, <1>2, WrapKeeps DEF Plus

\* So is a product.
LEMMA CheckedProduct ==
    ASSUME NEW left \in Nat, NEW right \in Nat \ {0}, CanMultiply(left, right)
    PROVE  Times(left, right) = left * right
<1>1. left * right \in Nat /\ left * right <= SizeMax
  BY ProductIsChecked
<1> QED
  BY <1>1, WrapKeeps DEF Times

\* So is an alignment.
LEMMA CheckedAlignment ==
    ASSUME NEW value \in Nat, NEW alignment \in Nat \ {0}
    PROVE  /\ CanAlignUp(value, alignment) <=> Aligned(value, alignment) <= SizeMax
           /\ CanAlignUp(value, alignment) => AlignUp(value, alignment) = Aligned(value, alignment)
<1>1. Padding(value, alignment) \in Nat
  BY PaddingAligns
<1> QED
  BY <1>1, CheckedSum DEF CanAlignUp, AlignUp, Aligned

\* When every check passes, the offsets that are computed are the true ones.
LEMMA OffsetsAreTrue ==
    ASSUME NEW c \in Nat, NEW n \in Nat, NEW k \in Nat, LayoutFits(c, n, k)
    PROVE  /\ BucketsOffset = TrueBuckets
           /\ EntriesOffset(c) = TrueEntries(c)
           /\ KeysOffset(c, n) = TrueKeys(c, n)
           /\ TotalSize(c, n, k) = TrueSize(c, n, k)
           /\ TrueSize(c, n, k) <= SizeMax
<1> USE LayoutAssumption
<1>1. BucketsOffset = TrueBuckets
  BY CheckedAlignment DEF LayoutFits, BucketsOffset, TrueBuckets
<1>2. Times(c, BucketSize) = c * BucketSize /\ Times(n, EntrySize) = n * EntrySize
  BY CheckedProduct DEF LayoutFits
<1>3. BucketsEnd(c) = TrueBucketsEnd(c)
  <2>1. CanAdd(TrueBuckets, c * BucketSize)
    BY <1>1, <1>2 DEF LayoutFits
  <2>2. BucketsEnd(c) = Plus(TrueBuckets, c * BucketSize)
    BY <1>1, <1>2 DEF BucketsEnd
  <2> QED
    BY <2>1, <2>2, TrueOffsets, CheckedSum DEF TrueBucketsEnd
<1>4. EntriesOffset(c) = TrueEntries(c)
  <2>1. CanAlignUp(TrueBucketsEnd(c), EntryAlign)
    BY <1>3 DEF LayoutFits
  <2>2. EntriesOffset(c) = AlignUp(TrueBucketsEnd(c), EntryAlign)
    BY <1>3 DEF EntriesOffset
  <2> QED
    BY <2>1, <2>2, TrueOffsets, CheckedAlignment DEF TrueEntries
<1>5. KeysOffset(c, n) = TrueKeys(c, n)
  <2>1. CanAdd(TrueEntries(c), n * EntrySize)
    BY <1>2, <1>4 DEF LayoutFits
  <2>2. KeysOffset(c, n) = Plus(TrueEntries(c), n * EntrySize)
    BY <1>2, <1>4 DEF KeysOffset
  <2> QED
    BY <2>1, <2>2, TrueOffsets, CheckedSum DEF TrueKeys
<1>6. TotalSize(c, n, k) = TrueSize(c, n, k) /\ TrueSize(c, n, k) <= SizeMax
  <2>1. CanAdd(TrueKeys(c, n), k)
    BY <1>5 DEF LayoutFits
  <2>2. TotalSize(c, n, k) = Plus(TrueKeys(c, n), k)
    BY <1>5 DEF TotalSize
  <2>3. TrueKeys(c, n) \in Nat /\ TrueSize(c, n, k) = TrueKeys(c, n) + k
    BY TrueOffsets
  <2> HIDE LayoutAssumption
  <2> QED
    BY <2>1, <2>2, <2>3, CheckedSum
<1> QED
  BY <1>1, <1>4, <1>5, <1>6

-----------------------------------------------------------------------------
(* What the checks of a layout tell. *)

\* When the checks of hti_snapshot_capture_internal pass, the regions of the arena follow
\* each other, aligned and without overlapping, and no number has wrapped
\* (hash_snapshot.c:239-259).
THEOREM LayoutIsSound ==
    ASSUME NEW c \in Nat, NEW n \in Nat, NEW k \in Nat, LayoutFits(c, n, k)
    PROVE  RegionsAreSound(c, n, k)
  BY OffsetsAreTrue, TrueOffsets DEF RegionsAreSound, TrueBucketsEnd, TrueKeys

\* A capture is refused only if no size_t can hold the size of its arena.
THEOREM LayoutIsExact ==
    ASSUME NEW c \in Nat, NEW n \in Nat, NEW k \in Nat
    PROVE  LayoutFits(c, n, k) <=> TrueSize(c, n, k) <= SizeMax
<1>0. /\ TrueBuckets \in Nat /\ c * BucketSize \in Nat /\ n * EntrySize \in Nat
      /\ TrueBucketsEnd(c) \in Nat
      /\ TrueEntries(c) \in Nat /\ TrueBucketsEnd(c) <= TrueEntries(c)
      /\ TrueKeys(c, n) \in Nat
      /\ TrueSize(c, n, k) = TrueKeys(c, n) + k
  BY TrueOffsets
<1> USE LayoutAssumption
<1>1. LayoutFits(c, n, k) => TrueSize(c, n, k) <= SizeMax
  BY OffsetsAreTrue
<1>2. ASSUME TrueSize(c, n, k) <= SizeMax PROVE LayoutFits(c, n, k)
  <2>1. /\ TrueBuckets <= SizeMax /\ TrueBucketsEnd(c) <= SizeMax
        /\ TrueEntries(c) <= SizeMax /\ TrueKeys(c, n) <= SizeMax
        /\ c * BucketSize <= SizeMax /\ n * EntrySize <= SizeMax
    <3> DEFINE x == c * BucketSize
               y == n * EntrySize
    <3>1. TrueBucketsEnd(c) = TrueBuckets + x /\ TrueKeys(c, n) = TrueEntries(c) + y
      BY DEF TrueBucketsEnd, TrueKeys
    <3>2. x \in Nat /\ y \in Nat /\ TrueBuckets \in Nat /\ TrueBucketsEnd(c) \in Nat
      BY <1>0
    <3>3. /\ TrueEntries(c) \in Nat /\ TrueKeys(c, n) \in Nat
          /\ TrueBucketsEnd(c) <= TrueEntries(c) /\ TrueSize(c, n, k) = TrueKeys(c, n) + k
      BY <1>0
    <3>4. SizeMax \in Nat
      OBVIOUS
    <3> HIDE DEF x, y
    <3> QED
      BY <1>2, <3>1, <3>2, <3>3, <3>4 DEF x, y
  <2>2. CanMultiply(c, BucketSize) /\ CanMultiply(n, EntrySize)
    BY <2>1, ProductIsChecked
  <2>3. Times(c, BucketSize) = c * BucketSize /\ Times(n, EntrySize) = n * EntrySize
    BY <2>2, CheckedProduct
  <2>4. CanAlignUp(HeaderSize, BucketAlign) /\ BucketsOffset = TrueBuckets
    BY <2>1, CheckedAlignment DEF BucketsOffset, TrueBuckets
  <2>5. CanAdd(TrueBuckets, c * BucketSize) /\ Plus(TrueBuckets, c * BucketSize) = TrueBucketsEnd(c)
    BY <2>1, <1>0, CheckedSum DEF TrueBucketsEnd
  <2>6. BucketsEnd(c) = TrueBucketsEnd(c)
    BY <2>3, <2>4, <2>5 DEF BucketsEnd
  <2>7. CanAlignUp(TrueBucketsEnd(c), EntryAlign) /\ EntriesOffset(c) = TrueEntries(c)
    BY <2>1, <2>6, <1>0, CheckedAlignment DEF EntriesOffset, TrueEntries
  <2>8. CanAdd(TrueEntries(c), n * EntrySize) /\ Plus(TrueEntries(c), n * EntrySize) = TrueKeys(c, n)
    BY <2>1, <1>0, CheckedSum DEF TrueKeys
  <2>9. KeysOffset(c, n) = TrueKeys(c, n)
    BY <2>3, <2>7, <2>8 DEF KeysOffset
  <2>10. CanAdd(TrueKeys(c, n), k)
    <3>1. TrueKeys(c, n) \in Nat /\ TrueSize(c, n, k) = TrueKeys(c, n) + k
      BY <1>0
    <3> HIDE LayoutAssumption
    <3> QED
      BY <1>2, <3>1, CheckedSum
  <2> QED
    BY <2>2, <2>3, <2>4, <2>5, <2>6, <2>7, <2>8, <2>9, <2>10 DEF LayoutFits
<1> QED
  BY <1>1, <1>2

-----------------------------------------------------------------------------
(* The cycle check. *)

\* Pointers lead to entries, or nowhere.
Pointers ==
    /\ next \in [Nodes -> Links] /\ buckets \in [Buckets -> Links]
    /\ head \in Links /\ slow \in Links /\ fast \in Links

\* The walk of the fast pointer from the head: every step starts at an entry.
Walk(f, n) ==
    /\ f \in [0..n -> Links] /\ f[0] = head
    /\ \A i \in 0..(n - 1) : f[i] \in Nodes /\ f[i + 1] = next[f[i]]

\* The slow pointer is half as far on it as the fast one.
Halfway == \E k \in Nat : \E f : Walk(f, 2 * k) /\ slow = f[k] /\ fast = f[2 * k]

CycleInv ==
    /\ Pointers
    /\ Halfway /\ fast \in Reached(head)
    /\ has_cycle # NULL => has_cycle \in BOOLEAN
    /\ AnswerIsRight

\* What an entry leads to holds it, and what follows each entry that it holds.
LEMMA ReachedFacts ==
    ASSUME Pointers, NEW n \in Links
    PROVE  /\ Reached(n) \in SUBSET Links
           /\ n \in Reached(n)
           /\ Closed(Reached(n))
           /\ \A S \in SUBSET Links : n \in S /\ Closed(S) => Reached(n) \subseteq S
  BY DEF Reached, Closed, Pointers

\* One step further: the entry itself, and what its next entry leads to.
LEMMA ReachedStep ==
    ASSUME Pointers, NEW n \in Nodes
    PROVE  next[n] \in Links /\ Reached(n) = {n} \cup Reached(next[n])
<1>1. n \in Links /\ next[n] \in Links
  BY DEF Pointers, Links
<1>2. next[n] \in Reached(n)
  BY <1>1, ReachedFacts DEF Closed
<1>3. Reached(next[n]) \subseteq Reached(n)
  BY <1>1, <1>2, ReachedFacts
<1>4. Closed({n} \cup Reached(next[n])) /\ {n} \cup Reached(next[n]) \in SUBSET Links
  BY <1>1, ReachedFacts DEF Closed
<1>5. Reached(n) \subseteq {n} \cup Reached(next[n])
  BY <1>1, <1>4, ReachedFacts
<1> QED
  BY <1>1, <1>3, <1>5, ReachedFacts

\* The end leads to nothing else.
LEMMA ReachedEnd == ASSUME Pointers PROVE Reached(NULL) = {NULL}
<1>1. NULL \in Links /\ {NULL} \in SUBSET Links
  BY DEF Links
<1>2. Closed({NULL})
  BY NodesAssumption DEF Closed
<1> QED
  BY <1>1, <1>2, ReachedFacts

\* A walk can go on by two steps, which leave what was walked as it is.
LEMMA WalkLonger ==
    ASSUME Pointers, CanAdvance, NEW k \in Nat,
           NEW f, Walk(f, 2 * k), slow = f[k], fast = f[2 * k]
    PROVE  /\ next[slow] \in Links /\ next[fast] \in Nodes /\ next[next[fast]] \in Links
           /\ \E g : /\ Walk(g, 2 * (k + 1)) /\ next[slow] = g[k + 1]
                    /\ next[next[fast]] = g[2 * (k + 1)]
                    /\ \A i \in 0..(2 * k) : g[i] = f[i]
<1>1. fast \in Nodes /\ next[fast] \in Nodes /\ next[next[fast]] \in Links
  BY DEF Pointers, CanAdvance, Links
<1> DEFINE m == 2 * k
           g == [i \in 0..(m + 2) |->
                    IF i <= m THEN f[i]
                    ELSE IF i = m + 1 THEN next[fast] ELSE next[next[fast]]]
<1>2. m \in Nat /\ k <= m /\ 2 * (k + 1) = m + 2 /\ (k = m => k = 0)
  OBVIOUS
<1>3. f \in [0..m -> Links] /\ f[0] = head /\ f[k] = slow /\ f[m] = fast
      /\ \A i \in 0..(m - 1) : f[i] \in Nodes /\ f[i + 1] = next[f[i]]
  BY DEF Walk
<1>4. \A i \in 0..(2 * k) : g[i] = f[i]
  OBVIOUS
<1> HIDE DEF m
<1>5. g \in [0..(m + 2) -> Links] /\ g[0] = head
  BY <1>1, <1>2, <1>3 DEF Links
<1>6. \A i \in 0..(m + 1) : g[i] \in Nodes /\ g[i + 1] = next[g[i]]
  <2> TAKE i \in 0..(m + 1)
  <2>1. CASE i < m
    BY <1>2, <1>3, <2>1
  <2>2. CASE i = m
    BY <1>1, <1>2, <1>3, <2>2
  <2>3. CASE i = m + 1
    BY <1>1, <1>2, <1>3, <2>3
  <2> QED
    BY <1>2, <2>1, <2>2, <2>3
<1>7. g[k] = slow /\ g[k + 1] = next[slow] /\ g[m + 2] = next[next[fast]]
  BY <1>2, <1>3, <1>6
<1> HIDE DEF g
<1>8. (m + 2) - 1 = m + 1
  BY <1>2
<1>9. Walk(g, m + 2)
  BY <1>5, <1>6, <1>8 DEF Walk
<1>10. next[slow] \in Links
  BY <1>2, <1>5, <1>7
<1> QED
  BY <1>1, <1>2, <1>4, <1>7, <1>9, <1>10

LEMMA WalkGoesOn ==
    ASSUME Pointers, Halfway, CanAdvance
    PROVE  /\ next[slow] \in Links /\ next[fast] \in Nodes /\ next[next[fast]] \in Links
           /\ \E k \in Nat : k >= 1 /\ \E f :
                 Walk(f, 2 * k) /\ next[slow] = f[k] /\ next[next[fast]] = f[2 * k]
<1>1. PICK k \in Nat : \E f : Walk(f, 2 * k) /\ slow = f[k] /\ fast = f[2 * k]
  BY DEF Halfway
<1>2. k + 1 \in Nat /\ k + 1 >= 1
  OBVIOUS
<1> QED
  BY <1>1, <1>2, WalkLonger

\* Where the two pointers meet, the walk does not end.
LEMMA MeetingIsCycle ==
    ASSUME Pointers, NEW k \in Nat, k >= 1, NEW f, Walk(f, 2 * k), f[k] = f[2 * k]
    PROVE  NULL \notin Reached(head)
<1> DEFINE m == 2 * k
           S == {f[i] : i \in 0..m}
<1>1. m \in Nat /\ k \in 0..(m - 1) /\ m \in 0..m
  OBVIOUS
<1>2. f \in [0..m -> Links] /\ f[0] = head /\ f[k] = f[m]
      /\ \A i \in 0..(m - 1) : f[i] \in Nodes /\ f[i + 1] = next[f[i]]
  BY DEF Walk
<1> HIDE DEF m
<1>3. \A i \in 0..m : f[i] \in Nodes /\ next[f[i]] \in S
  <2> TAKE i \in 0..m
  <2>1. CASE i < m
    BY <1>1, <1>2, <2>1
  <2>2. CASE i = m
    BY <1>1, <1>2, <2>2
  <2> QED
    BY <1>1, <2>1, <2>2
<1>4. S \in SUBSET Links /\ Closed(S) /\ NULL \notin S
  BY <1>3, NodesAssumption DEF Closed, Links
<1>5. head \in S
  BY <1>1, <1>2
<1> HIDE DEF S
<1> QED
  BY <1>4, <1>5, ReachedFacts DEF Pointers

\* The loop's steps.
LEMMA AdvanceKeeps == ASSUME CycleInv, Advance, UNCHANGED buckets PROVE CycleInv'
<1>1. Pointers /\ Halfway /\ CanAdvance
  BY DEF CycleInv, Advance
<1>2. /\ next[slow] \in Links /\ next[fast] \in Nodes /\ next[next[fast]] \in Links
      /\ \E k \in Nat : k >= 1 /\ \E f :
            Walk(f, 2 * k) /\ next[slow] = f[k] /\ next[next[fast]] = f[2 * k]
  BY <1>1, WalkGoesOn
<1>3. /\ UNCHANGED <<next, head, buckets>>
      /\ slow' = next[slow] /\ fast' = next[next[fast]]
      /\ has_cycle' = IF slow' = fast' THEN TRUE ELSE NULL
  BY DEF Advance, SlowAfter
<1>4. Pointers'
  BY <1>1, <1>2, <1>3 DEF Pointers, Links, Buckets
<1>5. \A f, n : Walk(f, n)' <=> Walk(f, n)
  BY <1>3 DEF Walk, Links
<1>6. Halfway'
  BY <1>2, <1>3, <1>5 DEF Halfway
<1>7. \A n : Reached(n)' = Reached(n)
  BY <1>3 DEF Reached, Closed, Links
<1>8. (fast \in Reached(head))'
  <2>1. head \in Links /\ fast \in Reached(head) /\ fast \in Nodes
    BY <1>1 DEF CycleInv, Pointers, CanAdvance, Links
  <2>2. Closed(Reached(head))
    BY <1>1, <2>1, ReachedFacts
  <2>3. next[next[fast]] \in Reached(head)
    BY <1>2, <2>1, <2>2 DEF Closed
  <2> QED
    BY <1>3, <1>7, <2>3
<1>9. ASSUME slow' = fast' PROVE NULL \notin Reached(head)
  BY <1>1, <1>2, <1>3, <1>9, MeetingIsCycle
<1>10. AnswerIsRight'
  BY <1>3, <1>7, <1>9 DEF AnswerIsRight
<1> QED
  BY <1>3, <1>4, <1>6, <1>8, <1>10 DEF CycleInv

LEMMA EndOfChainKeeps == ASSUME CycleInv, EndOfChain, UNCHANGED buckets PROVE CycleInv'
<1>1. /\ UNCHANGED <<next, head, slow, fast, buckets>>
      /\ has_cycle' = FALSE /\ ~CanAdvance
  BY DEF EndOfChain
<1>2. Pointers' /\ Halfway' /\ (fast \in Reached(head))'
  BY <1>1 DEF CycleInv, Pointers, Halfway, Walk, Reached, Closed, Links, Buckets
<1>3. NULL \in Reached(head)
  <2>1. fast \in Reached(head) /\ fast \in Links /\ Closed(Reached(head))
    BY ReachedFacts DEF CycleInv, Pointers
  <2> QED
    BY <1>1, <2>1 DEF CanAdvance, Closed, Links
<1>4. AnswerIsRight'
  BY <1>1, <1>3 DEF AnswerIsRight, Reached, Closed, Links
<1> QED
  BY <1>1, <1>2, <1>4 DEF CycleInv

\* A call of the function begins at the head.
LEMMA StartKeeps ==
    ASSUME CycleInv, NEW entry0 \in Links, StartsAt(entry0), UNCHANGED <<next, buckets>>
    PROVE  CycleInv'
<1>1. head' = entry0 /\ slow' = entry0 /\ fast' = entry0 /\ has_cycle' = NULL
  BY DEF StartsAt
<1>2. Pointers'
  BY <1>1 DEF CycleInv, Pointers, Links, Buckets
<1>3. Halfway'
  <2> DEFINE f == [i \in 0..0 |-> entry0]
  <2>1. 2 * 0 = 0 /\ 0 \in Nat /\ 0 - 1 = -1 /\ 0..(-1) = {}
    OBVIOUS
  <2>2. (Walk(f, 0))'
    BY <1>1, <2>1 DEF Walk, Links
  <2> QED
    BY <1>1, <2>1, <2>2 DEF Halfway
<1>4. (fast \in Reached(head))'
  BY <1>1 DEF Reached, Links
<1> QED
  BY <1>1, <1>2, <1>3, <1>4 DEF CycleInv, AnswerIsRight

\* So does the capture.
LEMMA InitCycleInv == Init => CycleInv
<1> SUFFICES ASSUME Init PROVE CycleInv
  OBVIOUS
<1>0. 0 \in Buckets
  BY ArenaAssumption, LayoutAssumption DEF Buckets
<1>1. Pointers
  BY <1>0 DEF Init, Pointers
<1>2. Halfway
  <2> DEFINE f == [i \in 0..0 |-> head]
  <2>1. 2 * 0 = 0 /\ 0 \in Nat /\ 0 - 1 = -1 /\ 0..(-1) = {}
    OBVIOUS
  <2>2. Walk(f, 0)
    BY <1>1, <2>1 DEF Walk, Pointers
  <2> QED
    BY <2>1, <2>2 DEF Halfway, Init
<1>3. fast \in Reached(head)
  BY <1>1, ReachedFacts DEF Init, Pointers
<1> QED
  BY <1>1, <1>2, <1>3 DEF CycleInv, AnswerIsRight, Init

\* A step of the capture keeps what its cycle check rests on.
LEMMA NextCycleInv ==
    ASSUME CycleInv, pass = "counting" => bucket_index \in Buckets, [Next]_vars
    PROVE  CycleInv'
<1>1. CASE CheckChain
  BY <1>1, AdvanceKeeps, EndOfChainKeeps DEF CheckChain
<1>2. ASSUME UNCHANGED <<cyclevars, buckets>> PROVE CycleInv'
  BY <1>2 DEF CycleInv, Pointers, Halfway, Walk, Reached, Closed, AnswerIsRight, Links,
              Buckets, cyclevars
<1>3. CASE CountNextBucket
  <2>1. CASE bucket_index' < Capacity
    <3>1. StartsAt(buckets[bucket_index']) /\ UNCHANGED <<next, buckets>>
      BY <1>3, <2>1 DEF CountNextBucket
    <3>2. bucket_index' \in Buckets
      BY <1>3, <2>1, ArenaAssumption DEF CountNextBucket, Buckets
    <3>3. buckets[bucket_index'] \in Links
      BY <3>2 DEF CycleInv, Pointers
    <3> QED
      BY <3>1, <3>3, StartKeeps
  <2>2. CASE ~(bucket_index' < Capacity)
    BY <1>2, <1>3, <2>2 DEF CountNextBucket
  <2> QED
    BY <2>1, <2>2
<1> QED
  BY <1>1, <1>2, <1>3 DEF Next, vars, IsChecked, Count, Allocate, Fill, FillNextBucket

-----------------------------------------------------------------------------
(* Where the capture is. *)

Passes ==
    {"checking", "counting", "allocating", "filling",
     "OK", "NO_MEMORY", "OVERFLOW", "CORRUPT_STRUCTURE"}

Sizes == 0..SizeMax

\* The walk over a chain is one that the check has passed.
PlaceInv ==
    /\ pass \in Passes
    /\ bucket_index \in Nat /\ entry \in Links
    /\ pass \in {"checking", "counting", "filling"} => bucket_index \in Buckets
    /\ pass = "checking" => head = buckets[bucket_index]
    /\ pass = "counting" => NULL \in Reached(entry)
    /\ pass = "allocating" => bucket_index = Capacity
    /\ entry_count \in Sizes /\ key_bytes \in Sizes

\* The numbers of the capture are small enough.
LEMMA CapacityFacts ==
    /\ Capacity \in Nat /\ Capacity >= 4 /\ SizeMax \in Nat /\ Capacity <= SizeMax
    /\ 0 \in Buckets /\ Capacity - 1 \in Buckets
    /\ \A b : b \in Buckets <=> b \in Nat /\ b < Capacity
    /\ \A n \in Nodes : KeySize[n] \in Nat /\ KeySize[n] <= SizeMax
    /\ \A n \in Sizes : n \in Nat /\ n <= SizeMax
  BY ArenaAssumption, LayoutAssumption DEF Buckets, Sizes

\* A pointer that is not NULL leads to an entry.
LEMMA LinkFacts == \A n \in Links : n # NULL <=> n \in Nodes
  BY NodesAssumption DEF Links

\* What a step of the count adds.
LEMMA CountFacts ==
    ASSUME PlaceInv, Pointers, Count, pass' = "counting"
    PROVE  /\ pass = "counting" /\ entry \in Nodes
           /\ entry_count' = entry_count + 1 /\ key_bytes' = key_bytes + KeySize[entry]
           /\ entry_count' \in Sizes /\ key_bytes' \in Sizes
           /\ entry' = next[entry] /\ entry' \in Links
           /\ UNCHANGED <<cyclevars, buckets, bucket_index, written>>
<1>1. pass = "counting" /\ entry \in Nodes /\ entry \in Links
  BY LinkFacts DEF Count, PlaceInv
<1>2. CanAdd(entry_count, 1) /\ CanAdd(key_bytes, KeySize[entry])
  BY DEF Count, Returns
<1>3. /\ entry_count' = Plus(entry_count, 1) /\ key_bytes' = Plus(key_bytes, KeySize[entry])
      /\ entry' = next[entry] /\ UNCHANGED <<cyclevars, buckets, bucket_index, written>>
  BY <1>2 DEF Count
<1>4. entry_count \in Nat /\ key_bytes \in Nat /\ KeySize[entry] \in Nat /\ SizeMax \in Nat
  BY <1>1, CapacityFacts DEF PlaceInv
<1>5. /\ Plus(entry_count, 1) = entry_count + 1 /\ entry_count + 1 <= SizeMax
      /\ Plus(key_bytes, KeySize[entry]) = key_bytes + KeySize[entry]
      /\ key_bytes + KeySize[entry] <= SizeMax
  BY <1>2, <1>4, CheckedSum
<1>6. entry_count' \in Sizes /\ key_bytes' \in Sizes
  BY <1>3, <1>4, <1>5 DEF Sizes
<1>7. next[entry] \in Links
  BY <1>1 DEF Pointers
<1> QED
  BY <1>1, <1>3, <1>5, <1>6, <1>7

LEMMA InitPlaceInv == Init => PlaceInv
  BY CapacityFacts, LayoutAssumption DEF Init, PlaceInv, Passes, Sizes, Links

\* Each step leads on to where the next begins.
LEMMA NextPlaceInv ==
    ASSUME CycleInv, PlaceInv, [Next]_vars, AnswerIsRight
    PROVE  PlaceInv'
<1>0. Pointers
  BY DEF CycleInv
<1>1. CASE CheckChain
  <2>1. pass = "checking" /\ UNCHANGED <<head, buckets, pass, bucket_index, entry, counted>>
    BY <1>1 DEF CheckChain, Advance, EndOfChain
  <2> QED
    BY <2>1 DEF PlaceInv, counted
<1>2. CASE IsChecked
  <2>0. pass = "checking" /\ has_cycle \in BOOLEAN /\ bucket_index \in Buckets
        /\ head = buckets[bucket_index] /\ UNCHANGED <<cyclevars, buckets, counted>>
    BY <1>2 DEF IsChecked, CycleInv, PlaceInv
  <2>1. CASE has_cycle
    <3>1. pass' = "CORRUPT_STRUCTURE" /\ UNCHANGED <<bucket_index, entry>>
      BY <1>2, <2>1 DEF IsChecked, Returns
    <3> QED
      BY <2>0, <3>1 DEF PlaceInv, Passes, counted
  <2>2. CASE ~has_cycle
    <3>1. pass' = "counting" /\ entry' = buckets[bucket_index] /\ UNCHANGED bucket_index
      BY <1>2, <2>2 DEF IsChecked
    <3>2. NULL \in Reached(head)
      BY <1>2, <2>0, <2>2 DEF AnswerIsRight, IsChecked
    <3>3. (NULL \in Reached(entry))'
      BY <2>0, <3>1, <3>2 DEF Reached, Closed, cyclevars
    <3>4. entry' \in Links
      BY <1>0, <2>0, <3>1 DEF Pointers
    <3> QED
      BY <2>0, <3>1, <3>3, <3>4 DEF PlaceInv, Passes, counted
  <2> QED
    BY <2>0, <2>1, <2>2
<1>3. CASE Count
  <2>1. CASE pass' = "counting"
    <3>1. /\ pass = "counting" /\ entry \in Nodes
          /\ entry_count' \in Sizes /\ key_bytes' \in Sizes
          /\ entry' = next[entry] /\ entry' \in Links
          /\ UNCHANGED <<cyclevars, buckets, bucket_index>>
      BY <1>0, <1>3, <2>1, CountFacts
    <3>2. NULL \in Reached(next[entry])
      BY <1>0, <3>1, ReachedStep, LinkFacts DEF PlaceInv
    <3>3. (NULL \in Reached(entry))'
      BY <3>1, <3>2 DEF Reached, Closed, cyclevars
    <3> QED
      BY <2>1, <3>1, <3>3 DEF PlaceInv, Passes
  <2>2. CASE pass' # "counting"
    <3>1. pass' = "OVERFLOW" /\ UNCHANGED <<bucket_index, entry, counted>>
      BY <1>3, <2>2 DEF Count, Returns
    <3> QED
      BY <3>1 DEF PlaceInv, Passes, counted
  <2> QED
    BY <2>1, <2>2
<1>4. CASE CountNextBucket
  <2>0. pass = "counting" /\ bucket_index \in Nat /\ bucket_index < Capacity
        /\ bucket_index' = bucket_index + 1 /\ UNCHANGED <<buckets, entry, counted>>
    BY <1>4, CapacityFacts DEF CountNextBucket, PlaceInv
  <2>1. CASE bucket_index' < Capacity
    <3>1. pass' = "checking" /\ head' = buckets[bucket_index']
      BY <1>4, <2>1 DEF CountNextBucket, StartsAt
    <3>2. bucket_index' \in Nat /\ bucket_index' \in Buckets
      BY <2>0, <2>1, CapacityFacts
    <3> QED
      BY <2>0, <3>1, <3>2 DEF PlaceInv, Passes, counted, Buckets
  <2>2. CASE ~(bucket_index' < Capacity)
    <3>1. pass' = "allocating"
      BY <1>4, <2>2 DEF CountNextBucket
    <3>2. bucket_index' = Capacity /\ bucket_index' \in Nat
      BY <2>0, <2>2, CapacityFacts
    <3> QED
      BY <2>0, <3>1, <3>2 DEF PlaceInv, Passes, counted
  <2> QED
    BY <2>1, <2>2
<1>5. CASE Allocate
  <2>1. pass = "allocating" /\ UNCHANGED <<cyclevars, buckets, counted>>
    BY <1>5 DEF Allocate
  <2>2. CASE pass' = "filling"
    <3>1. bucket_index' = 0 /\ entry' = buckets[0]
      BY <1>5, <2>2 DEF Allocate, Returns
    <3>2. entry' \in Links
      BY <1>0, <3>1, CapacityFacts DEF Pointers
    <3> QED
      BY <2>1, <2>2, <3>1, <3>2, CapacityFacts DEF PlaceInv, Passes, counted
  <2>3. CASE pass' # "filling"
    <3>1. pass' \in {"NO_MEMORY", "OVERFLOW"} /\ UNCHANGED <<bucket_index, entry>>
      BY <1>5, <2>3 DEF Allocate, Returns
    <3> QED
      BY <2>1, <3>1 DEF PlaceInv, Passes, counted
  <2> QED
    BY <2>2, <2>3
<1>6. CASE Fill
  <2>1. pass = "filling" /\ pass' = "filling" /\ entry \in Nodes /\ entry' = next[entry]
        /\ UNCHANGED <<bucket_index, counted, cyclevars, buckets>>
    BY <1>6, LinkFacts DEF Fill, PlaceInv
  <2>2. entry' \in Links
    BY <1>0, <2>1 DEF Pointers
  <2> QED
    BY <2>1, <2>2 DEF PlaceInv, Passes, counted
<1>7. CASE FillNextBucket
  <2>0. pass = "filling" /\ bucket_index \in Nat /\ bucket_index < Capacity
        /\ UNCHANGED <<cyclevars, buckets, counted>>
    BY <1>7, CapacityFacts DEF FillNextBucket, PlaceInv
  <2>1. CASE bucket_index + 1 < Capacity
    <3>1. pass' = "filling" /\ bucket_index' = bucket_index + 1
          /\ entry' = buckets[bucket_index']
      BY <1>7, <2>0, <2>1 DEF FillNextBucket
    <3>2. bucket_index' \in Nat /\ bucket_index' \in Buckets
      BY <2>0, <2>1, <3>1, CapacityFacts
    <3>3. entry' \in Links
      BY <1>0, <3>1, <3>2 DEF Pointers
    <3> QED
      BY <2>0, <3>1, <3>2, <3>3 DEF PlaceInv, Passes, counted, Buckets
  <2>2. CASE ~(bucket_index + 1 < Capacity)
    <3>1. pass' = "OK" /\ UNCHANGED <<bucket_index, entry>>
      BY <1>7, <2>2 DEF FillNextBucket, Returns
    <3> QED
      BY <2>0, <3>1 DEF PlaceInv, Passes, counted
  <2> QED
    BY <2>1, <2>2
<1>8. CASE UNCHANGED vars
  BY <1>8 DEF vars, cyclevars, counted, PlaceInv, Reached, Closed
<1> QED
  BY <1>1, <1>2, <1>3, <1>4, <1>5, <1>6, <1>7, <1>8 DEF Next

\* The check of a chain answers right, whatever its shape: it may end, loop back to its
\* head, or loop after a tail of any length (hash_snapshot.c:75-88).
THEOREM CycleCheckIsRight == Spec => []AnswerIsRight
<1>1. Init => CycleInv /\ PlaceInv
  BY InitCycleInv, InitPlaceInv
<1>2. CycleInv /\ PlaceInv /\ [Next]_vars => (CycleInv /\ PlaceInv)'
  <2> SUFFICES ASSUME CycleInv, PlaceInv, [Next]_vars PROVE (CycleInv /\ PlaceInv)'
    OBVIOUS
  <2>1. CycleInv'
    BY NextCycleInv DEF PlaceInv
  <2>2. PlaceInv'
    BY NextPlaceInv DEF CycleInv
  <2> QED
    BY <2>1, <2>2
<1>3. CycleInv => AnswerIsRight
  BY DEF CycleInv
<1> QED
  BY <1>1, <1>2, <1>3, PTL DEF Spec

-----------------------------------------------------------------------------
(* The second pass goes the way of the first. *)

\* Where a pass is, and what it has counted or written.
Place(bucket, at, count, bytes) ==
    [bucket |-> bucket, entry |-> at, count |-> count, bytes |-> bytes]

Places == [bucket : Buckets, entry : Links, count : Nat, bytes : Nat]

AtEnd(p) == p.bucket = Capacity - 1 /\ p.entry = NULL

Following(p) ==
    IF p.entry # NULL
    THEN Place(p.bucket, next[p.entry], p.count + 1, p.bytes + KeySize[p.entry])
    ELSE Place(p.bucket + 1, buckets[p.bucket + 1], p.count, p.bytes)

FirstPlace == Place(0, buckets[0], 0, 0)

\* The places from the first to one that has been reached, none of which is beyond it.
Way(W, last) ==
    /\ W \subseteq Places /\ FirstPlace \in W /\ last \in W
    /\ \A p \in W : p.count <= last.count /\ p.bytes <= last.bytes
    /\ \A p \in W : p = last \/ (~AtEnd(p) /\ Following(p) \in W)

\* What the first pass has counted, and where the whole table ends.
CountedPlace ==
    Place(bucket_index, IF pass = "checking" THEN head ELSE entry, entry_count, key_bytes)

LastPlace == Place(Capacity - 1, NULL, entry_count, key_bytes)

FilledPlace == Place(bucket_index, entry, entry_index, key_offset)

WayInv ==
    /\ pass \in {"checking", "counting"} => \E W : Way(W, CountedPlace)
    /\ pass \in {"allocating", "NO_MEMORY"} => \E W : Way(W, LastPlace)
    /\ pass = "filling" => \E W : Way(W, LastPlace) /\ FilledPlace \in W
    /\ pass = "OK" => entry_index = entry_count /\ key_offset = key_bytes
    /\ pass \notin {"filling", "OK"} => entry_index = 0 /\ key_offset = 0
    /\ entry_index \in Nat /\ key_offset \in Nat

\* The way can be followed by one more place.
LEMMA WayGoesOn ==
    ASSUME NEW W, NEW p \in Places, Way(W, p), ~AtEnd(p),
           Following(p) \in Places,
           Following(p).count >= p.count, Following(p).bytes >= p.bytes
    PROVE  \E V : Way(V, Following(p))
<1> DEFINE q == Following(p)
           V == W \cup {q}
<1> HIDE DEF q
<1>1. q \in Places /\ q.count >= p.count /\ q.bytes >= p.bytes /\ q = Following(p)
  BY DEF q
<1>2. /\ q.count \in Nat /\ q.bytes \in Nat /\ p.count \in Nat /\ p.bytes \in Nat
      /\ \A w \in W : w.count \in Nat /\ w.bytes \in Nat
  BY <1>1 DEF Way, Places
<1>3. \A w \in V : w.count <= q.count /\ w.bytes <= q.bytes
  BY <1>1, <1>2 DEF Way
<1>4. \A w \in V : w = q \/ (~AtEnd(w) /\ Following(w) \in V)
  BY <1>1 DEF Way
<1>5. V \subseteq Places /\ FirstPlace \in V /\ q \in V
  BY <1>1 DEF Way
<1> QED
  BY <1>1, <1>3, <1>4, <1>5 DEF Way

\* Nothing that a way rests on changes but the place.
LEMMA SameWay ==
    ASSUME UNCHANGED <<next, buckets>>
    PROVE  \A W, p : Way(W, p)' <=> Way(W', p')
  BY DEF Way, Places, Following, FirstPlace, AtEnd, Place, Buckets, Links

\* The places of the three passes.
LEMMA PlaceTypes ==
    ASSUME PlaceInv, Pointers, WayInv
    PROVE  /\ pass \in {"checking", "counting"} => CountedPlace \in Places
           /\ LastPlace \in Places
           /\ pass = "filling" => FilledPlace \in Places
  BY CapacityFacts DEF PlaceInv, Pointers, WayInv, CountedPlace, LastPlace, FilledPlace, Place,
                       Places, Links

\* At first there is one place.
LEMMA InitWayInv == Init => WayInv
<1> SUFFICES ASSUME Init PROVE WayInv
  OBVIOUS
<1>1. pass = "checking" /\ CountedPlace = FirstPlace
  BY DEF Init, CountedPlace, FirstPlace, Place
<1>2. FirstPlace \in Places
  BY CapacityFacts DEF Init, FirstPlace, Place, Places
<1>3. FirstPlace.count = 0 /\ FirstPlace.bytes = 0
  BY DEF FirstPlace, Place
<1>4. Way({FirstPlace}, FirstPlace)
  BY <1>2, <1>3 DEF Way
<1> QED
  BY <1>1, <1>4 DEF Init, WayInv

\* Each step goes to the place that follows.
LEMMA NextWayInv ==
    ASSUME CycleInv, PlaceInv, WayInv, [Next]_vars
    PROVE  WayInv'
<1>0. Pointers
  BY DEF CycleInv
<1>a. UNCHANGED <<next, buckets>>
  BY DEF Next, vars, cyclevars, CheckChain, Advance, EndOfChain, IsChecked, Count,
         CountNextBucket, Allocate, Fill, FillNextBucket
<1>1. CASE CheckChain
  <2>1. pass = "checking"
        /\ UNCHANGED <<head, pass, bucket_index, entry, counted, entry_index, key_offset>>
    BY <1>1 DEF CheckChain, Advance, EndOfChain, written
  <2>2. CountedPlace' = CountedPlace
    BY <2>1 DEF CountedPlace, Place, counted
  <2> QED
    BY <1>a, <2>1, <2>2, SameWay DEF WayInv
<1>2. CASE IsChecked
  <2>1. /\ pass = "checking" /\ head = buckets[bucket_index]
        /\ pass' \in {"CORRUPT_STRUCTURE", "counting"}
        /\ pass' = "counting" => entry' = buckets[bucket_index]
        /\ UNCHANGED <<bucket_index, counted, entry_index, key_offset>>
    BY <1>2 DEF IsChecked, PlaceInv, Returns, written
  <2>2. pass' = "counting" => CountedPlace' = CountedPlace
    BY <2>1 DEF CountedPlace, Place, counted
  <2> QED
    BY <1>a, <2>1, <2>2, SameWay DEF WayInv
<1>3. CASE Count
  <2>1. CASE pass' = "counting"
    <3>1. /\ pass = "counting" /\ entry \in Nodes
          /\ entry_count' = entry_count + 1 /\ key_bytes' = key_bytes + KeySize[entry]
          /\ entry' = next[entry]
          /\ UNCHANGED <<cyclevars, buckets, bucket_index, written>>
      BY <1>0, <1>3, <2>1, CountFacts
    <3>2. CountedPlace = Place(bucket_index, entry, entry_count, key_bytes)
          /\ CountedPlace \in Places /\ entry # NULL
      BY <1>0, <3>1, PlaceTypes, NodesAssumption DEF CountedPlace
    <3>3. CountedPlace' = Following(CountedPlace)
      BY <2>1, <3>1, <3>2 DEF CountedPlace, Following, Place
    <3>4. ~AtEnd(CountedPlace)
      BY <3>2 DEF AtEnd, Place
    <3>5. CountedPlace' \in Places
      <4>1. entry' \in Links /\ bucket_index \in Buckets
            /\ entry_count' \in Nat /\ key_bytes' \in Nat
        BY <1>0, <1>3, <2>1, <3>1, CountFacts, CapacityFacts DEF PlaceInv
      <4> QED
        BY <2>1, <3>1, <4>1 DEF CountedPlace, Place, Places
    <3>6. CountedPlace'.count >= CountedPlace.count /\ CountedPlace'.bytes >= CountedPlace.bytes
      <4>1. entry_count \in Nat /\ key_bytes \in Nat /\ KeySize[entry] \in Nat
        BY <3>1, CapacityFacts DEF PlaceInv
      <4>2. /\ CountedPlace'.count = entry_count + 1 /\ CountedPlace.count = entry_count
            /\ CountedPlace'.bytes = key_bytes + KeySize[entry]
            /\ CountedPlace.bytes = key_bytes
        BY <2>1, <3>1, <3>2 DEF CountedPlace, Place
      <4> HIDE DEF CountedPlace
      <4> QED
        BY <4>1, <4>2
    <3>7. \E W : Way(W, CountedPlace)
      BY <3>1 DEF WayInv
    <3> HIDE DEF CountedPlace, Following
    <3>8. \E V : Way(V, CountedPlace')
      BY <3>2, <3>3, <3>4, <3>5, <3>6, <3>7, WayGoesOn
    <3>9. \E V : Way(V, CountedPlace)'
      BY <1>a, <3>8 DEF Way, Places, Following, FirstPlace, AtEnd, Place, Buckets, Links
    <3> QED
      BY <2>1, <3>1, <3>9 DEF WayInv, written
  <2>2. CASE pass' # "counting"
    BY <1>3, <2>2 DEF Count, Returns, WayInv, written
  <2> QED
    BY <2>1, <2>2
<1>4. CASE CountNextBucket
  <2>0. pass = "counting" /\ entry = NULL /\ bucket_index \in Buckets
        /\ bucket_index' = bucket_index + 1
        /\ UNCHANGED <<entry, entry_count, key_bytes, entry_index, key_offset>>
    BY <1>4 DEF CountNextBucket, PlaceInv, counted, written
  <2>1. CountedPlace = Place(bucket_index, NULL, entry_count, key_bytes)
        /\ CountedPlace \in Places
    BY <1>0, <2>0, PlaceTypes DEF CountedPlace
  <2>2. PICK W : Way(W, CountedPlace)
    BY <2>0 DEF WayInv
  <2>3. CASE bucket_index' < Capacity
    <3>1. pass' = "checking" /\ head' = buckets[bucket_index']
      BY <1>4, <2>3 DEF CountNextBucket, StartsAt
    <3>2. bucket_index' \in Buckets /\ bucket_index # Capacity - 1
      BY <2>0, <2>3, CapacityFacts
    <3>3. CountedPlace' = Following(CountedPlace)
          /\ CountedPlace'.count = CountedPlace.count /\ CountedPlace'.bytes = CountedPlace.bytes
      BY <2>0, <2>1, <3>1 DEF CountedPlace, Following, Place
    <3>4. ~AtEnd(CountedPlace)
      BY <2>1, <3>2 DEF AtEnd, Place
    <3>5. CountedPlace' \in Places
      BY <1>0, <2>0, <3>1, <3>2, CapacityFacts
         DEF CountedPlace, Place, Places, Pointers, PlaceInv
    <3>6. CountedPlace'.count >= CountedPlace.count /\ CountedPlace'.bytes >= CountedPlace.bytes
      <4>1. CountedPlace.count \in Nat /\ CountedPlace.bytes \in Nat
        BY <2>1 DEF Places
      <4> QED
        BY <3>3, <4>1
    <3> HIDE DEF CountedPlace, Following
    <3>8. \E V : Way(V, CountedPlace')
      BY <2>1, <2>2, <3>3, <3>4, <3>5, <3>6, WayGoesOn
    <3>9. \E V : Way(V, CountedPlace)'
      BY <1>a, <3>8 DEF Way, Places, Following, FirstPlace, AtEnd, Place, Buckets, Links
    <3> QED
      BY <2>0, <3>1, <3>9 DEF WayInv
  <2>4. CASE ~(bucket_index' < Capacity)
    <3>1. pass' = "allocating" /\ bucket_index = Capacity - 1
      BY <1>4, <2>0, <2>4, CapacityFacts DEF CountNextBucket
    <3>2. LastPlace' = CountedPlace
      BY <2>0, <2>1, <3>1 DEF LastPlace, Place
    <3>3. Way(W, LastPlace)'
      BY <1>a, <2>2, <3>2 DEF Way, Places, Following, FirstPlace, AtEnd, Place, Buckets, Links
    <3> QED
      BY <2>0, <3>1, <3>3 DEF WayInv
  <2> QED
    BY <2>3, <2>4
<1>5. CASE Allocate
  <2>0. /\ pass = "allocating"
        /\ UNCHANGED <<entry_count, key_bytes, entry_index, key_offset>>
        /\ pass' \in {"filling", "NO_MEMORY", "OVERFLOW"}
        /\ pass' = "filling" => bucket_index' = 0 /\ entry' = buckets[0]
    BY <1>5 DEF Allocate, counted, written, Returns
  <2>1. PICK W : Way(W, LastPlace)
    BY <2>0 DEF WayInv
  <2>2. Way(W, LastPlace)' /\ FirstPlace \in W
    BY <1>a, <2>0, <2>1
       DEF Way, Places, Following, FirstPlace, AtEnd, Place, Buckets, Links, LastPlace
  <2>3. pass' = "filling" => FilledPlace' = FirstPlace
    BY <2>0 DEF FilledPlace, FirstPlace, Place, WayInv
  <2> QED
    BY <2>0, <2>2, <2>3 DEF WayInv
<1>6. ASSUME pass = "filling", UNCHANGED <<pass, counted>>, ~AtEnd(FilledPlace),
             FilledPlace' = Following(FilledPlace),
             entry_index' \in Nat, key_offset' \in Nat
      PROVE  WayInv'
  <2>1. PICK W : Way(W, LastPlace) /\ FilledPlace \in W
    BY <1>6 DEF WayInv
  <2>2. FilledPlace # LastPlace
    BY <1>6 DEF AtEnd, LastPlace, Place
  <2>3. FilledPlace' \in W
    BY <1>6, <2>1, <2>2 DEF Way
  <2>4. Way(W, LastPlace)'
    BY <1>a, <1>6, <2>1
       DEF Way, Places, Following, FirstPlace, AtEnd, Place, Buckets, Links, LastPlace, counted
  <2> QED
    BY <1>6, <2>3, <2>4 DEF WayInv
<1>7. CASE Fill
  <2>1. /\ pass = "filling" /\ UNCHANGED <<pass, counted, bucket_index>>
        /\ entry # NULL /\ entry \in Nodes
        /\ entry' = next[entry] /\ entry_index' = entry_index + 1
        /\ key_offset' = key_offset + KeySize[entry]
    BY <1>7, LinkFacts DEF Fill, PlaceInv
  <2>2. FilledPlace' = Following(FilledPlace) /\ ~AtEnd(FilledPlace)
    BY <2>1 DEF FilledPlace, Following, Place, AtEnd
  <2>3. entry_index' \in Nat /\ key_offset' \in Nat
    BY <2>1, CapacityFacts DEF WayInv
  <2> QED
    BY <1>6, <2>1, <2>2, <2>3
<1>8. CASE FillNextBucket
  <2>1. /\ pass = "filling" /\ entry = NULL /\ UNCHANGED <<counted, entry_index, key_offset>>
        /\ bucket_index \in Buckets
    BY <1>8 DEF FillNextBucket, PlaceInv
  <2>2. CASE bucket_index + 1 < Capacity
    <3>1. bucket_index' = bucket_index + 1 /\ entry' = buckets[bucket_index'] /\ UNCHANGED pass
      BY <1>8, <2>2 DEF FillNextBucket
    <3>2. bucket_index # Capacity - 1
      BY <2>1, <2>2, CapacityFacts
    <3>3. FilledPlace' = Following(FilledPlace) /\ ~AtEnd(FilledPlace)
      BY <2>1, <3>1, <3>2 DEF FilledPlace, Following, Place, AtEnd
    <3> QED
      BY <1>6, <2>1, <3>1, <3>3 DEF WayInv
  <2>3. CASE ~(bucket_index + 1 < Capacity)
    <3>1. pass' = "OK" /\ bucket_index = Capacity - 1
      BY <1>8, <2>1, <2>3, CapacityFacts DEF FillNextBucket, Returns
    <3>2. AtEnd(FilledPlace)
      BY <2>1, <3>1 DEF AtEnd, FilledPlace, Place
    <3>3. FilledPlace = LastPlace
      BY <2>1, <3>2 DEF WayInv, Way
    <3>4. entry_index = entry_count /\ key_offset = key_bytes
      BY <3>3 DEF FilledPlace, LastPlace, Place
    <3> QED
      BY <2>1, <3>1, <3>4 DEF WayInv, counted
  <2> QED
    BY <2>2, <2>3
<1>9. CASE UNCHANGED vars
  BY <1>9 DEF vars, cyclevars, counted, written, WayInv, Way, Places, Following, FirstPlace,
              AtEnd, Place, Buckets, Links, LastPlace, CountedPlace, FilledPlace
<1> QED
  BY <1>1, <1>2, <1>3, <1>4, <1>5, <1>7, <1>8, <1>9 DEF Next

-----------------------------------------------------------------------------
(* What the records tell. *)

RecordType ==
    [entry_id : Nodes, bucket_index : Buckets, chain_index : Nat, key_offset : Nat,
     key_size : Nat]

\* After the first records, n are those of a walk over the chain of a bucket, which
\* goes on with an entry, or with NULL at its end.
ChainRecords(R, b, first, n, at) ==
    /\ first \in Nat /\ n \in Nat /\ first + n <= Len(R)
    /\ n = 0 => at = buckets[b]
    /\ \A i \in 0..(n - 1) :
          LET record == R[first + i + 1]
          IN /\ record.bucket_index = b /\ record.chain_index = i
             /\ i = 0 => record.entry_id = buckets[b]
             /\ next[record.entry_id] = IF i = n - 1 THEN at
                                        ELSE R[first + i + 2].entry_id

\* The record of a bucket that has been walked over.
Tells(record, R, b) ==
    /\ record.chain_length \in Nat
    /\ record.chain_length = 0 <=> buckets[b] = NULL
    /\ record.chain_length # 0 =>
          ChainRecords(R, b, record.first_entry_index, record.chain_length, NULL)

BucketTold(b) == Tells(bucket_records[b + 1], entry_records, b)

\* The keys lie next to each other, and end where the next one goes.
KeysInRow ==
    \A i \in DOMAIN entry_records :
        LET record == entry_records[i]
        IN /\ record.key_size = KeySize[record.entry_id]
           /\ record.key_offset = IF i = 1 THEN 0
                 ELSE entry_records[i - 1].key_offset + entry_records[i - 1].key_size
           /\ record.key_offset + record.key_size <= key_offset
           /\ i = Len(entry_records) => record.key_offset + record.key_size = key_offset

RecordsInv ==
    /\ entry_records \in Seq(RecordType) /\ Len(entry_records) = entry_index
    /\ bucket_records \in Seq([first_entry_index : Nat, chain_length : Nat])
    /\ chain_index \in Nat
    /\ KeysInRow /\ (entry_index = 0 => key_offset = 0)
    /\ pass \notin {"filling", "OK"} => bucket_records = <<>> /\ chain_index = 0
    /\ pass = "filling" =>
          /\ Len(bucket_records) = bucket_index
          /\ chain_index <= entry_index
          /\ ChainRecords(entry_records, bucket_index, entry_index - chain_index, chain_index, entry)
    /\ pass = "OK" => Len(bucket_records) = Capacity
    /\ \A b \in 0..(Len(bucket_records) - 1) : BucketTold(b)

\* Nothing has been written at first.
LEMMA InitRecordsInv == Init => RecordsInv
<1> SUFFICES ASSUME Init PROVE RecordsInv
  OBVIOUS
<1>1. entry_records = <<>> /\ bucket_records = <<>> /\ pass = "checking" /\ chain_index = 0
      /\ entry_index = 0 /\ key_offset = 0
  BY DEF Init
<1>2. Len(entry_records) = 0 /\ DOMAIN entry_records = {} /\ Len(bucket_records) = 0
      /\ 0..(0 - 1) = {}
  BY <1>1
<1> QED
  BY <1>1, <1>2 DEF RecordsInv, KeysInRow

\* One record more.
LEMMA FillKeeps ==
    ASSUME Pointers, PlaceInv, WayInv, RecordsInv, Fill
    PROVE  RecordsInv'
<1> DEFINE E == entry_records
           x == [entry_id |-> entry, bucket_index |-> bucket_index, chain_index |-> chain_index,
                 key_offset |-> key_offset, key_size |-> KeySize[entry]]
           n == entry_index
           c == chain_index
<1>1. /\ pass = "filling" /\ UNCHANGED <<pass, bucket_index, buckets, next, bucket_records>>
      /\ entry \in Nodes /\ entry # NULL /\ bucket_index \in Buckets
      /\ entry_records' = Append(E, x) /\ key_offset' = key_offset + KeySize[entry]
      /\ entry_index' = n + 1 /\ chain_index' = c + 1 /\ entry' = next[entry]
  BY LinkFacts DEF Fill, PlaceInv, cyclevars
<1>2. /\ n \in Nat /\ c \in Nat /\ c <= n /\ key_offset \in Nat /\ KeySize[entry] \in Nat
      /\ E \in Seq(RecordType) /\ Len(E) = n
      /\ Len(bucket_records) = bucket_index
      /\ ChainRecords(E, bucket_index, n - c, c, entry)
  BY <1>1, CapacityFacts DEF RecordsInv, WayInv
<1>3. x \in RecordType
  BY <1>1, <1>2 DEF RecordType
<1> HIDE DEF x
<1>4. /\ entry_records' \in Seq(RecordType) /\ Len(entry_records') = n + 1
      /\ \A i \in 1..n : entry_records'[i] = E[i]
      /\ entry_records'[n + 1] = x
  BY <1>1, <1>2, <1>3
<1>5. /\ x.entry_id = entry /\ x.bucket_index = bucket_index /\ x.chain_index = c
      /\ x.key_offset = key_offset /\ x.key_size = KeySize[entry]
  BY DEF x
<1>6. KeysInRow'
  <2> SUFFICES ASSUME NEW i \in DOMAIN entry_records'
               PROVE  LET record == entry_records'[i]
                      IN /\ record.key_size = KeySize[record.entry_id]
                         /\ record.key_offset = IF i = 1 THEN 0
                               ELSE entry_records'[i - 1].key_offset
                                      + entry_records'[i - 1].key_size
                         /\ record.key_offset + record.key_size <= key_offset'
                         /\ i = Len(entry_records') =>
                               record.key_offset + record.key_size = key_offset'
    BY DEF KeysInRow
  <2>0. i \in 1..(n + 1) /\ DOMAIN E = 1..n
    BY <1>2, <1>4
  <2>1. CASE i \in 1..n
    <3>1. /\ E[i].key_size = KeySize[E[i].entry_id]
          /\ E[i].key_offset = IF i = 1 THEN 0 ELSE E[i - 1].key_offset + E[i - 1].key_size
          /\ E[i].key_offset + E[i].key_size <= key_offset
      BY <2>0, <2>1 DEF RecordsInv, KeysInRow
    <3>2. E[i].key_offset \in Nat /\ E[i].key_size \in Nat
      <4>1. E[i] \in RecordType
        BY <1>2, <2>1
      <4> QED
        BY <4>1 DEF RecordType
    <3>3. E[i].key_offset + E[i].key_size <= key_offset'
      <4> DEFINE a == E[i].key_offset + E[i].key_size
      <4>1. a \in Nat /\ a <= key_offset
        BY <3>1, <3>2
      <4> HIDE DEF a
      <4>2. a <= key_offset'
        BY <1>1, <1>2, <4>1
      <4> QED
        BY <4>2 DEF a
    <3>4. i # n + 1 /\ (i # 1 => i - 1 \in 1..n)
      BY <1>2, <2>1
    <3>5. entry_records'[i] = E[i] /\ (i # 1 => entry_records'[i - 1] = E[i - 1])
      BY <1>4, <2>1, <3>4
    <3> QED
      BY <1>4, <3>1, <3>3, <3>4, <3>5
  <2>2. CASE i = n + 1
    <3>1. entry_records'[i] = x /\ x.key_offset + x.key_size = key_offset'
          /\ x.key_size = KeySize[x.entry_id]
      BY <1>1, <1>4, <1>5, <2>2
    <3>2. CASE n = 0
      <4>1. i = 1 /\ x.key_offset = 0 /\ key_offset' \in Nat
        BY <1>1, <1>2, <1>5, <2>2, <3>2 DEF RecordsInv
      <4> QED
        BY <1>4, <2>2, <3>1, <4>1
    <3>3. CASE n # 0
      <4>1. i # 1 /\ i - 1 = n /\ n \in 1..n
        BY <1>2, <2>2, <3>3
      <4>2. E[n].key_offset + E[n].key_size = key_offset
        BY <1>2, <2>0, <4>1 DEF RecordsInv, KeysInRow
      <4>3. entry_records'[i - 1] = E[n]
        BY <1>4, <4>1
      <4>4. key_offset' \in Nat
        BY <1>1, <1>2
      <4> QED
        BY <1>4, <1>5, <2>2, <3>1, <4>1, <4>2, <4>3, <4>4
    <3> QED
      BY <3>2, <3>3
  <2> QED
    BY <1>2, <2>0, <2>1, <2>2
<1>7. ASSUME NEW b \in Buckets, NEW f, NEW k, NEW at, ChainRecords(E, b, f, k, at)
      PROVE  /\ f \in Nat /\ k \in Nat /\ f + k <= n
             /\ \A i \in 0..(k - 1) : /\ f + i + 1 \in 1..n
                                      /\ i # k - 1 => f + i + 2 \in 1..n
             /\ \A i \in 0..(k - 1) : /\ entry_records'[f + i + 1] = E[f + i + 1]
                                      /\ i # k - 1 => entry_records'[f + i + 2] = E[f + i + 2]
  <2>1. f \in Nat /\ k \in Nat /\ f + k <= n
    BY <1>2, <1>7 DEF ChainRecords
  <2>2. \A i \in 0..(k - 1) : /\ f + i + 1 \in 1..n
                              /\ i # k - 1 => f + i + 2 \in 1..n
    BY <1>2, <2>1
  <2> QED
    BY <1>4, <2>1, <2>2
<1>8. ASSUME NEW b \in Buckets, NEW f, NEW k, ChainRecords(E, b, f, k, NULL)
      PROVE  ChainRecords(entry_records, b, f, k, NULL)'
  <2>1. f \in Nat /\ k \in Nat /\ f + k <= n /\ f + k <= n + 1
    BY <1>2, <1>7, <1>8
  <2>2. \A i \in 0..(k - 1) : /\ entry_records'[f + i + 1] = E[f + i + 1]
                              /\ i # k - 1 => entry_records'[f + i + 2] = E[f + i + 2]
    BY <1>7, <1>8
  <2> QED
    BY ZenonT(60), <1>1, <1>4, <1>8, <2>1, <2>2 DEF ChainRecords
<1>9. ASSUME NEW b \in 0..(Len(bucket_records) - 1)
      PROVE  BucketTold(b)'
  <2>1. b \in Buckets /\ BucketTold(b)
    <3>1. bucket_index \in Nat /\ bucket_index < Capacity /\ b \in Nat /\ b < bucket_index
      BY <1>1, <1>2, CapacityFacts
    <3>2. b \in Buckets
      BY <3>1, CapacityFacts
    <3> QED
      BY <3>2 DEF RecordsInv
  <2> QED
    BY <1>1, <1>8, <2>1 DEF BucketTold, Tells
<1>10. ChainRecords(entry_records', bucket_index, n - c, c + 1, next[entry])
  <2> DEFINE f == n - c
  <2>1. f \in Nat /\ c + 1 \in Nat /\ f + (c + 1) = n + 1 /\ c + 1 # 0 /\ (c + 1) - 1 = c
    BY <1>2
  <2>2. ASSUME NEW i \in 0..c
        PROVE  /\ entry_records'[f + i + 1].bucket_index = bucket_index
               /\ entry_records'[f + i + 1].chain_index = i
               /\ i = 0 => entry_records'[f + i + 1].entry_id = buckets[bucket_index]
               /\ next[entry_records'[f + i + 1].entry_id] =
                     IF i = c THEN next[entry] ELSE entry_records'[f + i + 2].entry_id
    <3>1. CASE i = c
      <4>1. f + i + 1 = n + 1
        BY <1>2, <3>1
      <4>2. c = 0 => entry = buckets[bucket_index]
        BY <1>2 DEF ChainRecords
      <4> QED
        BY <1>4, <1>5, <3>1, <4>1, <4>2
    <3>2. CASE i # c
      <4>1. i \in 0..(c - 1)
        BY <1>2, <3>2
      <4>2. /\ E[f + i + 1].bucket_index = bucket_index /\ E[f + i + 1].chain_index = i
            /\ i = 0 => E[f + i + 1].entry_id = buckets[bucket_index]
            /\ next[E[f + i + 1].entry_id] =
                  IF i = c - 1 THEN entry ELSE E[f + i + 2].entry_id
        BY <1>2, <4>1 DEF ChainRecords
      <4>3. /\ entry_records'[f + i + 1] = E[f + i + 1]
            /\ i # c - 1 => entry_records'[f + i + 2] = E[f + i + 2]
        BY <1>1, <1>2, <1>7, <4>1
      <4>4. i = c - 1 => f + i + 2 = n + 1
        BY <1>2, <4>1
      <4> QED
        BY <1>4, <1>5, <3>2, <4>2, <4>3, <4>4
    <3> QED
      BY <3>1, <3>2
  <2> HIDE DEF f
  <2>3. Len(entry_records') = n + 1
    BY <1>4
  <2>4. ChainRecords(entry_records', bucket_index, f, c + 1, next[entry])
    BY <2>1, <2>2, <2>3 DEF ChainRecords
  <2> QED
    BY <2>4 DEF f
<1>11. (n + 1) - (c + 1) = n - c /\ c + 1 <= n + 1 /\ c + 1 \in Nat /\ n + 1 # 0
  BY <1>2
<1>12. ChainRecords(entry_records, bucket_index, entry_index - chain_index, chain_index, entry)'
  <2>1. entry_index' - chain_index' = n - c
    BY <1>1, <1>11
  <2>2. ChainRecords(entry_records', bucket_index', entry_index' - chain_index',
                     chain_index', entry')
    BY <1>1, <1>10, <2>1
  <2> QED
    BY ZenonT(60), <1>1, <2>2 DEF ChainRecords
<1>13. bucket_records' \in Seq([first_entry_index : Nat, chain_length : Nat])
  BY <1>1 DEF RecordsInv
<1> QED
  BY <1>1, <1>2, <1>4, <1>6, <1>9, <1>11, <1>12, <1>13 DEF RecordsInv

\* The next bucket, or the end.
LEMMA FillNextBucketKeeps ==
    ASSUME Pointers, PlaceInv, WayInv, RecordsInv, FillNextBucket
    PROVE  RecordsInv'
<1> DEFINE b == bucket_index
           r == BucketRecord
           B == bucket_records
<1>1. /\ pass = "filling" /\ entry = NULL /\ b \in Buckets /\ b \in Nat /\ b < Capacity
      /\ bucket_records' = Append(B, r)
      /\ UNCHANGED <<next, buckets, entry_records, entry_index, key_offset>>
  BY CapacityFacts DEF FillNextBucket, PlaceInv, cyclevars
<1>2. /\ entry_index \in Nat /\ chain_index \in Nat /\ chain_index <= entry_index
      /\ Len(entry_records) = entry_index
      /\ B \in Seq([first_entry_index : Nat, chain_length : Nat]) /\ Len(B) = b
      /\ ChainRecords(entry_records, b, entry_index - chain_index, chain_index, NULL)
      /\ \A k \in 0..(b - 1) : BucketTold(k)
  BY <1>1 DEF RecordsInv, WayInv
<1>3. /\ r.chain_length = chain_index
      /\ r.first_entry_index = IF buckets[b] = NULL THEN SizeMax ELSE entry_index - chain_index
      /\ r \in [first_entry_index : Nat, chain_length : Nat]
  <2>1. entry_index - chain_index \in Nat /\ SizeMax \in Nat
    BY <1>2, CapacityFacts
  <2> QED
    BY <1>2, <2>1 DEF BucketRecord
<1> HIDE DEF r
<1>4. /\ bucket_records' \in Seq([first_entry_index : Nat, chain_length : Nat])
      /\ Len(bucket_records') = b + 1
      /\ \A k \in 1..b : bucket_records'[k] = B[k]
      /\ bucket_records'[b + 1] = r
  BY <1>1, <1>2, <1>3
<1>5. chain_index = 0 <=> buckets[b] = NULL
  <2>1. ASSUME chain_index # 0 PROVE buckets[b] # NULL
    <3>1. 0 \in 0..(chain_index - 1) /\ (entry_index - chain_index) + 0 + 1 \in 1..entry_index
      BY <1>2, <2>1
    <3>2. entry_records[(entry_index - chain_index) + 0 + 1].entry_id = buckets[b]
      BY <1>2, <3>1 DEF ChainRecords
    <3>3. entry_records[(entry_index - chain_index) + 0 + 1] \in RecordType
      BY <1>2, <3>1 DEF RecordsInv
    <3> QED
      BY <3>2, <3>3, NodesAssumption DEF RecordType
  <2> QED
    BY <1>2, <2>1 DEF ChainRecords
<1>6. ASSUME NEW k \in 0..b PROVE BucketTold(k)'
  <2>1. CASE k = b
    <3>1. /\ r.chain_length \in Nat /\ (r.chain_length = 0 <=> buckets[k] = NULL)
          /\ bucket_records'[k + 1] = r
      BY <1>2, <1>3, <1>4, <1>5, <2>1
    <3>2. r.chain_length # 0 =>
             ChainRecords(entry_records, k, r.first_entry_index, r.chain_length, NULL)
      BY <1>2, <1>3, <1>5, <2>1
    <3>3. Tells(bucket_records'[k + 1], entry_records', k)
      BY <1>1, <3>1, <3>2 DEF Tells
    <3> QED
      BY <1>1, <3>3 DEF BucketTold, Tells, ChainRecords
  <2>2. CASE k # b
    <3>1. k \in 0..(b - 1) /\ k + 1 \in 1..b
      BY <1>1, <2>2
    <3>2. BucketTold(k) /\ bucket_records'[k + 1] = B[k + 1]
      BY <1>2, <1>4, <3>1
    <3>3. Tells(bucket_records'[k + 1], entry_records', k)
      BY <1>1, <3>2 DEF BucketTold
    <3> QED
      BY <1>1, <3>3 DEF BucketTold, Tells, ChainRecords
  <2> QED
    BY <2>1, <2>2
<1>7. \A k \in 0..(Len(bucket_records') - 1) : BucketTold(k)'
  BY <1>1, <1>4, <1>6
<1>8. KeysInRow' /\ (entry_index = 0 => key_offset = 0)'
      /\ entry_records' \in Seq(RecordType)' /\ Len(entry_records') = entry_index'
  BY <1>1 DEF RecordsInv, KeysInRow, RecordType, Buckets
<1>9. CASE b + 1 < Capacity
  <2>1. /\ bucket_index' = b + 1 /\ entry' = buckets[b + 1] /\ chain_index' = 0
        /\ pass' = "filling"
    BY <1>1, <1>9 DEF FillNextBucket
  <2>2. ChainRecords(entry_records', bucket_index', entry_index' - chain_index',
                     chain_index', entry')
    <3>1. entry_index - 0 = entry_index /\ entry_index + 0 = entry_index /\ 0..(0 - 1) = {}
      BY <1>2
    <3> QED
      BY <1>1, <1>2, <2>1, <3>1 DEF ChainRecords
  <2>3. ChainRecords(entry_records, bucket_index, entry_index - chain_index,
                     chain_index, entry)'
    BY <1>1, <2>2 DEF ChainRecords
  <2> QED
    BY <1>1, <1>2, <1>4, <1>7, <1>8, <2>1, <2>3 DEF RecordsInv
<1>10. CASE ~(b + 1 < Capacity)
  <2>1. pass' = "OK" /\ UNCHANGED chain_index /\ b + 1 = Capacity
    BY <1>1, <1>10, CapacityFacts DEF FillNextBucket, Returns
  <2> QED
    BY <1>1, <1>2, <1>4, <1>7, <1>8, <2>1 DEF RecordsInv
<1> QED
  BY <1>9, <1>10

\* The second pass begins at the first bucket; every other step writes nothing.
LEMMA NextRecordsInv ==
    ASSUME Pointers, PlaceInv, WayInv, RecordsInv, [Next]_vars
    PROVE  RecordsInv'
<1>1. CASE Fill
  BY <1>1, FillKeeps
<1>2. CASE FillNextBucket
  BY <1>2, FillNextBucketKeeps
<1>3. ASSUME UNCHANGED <<next, buckets, written>>,
             \/ UNCHANGED <<pass, bucket_index, entry>>
             \/ {pass, pass'} \cap {"filling", "OK"} = {}
      PROVE  RecordsInv'
  <2>1. UNCHANGED <<next, buckets, chain_index, entry_index, key_offset, bucket_records,
                    entry_records>>
    BY <1>3 DEF written
  <2>2. KeysInRow' /\ (entry_index = 0 => key_offset = 0)'
        /\ entry_records' \in Seq(RecordType)' /\ Len(entry_records') = entry_index'
        /\ bucket_records' \in Seq([first_entry_index : Nat, chain_length : Nat])
        /\ chain_index' \in Nat
    BY <2>1 DEF RecordsInv, KeysInRow, RecordType, Buckets
  <2>3. ASSUME NEW b \in 0..(Len(bucket_records') - 1) PROVE BucketTold(b)'
    <3>1. Tells(bucket_records'[b + 1], entry_records', b)
      BY <2>1 DEF RecordsInv, BucketTold
    <3> QED
      BY <2>1, <3>1 DEF BucketTold, Tells, ChainRecords
  <2>4. CASE UNCHANGED <<pass, bucket_index, entry>>
    BY SMTT(30), <2>1, <2>2, <2>3, <2>4 DEF RecordsInv, ChainRecords
  <2>5. CASE {pass, pass'} \cap {"filling", "OK"} = {}
    <3>1. pass \notin {"filling", "OK"} /\ pass' # "filling" /\ pass' # "OK"
      BY <2>5
    <3> QED
      BY <2>1, <2>2, <2>3, <3>1 DEF RecordsInv
  <2> QED
    BY <1>3, <2>4, <2>5
<1>4. CASE CheckChain
  BY <1>3, <1>4 DEF CheckChain, Advance, EndOfChain
<1>5. CASE IsChecked
  BY <1>3, <1>5 DEF IsChecked, Returns, cyclevars
<1>6. CASE Count
  BY <1>3, <1>6 DEF Count, Returns, cyclevars
<1>7. CASE CountNextBucket
  BY <1>3, <1>7 DEF CountNextBucket, cyclevars
<1>8. CASE Allocate
  <2>1. CASE pass' = "filling"
    <3>1. /\ pass = "allocating" /\ bucket_index' = 0 /\ entry' = buckets[0]
          /\ UNCHANGED <<next, buckets, written>>
      BY <1>8, <2>1 DEF Allocate, Returns, cyclevars
    <3>2. /\ bucket_records = <<>> /\ chain_index = 0 /\ entry_index = 0
          /\ Len(entry_records) = 0 /\ Len(bucket_records) = 0
      BY <3>1 DEF RecordsInv, WayInv
    <3>3. /\ 0 - 0 = 0 /\ 0 + 0 = 0 /\ 0..(0 - 1) = {} /\ 0 \in Nat /\ 0 <= 0
      OBVIOUS
    <3>4. ChainRecords(entry_records', bucket_index', entry_index' - chain_index',
                       chain_index', entry')
      BY <3>1, <3>2, <3>3 DEF ChainRecords, written
    <3>5. ChainRecords(entry_records, bucket_index, entry_index - chain_index,
                       chain_index, entry)'
      BY <3>1, <3>4 DEF ChainRecords
    <3> QED
      BY <2>1, <3>1, <3>2, <3>3, <3>5
         DEF RecordsInv, KeysInRow, RecordType, Buckets, written
  <2>2. CASE pass' # "filling"
    BY <1>3, <1>8, <2>2 DEF Allocate, Returns, cyclevars
  <2> QED
    BY <2>1, <2>2
<1>9. CASE UNCHANGED vars
  BY <1>3, <1>9 DEF vars, cyclevars
<1> QED
  BY <1>1, <1>2, <1>4, <1>5, <1>6, <1>7, <1>8, <1>9 DEF Next

-----------------------------------------------------------------------------
(* Sums over finite sets. *)

\* What holds for 0 and, with a number, for the next one, holds for all numbers.
LEMMA AllNumbers ==
    ASSUME NEW H, 0 \in H, \A n \in Nat : n \in H => n + 1 \in H
    PROVE  Nat \subseteq H
<1> DEFINE T == Nat \ H
<1> SUFFICES ASSUME T # {} PROVE FALSE
  OBVIOUS
<1>1. T \subseteq Nat
  OBVIOUS
<1>2. \E x \in T : \A y \in T : ~ (<<y, x>> \in OpToRel(<, Nat))
  BY <1>1, NatLessThanWellFounded, WFMin
<1>3. PICK x \in T : \A y \in T : ~ (y < x)
  BY <1>1, <1>2 DEF OpToRel
<1>4. x # 0 /\ x - 1 \in Nat /\ x - 1 < x /\ (x - 1) + 1 = x
  BY <1>3
<1>5. x - 1 \in H
  BY <1>3, <1>4
<1> QED
  BY <1>3, <1>4, <1>5

\* The element that a fold takes next, and the sum over s, given those over smaller sets.
NextOf(s) == CHOOSE x \in s : TRUE

AddsUp(f, g, s) == IF s = {} THEN 0 ELSE f[NextOf(s)] + g[s \ {NextOf(s)}]

FoldsUp(f, S, g) == g = [s \in SUBSET S |-> AddsUp(f, g, s)]

LEMMA SumIsFold ==
    ASSUME NEW f, NEW S
    PROVE  SumFunctionOnSet(f, S) = (CHOOSE g : FoldsUp(f, S, g))[S]
  BY DEF SumFunctionOnSet, FoldFunctionOnSet, MapThenFoldSet, FoldsUp, AddsUp, NextOf

LEMMA NextOfIsIn == \A s : s # {} => NextOf(s) \in s
  BY DEF NextOf

\* The subsets of S of n elements at the most.
Small(S, n) == {s \in SUBSET S : Cardinality(s) <= n}

LEMMA SmallFacts ==
    ASSUME NEW S, IsFiniteSet(S)
    PROVE  /\ \A s \in SUBSET S : IsFiniteSet(s) /\ Cardinality(s) \in Nat
           /\ \A s \in SUBSET S : \A x \in s :
                 s \ {x} \in SUBSET S /\ Cardinality(s \ {x}) = Cardinality(s) - 1
           /\ Small(S, 0) = {{}}
           /\ \A n \in Nat : \A s \in Small(S, n + 1) : \A x \in s : s \ {x} \in Small(S, n)
           /\ \A n \in Nat : Small(S, n) \subseteq Small(S, n + 1)
           /\ Small(S, Cardinality(S)) = SUBSET S
<1>1. \A s \in SUBSET S : IsFiniteSet(s) /\ Cardinality(s) \in Nat
  BY FS_Subset, FS_CardinalityType
<1>2. \A s \in SUBSET S : \A x \in s :
         s \ {x} \in SUBSET S /\ Cardinality(s \ {x}) = Cardinality(s) - 1
  BY <1>1, FS_RemoveElement
<1>3. Small(S, 0) = {{}}
  <2>1. \A s \in SUBSET S : Cardinality(s) <= 0 <=> s = {}
    BY <1>1, FS_EmptySet
  <2> QED
    BY <2>1 DEF Small
<1>4. \A n \in Nat : \A s \in Small(S, n + 1) : \A x \in s : s \ {x} \in Small(S, n)
  <2> TAKE n \in Nat
  <2> TAKE s \in Small(S, n + 1)
  <2> TAKE x \in s
  <2>1. s \in SUBSET S /\ Cardinality(s) \in Nat /\ Cardinality(s) <= n + 1
    BY <1>1 DEF Small
  <2>2. s \ {x} \in SUBSET S /\ Cardinality(s \ {x}) = Cardinality(s) - 1
    BY <1>2, <2>1
  <2>3. Cardinality(s \ {x}) <= n
    BY <2>1, <2>2
  <2> QED
    BY <2>2, <2>3 DEF Small
<1>5. \A n \in Nat : Small(S, n) \subseteq Small(S, n + 1)
  BY <1>1 DEF Small
<1>6. Small(S, Cardinality(S)) = SUBSET S
  BY FS_Subset DEF Small
<1> QED
  BY <1>1, <1>2, <1>3, <1>4, <1>5, <1>6

\* The fold exists: its sums over sets of n elements lead to those over sets of one more.
Begun(f, S, n, g) == g = [s \in Small(S, n) |-> AddsUp(f, g, s)]

LEMMA FoldExists ==
    ASSUME NEW f, NEW S, IsFiniteSet(S)
    PROVE  \E g : FoldsUp(f, S, g)
<1> DEFINE H == {n \in Nat : \E g : Begun(f, S, n, g)}
<1>1. 0 \in H
  <2> DEFINE g == [s \in Small(S, 0) |-> 0]
  <2>1. Begun(f, S, 0, g)
    BY SmallFacts DEF Begun, AddsUp
  <2> QED
    BY <2>1
<1>2. ASSUME NEW n \in Nat, n \in H PROVE n + 1 \in H
  <2>1. PICK g : Begun(f, S, n, g)
    BY <1>2
  <2> DEFINE h == [s \in Small(S, n + 1) |-> AddsUp(f, g, s)]
  <2>2. \A s \in Small(S, n) : h[s] = g[s]
    BY <2>1, SmallFacts DEF Begun
  <2>3. \A s \in Small(S, n + 1) : s # {} => s \ {NextOf(s)} \in Small(S, n)
    BY NextOfIsIn, SmallFacts
  <2>4. \A s \in Small(S, n + 1) : h[s] = AddsUp(f, h, s)
    BY <2>2, <2>3 DEF AddsUp
  <2>5. h = [s \in Small(S, n + 1) |-> h[s]]
    OBVIOUS
  <2> HIDE DEF h
  <2>6. Begun(f, S, n + 1, h)
    BY <2>4, <2>5 DEF Begun
  <2> QED
    BY <2>6
<1> HIDE DEF H
<1>3. Cardinality(S) \in H
  BY <1>1, <1>2, AllNumbers, FS_CardinalityType
<1>4. PICK g : Begun(f, S, Cardinality(S), g)
  BY <1>3 DEF H
<1> QED
  BY <1>4, SmallFacts DEF Begun, FoldsUp

\* Every set's sum is that of any element and the rest.
Sums(f, S, g) ==
    /\ g[{}] = 0
    /\ \A s \in SUBSET S : g[s] \in Nat
    /\ \A s \in SUBSET S : \A x \in s : g[s] = f[x] + g[s \ {x}]

LEMMA FoldSums ==
    ASSUME NEW f, NEW S, IsFiniteSet(S), \A x \in S : f[x] \in Nat, NEW g, FoldsUp(f, S, g)
    PROVE  Sums(f, S, g)
<1> DEFINE Good(s) == g[s] \in Nat /\ \A x \in s : g[s] = f[x] + g[s \ {x}]
           H == {n \in Nat : \A s \in Small(S, n) : Good(s)}
<1>0. \A s \in SUBSET S : g[s] = AddsUp(f, g, s)
  BY DEF FoldsUp
<1>1. g[{}] = 0 /\ 0 \in H
  <2>1. {} \in SUBSET S /\ g[{}] = 0
    BY <1>0 DEF AddsUp
  <2>2. \A s \in Small(S, 0) : s = {}
    BY SmallFacts
  <2>3. Good({})
    BY <2>1
  <2>4. \A s \in Small(S, 0) : Good(s)
    BY <2>2, <2>3
  <2> HIDE DEF Good
  <2> QED
    BY <2>1, <2>4
<1>2. ASSUME NEW n \in Nat, n \in H PROVE n + 1 \in H
  <2>0. Good({}) /\ n + 1 \in Nat
    BY <1>1
  <2> SUFFICES ASSUME NEW s \in Small(S, n + 1), s # {} PROVE Good(s)
    BY <2>0
  <2> DEFINE y == NextOf(s)
             r == s \ {y}
  <2>1. y \in s /\ s \in SUBSET S /\ r \in Small(S, n)
    BY NextOfIsIn, SmallFacts DEF Small
  <2>2. g[s] = f[y] + g[r]
    BY <1>0, <2>1 DEF AddsUp
  <2>3. f[y] \in Nat /\ g[r] \in Nat /\ Good(r)
    BY <1>2, <2>1
  <2>4. g[s] \in Nat
    BY <2>2, <2>3
  <2>5. ASSUME NEW x \in s, x # y PROVE g[s] = f[x] + g[s \ {x}]
    <3> DEFINE q == s \ {x}
    <3>1. q \in Small(S, n) /\ Good(q)
      BY <1>2, SmallFacts
    <3>2. x \in r /\ y \in q /\ r \ {x} = q \ {y}
      BY <2>1, <2>5
    <3>3. g[r] = f[x] + g[r \ {x}] /\ g[q] = f[y] + g[r \ {x}]
      BY <2>3, <3>1, <3>2
    <3>4. r \ {x} \in SUBSET S /\ r \ {x} \in Small(S, n)
      <4>1. r \ {x} \in SUBSET S /\ Cardinality(r \ {x}) = Cardinality(r) - 1
        <5>1. r \in SUBSET S
          BY <2>1
        <5> HIDE DEF r
        <5> QED
          BY <3>2, <5>1, SmallFacts
      <4>2. Cardinality(r) <= n /\ Cardinality(r) \in Nat
        BY <2>1, SmallFacts DEF Small
      <4>3. Cardinality(r \ {x}) <= n
        BY <4>1, <4>2
      <4> QED
        BY <4>1, <4>3 DEF Small
    <3>5. g[r \ {x}] \in Nat /\ f[x] \in Nat
      BY <1>2, <2>1, <3>4
    <3> DEFINE t == g[r \ {x}]
               a == f[x]
               b == f[y]
    <3>6. t \in Nat /\ a \in Nat /\ b \in Nat /\ g[r] = a + t /\ g[q] = b + t /\ g[s] = b + g[r]
      BY <2>2, <2>3, <3>3, <3>5
    <3> HIDE DEF t, a, b, q, r, y
    <3>7. g[s] = a + g[q]
      BY <3>6
    <3> QED
      BY <3>7 DEF a, q
  <2> QED
    BY <2>2, <2>4, <2>5
<1> HIDE DEF H
<1>3. Cardinality(S) \in H
  BY <1>1, <1>2, AllNumbers, FS_CardinalityType
<1>4. \A s \in SUBSET S : Good(s)
  BY <1>3, SmallFacts DEF H
<1> QED
  BY <1>1, <1>4 DEF Sums

\* There is one such function.
LEMMA SumsAgree ==
    ASSUME NEW f, NEW S, IsFiniteSet(S), NEW T \in SUBSET S, NEW g, Sums(f, S, g),
           NEW h, Sums(f, T, h)
    PROVE  g[T] = h[T]
<1> DEFINE H == {n \in Nat : \A s \in Small(T, n) : g[s] = h[s]}
<1>0. IsFiniteSet(T)
  BY FS_Subset
<1>1. 0 \in H
  <2>1. \A s \in Small(T, 0) : s = {}
    BY <1>0, SmallFacts
  <2> QED
    BY <2>1 DEF Sums
<1>2. ASSUME NEW n \in Nat, n \in H PROVE n + 1 \in H
  <2>0. g[{}] = h[{}] /\ n + 1 \in Nat
    BY DEF Sums
  <2> SUFFICES ASSUME NEW s \in Small(T, n + 1), s # {} PROVE g[s] = h[s]
    BY <2>0
  <2>1. PICK x \in s : TRUE
    OBVIOUS
  <2>2. s \in SUBSET T /\ s \in SUBSET S /\ s \ {x} \in Small(T, n)
    BY <1>0, <2>1, SmallFacts DEF Small
  <2>3. g[s] = f[x] + g[s \ {x}] /\ h[s] = f[x] + h[s \ {x}]
    BY <2>1, <2>2 DEF Sums
  <2> QED
    BY <1>2, <2>2, <2>3
<1> HIDE DEF H
<1>3. Cardinality(T) \in H
  BY <1>0, <1>1, <1>2, AllNumbers, FS_CardinalityType
<1> QED
  BY <1>0, <1>3, SmallFacts DEF H

\* So a sum is that of any element and the rest.
LEMMA SumFacts ==
    ASSUME NEW f, NEW S, IsFiniteSet(S), \A x \in S : f[x] \in Nat
    PROVE  /\ SumFunctionOnSet(f, S) \in Nat
           /\ S = {} => SumFunctionOnSet(f, S) = 0
           /\ \A x \in S : SumFunctionOnSet(f, S) = f[x] + SumFunctionOnSet(f, S \ {x})
<1> DEFINE G(T) == CHOOSE g : FoldsUp(f, T, g)
<1>1. ASSUME NEW T \in SUBSET S
      PROVE  SumFunctionOnSet(f, T) = G(T)[T] /\ Sums(f, T, G(T))
  <2>1. IsFiniteSet(T) /\ \A x \in T : f[x] \in Nat
    BY FS_Subset
  <2>2. FoldsUp(f, T, G(T))
    BY <2>1, FoldExists
  <2>3. Sums(f, T, G(T))
    BY <2>1, <2>2, FoldSums
  <2> QED
    BY <2>3, SumIsFold
<1> HIDE DEF G
<1>2. ASSUME NEW T \in SUBSET S PROVE SumFunctionOnSet(f, T) = G(S)[T]
  <2>1. Sums(f, S, G(S)) /\ Sums(f, T, G(T)) /\ SumFunctionOnSet(f, T) = G(T)[T]
    BY <1>1
  <2>2. G(S)[T] = G(T)[T]
    BY <2>1, SumsAgree
  <2> QED
    BY <2>1, <2>2
<1>3. Sums(f, S, G(S))
  BY <1>1
<1>4. \A x \in S : SumFunctionOnSet(f, S \ {x}) = G(S)[S \ {x}]
  BY <1>2
<1>5. SumFunctionOnSet(f, S) = G(S)[S]
  BY <1>1
<1> QED
  BY <1>3, <1>4, <1>5 DEF Sums

-----------------------------------------------------------------------------
(* What the first pass counts is what the chains hold. *)

\* What a function of the buckets adds up to from a bucket on.
FromOn(f, b) == SumFunctionOnSet(f, b..(Capacity - 1))

\* The rest of the chain that is being counted.
Ahead(n) == Reached(n) \ {NULL}

\* Nothing is counted twice: what has been counted and what is still ahead is the table.
CountInv ==
    /\ pass = "checking" =>
          /\ entry_count + FromOn(ChainLengths, bucket_index) = SumFunction(ChainLengths)
          /\ key_bytes + FromOn(ChainBytes, bucket_index) = SumFunction(ChainBytes)
    /\ pass = "counting" =>
          /\ entry_count + (Cardinality(Ahead(entry)) + FromOn(ChainLengths, bucket_index + 1))
                = SumFunction(ChainLengths)
          /\ key_bytes + (SumFunctionOnSet(KeySize, Ahead(entry))
                             + FromOn(ChainBytes, bucket_index + 1))
                = SumFunction(ChainBytes)
    /\ pass \in {"allocating", "filling", "OK", "NO_MEMORY"} =>
          entry_count = SumFunction(ChainLengths) /\ key_bytes = SumFunction(ChainBytes)
    /\ pass \in {"filling", "OK", "NO_MEMORY"} => LayoutFits(Capacity, entry_count, key_bytes)
    /\ pass = "OVERFLOW" => TableSize > SizeMax

\* What is ahead is finite.
LEMMA AheadFacts ==
    ASSUME Pointers, NEW n \in Links
    PROVE  /\ IsFiniteSet(Ahead(n)) /\ Ahead(n) \in SUBSET Nodes
           /\ Cardinality(Ahead(n)) \in Nat
           /\ SumFunctionOnSet(KeySize, Ahead(n)) \in Nat
<1>1. Ahead(n) \in SUBSET Nodes
  BY ReachedFacts DEF Ahead, Links
<1>2. IsFiniteSet(Ahead(n))
  BY <1>1, NodesAssumption, FS_Subset
<1>3. \A x \in Ahead(n) : KeySize[x] \in Nat
  BY <1>1, CapacityFacts
<1> QED
  BY <1>1, <1>2, <1>3, FS_CardinalityType, SumFacts

\* The chain is one entry and what follows it, if the chain ends: an entry that follows
\* itself would never lead to the end.
LEMMA EntersOnce ==
    ASSUME Pointers, NEW n \in Nodes, NULL \in Reached(n)
    PROVE  /\ n \in Ahead(n) /\ Ahead(next[n]) = Ahead(n) \ {n}
           /\ Cardinality(Ahead(n)) = 1 + Cardinality(Ahead(next[n]))
           /\ SumFunctionOnSet(KeySize, Ahead(n))
                 = KeySize[n] + SumFunctionOnSet(KeySize, Ahead(next[n]))
<1>0. n \in Links /\ next[n] \in Links /\ n # NULL
  BY ReachedStep, NodesAssumption DEF Links
<1>1. n \notin Reached(next[n])
  <2> SUFFICES ASSUME n \in Reached(next[n]) PROVE FALSE
    OBVIOUS
  <2> DEFINE S == {m \in Links : n \in Reached(m)}
  <2>1. n \in S
    BY <1>0, ReachedFacts
  <2>2. \A m \in S \cap Nodes : next[m] \in S
    BY ReachedStep
  <2>3. Closed(S)
    BY <2>2 DEF Closed
  <2> HIDE DEF S
  <2>4. S \in SUBSET Links
    BY DEF S
  <2>5. NULL \in S
    BY <1>0, <2>1, <2>3, <2>4, ReachedFacts
  <2> QED
    BY <1>0, <2>5, ReachedEnd DEF S
<1>2. n \in Ahead(n) /\ Ahead(next[n]) = Ahead(n) \ {n}
  BY <1>0, <1>1, ReachedStep, ReachedFacts DEF Ahead
<1>3. Cardinality(Ahead(n)) = 1 + Cardinality(Ahead(next[n]))
  <2>1. IsFiniteSet(Ahead(n)) /\ Cardinality(Ahead(n)) \in Nat
        /\ Cardinality(Ahead(next[n])) \in Nat
    BY <1>0, AheadFacts
  <2>2. Cardinality(Ahead(next[n])) = Cardinality(Ahead(n)) - 1
    BY <1>2, <2>1, FS_RemoveElement
  <2> QED
    BY <2>1, <2>2
<1>4. SumFunctionOnSet(KeySize, Ahead(n)) = KeySize[n] + SumFunctionOnSet(KeySize, Ahead(next[n]))
  <2>1. IsFiniteSet(Ahead(n)) /\ \A x \in Ahead(n) : KeySize[x] \in Nat
    BY <1>0, AheadFacts, CapacityFacts
  <2> QED
    BY <1>2, <2>1, SumFacts
<1> QED
  BY <1>2, <1>3, <1>4

\* The end has nothing ahead.
LEMMA NothingAhead ==
    ASSUME Pointers
    PROVE  Cardinality(Ahead(NULL)) = 0 /\ SumFunctionOnSet(KeySize, Ahead(NULL)) = 0
<1>1. Ahead(NULL) = {}
  BY ReachedEnd DEF Ahead
<1> QED
  BY <1>1, FS_EmptySet, SumFacts

\* The functions of the buckets, and what they add up to.
LEMMA BucketSums ==
    ASSUME Pointers
    PROVE  /\ \A b \in Buckets :
                 /\ ChainLengths[b] = Cardinality(Ahead(buckets[b]))
                 /\ ChainBytes[b] = SumFunctionOnSet(KeySize, Ahead(buckets[b]))
                 /\ ChainLengths[b] \in Nat /\ ChainBytes[b] \in Nat
           /\ FromOn(ChainLengths, 0) = SumFunction(ChainLengths)
           /\ FromOn(ChainBytes, 0) = SumFunction(ChainBytes)
           /\ \A b \in Buckets :
                 /\ FromOn(ChainLengths, b) = ChainLengths[b] + FromOn(ChainLengths, b + 1)
                 /\ FromOn(ChainBytes, b) = ChainBytes[b] + FromOn(ChainBytes, b + 1)
           /\ FromOn(ChainLengths, Capacity) = 0 /\ FromOn(ChainBytes, Capacity) = 0
           /\ \A b \in 0..Capacity : /\ FromOn(ChainLengths, b) \in Nat
                                     /\ FromOn(ChainBytes, b) \in Nat
<1>1. \A b \in Buckets :
         /\ ChainLengths[b] = Cardinality(Ahead(buckets[b]))
         /\ ChainBytes[b] = SumFunctionOnSet(KeySize, Ahead(buckets[b]))
         /\ ChainLengths[b] \in Nat /\ ChainBytes[b] \in Nat
  BY AheadFacts DEF ChainLengths, ChainBytes, Chain, Ahead, Pointers
<1>2. DOMAIN ChainLengths = Buckets /\ DOMAIN ChainBytes = Buckets
  BY DEF ChainLengths, ChainBytes
<1> HIDE DEF ChainLengths, ChainBytes
<1>3. ASSUME NEW f, \A b \in Buckets : f[b] \in Nat
      PROVE  /\ \A b \in Buckets : FromOn(f, b) = f[b] + FromOn(f, b + 1)
             /\ FromOn(f, Capacity) = 0
             /\ \A b \in 0..Capacity : FromOn(f, b) \in Nat
  <2>1. ASSUME NEW b \in 0..Capacity
        PROVE  /\ IsFiniteSet(b..(Capacity - 1)) /\ b..(Capacity - 1) \subseteq Buckets
               /\ FromOn(f, b) \in Nat
    <3>1. b \in Nat /\ b \in Int /\ Capacity - 1 \in Int
      BY CapacityFacts
    <3>2. IsFiniteSet(b..(Capacity - 1)) /\ b..(Capacity - 1) \subseteq Buckets
      BY <3>1, FS_Interval DEF Buckets
    <3> QED
      BY <1>3, <3>2, SumFacts DEF FromOn
  <2>2. ASSUME NEW b \in Buckets PROVE FromOn(f, b) = f[b] + FromOn(f, b + 1)
    <3>1. b \in 0..Capacity /\ b \in b..(Capacity - 1)
          /\ (b + 1)..(Capacity - 1) = (b..(Capacity - 1)) \ {b}
      BY CapacityFacts
    <3> DEFINE S == b..(Capacity - 1)
    <3>2. IsFiniteSet(S) /\ b \in S /\ \A x \in S : f[x] \in Nat
      BY <1>3, <2>1, <3>1
    <3>3. FromOn(f, b) = SumFunctionOnSet(f, S)
          /\ FromOn(f, b + 1) = SumFunctionOnSet(f, S \ {b})
      BY <3>1 DEF FromOn
    <3> HIDE DEF S
    <3> QED
      BY <3>2, <3>3, SumFacts
  <2>3. FromOn(f, Capacity) = 0
    <3>1. Capacity..(Capacity - 1) = {} /\ IsFiniteSet({})
      BY CapacityFacts, FS_EmptySet
    <3> QED
      BY <3>1, SumFacts DEF FromOn
  <2> QED
    BY <2>1, <2>2, <2>3
<1>4. FromOn(ChainLengths, 0) = SumFunction(ChainLengths)
      /\ FromOn(ChainBytes, 0) = SumFunction(ChainBytes)
  BY <1>2 DEF FromOn, SumFunction, Buckets
<1> QED
  BY <1>1, <1>3, <1>4

\* A table that has more entries than a size_t can count, or more bytes of keys, is larger
\* than any arena.
LEMMA TableIsLarger ==
    ASSUME NEW n \in Nat, NEW k \in Nat
    PROVE  TrueSize(Capacity, n, k) \in Nat /\ n <= TrueSize(Capacity, n, k)
           /\ k <= TrueSize(Capacity, n, k)
<1>1. /\ TrueKeys(Capacity, n) \in Nat /\ TrueSize(Capacity, n, k) = TrueKeys(Capacity, n) + k
      /\ TrueEntries(Capacity) \in Nat /\ n * EntrySize \in Nat
  <2>1. Capacity \in Nat
    BY CapacityFacts
  <2> QED
    BY <2>1, TrueOffsets
<1>2. n <= n * EntrySize
  BY LayoutAssumption
<1>3. TrueKeys(Capacity, n) = TrueEntries(Capacity) + n * EntrySize
  BY DEF TrueKeys
<1> DEFINE m == n * EntrySize
<1> HIDE DEF m
<1>4. n <= TrueKeys(Capacity, n)
  BY <1>1, <1>2, <1>3 DEF m
<1> QED
  BY <1>1, <1>4

\* At first everything is ahead.
LEMMA InitCountInv == Init => CountInv
<1> SUFFICES ASSUME Init PROVE CountInv
  OBVIOUS
<1>1. Pointers
  BY InitCycleInv DEF CycleInv
<1>2. pass = "checking" /\ bucket_index = 0 /\ entry_count = 0 /\ key_bytes = 0
  BY DEF Init
<1>3. /\ FromOn(ChainLengths, 0) = SumFunction(ChainLengths)
      /\ FromOn(ChainBytes, 0) = SumFunction(ChainBytes)
      /\ FromOn(ChainLengths, 0) \in Nat /\ FromOn(ChainBytes, 0) \in Nat
  BY <1>1, BucketSums, CapacityFacts
<1> QED
  BY <1>2, <1>3 DEF CountInv

\* The table does not change.
LEMMA SameTable ==
    ASSUME UNCHANGED <<next, buckets>>
    PROVE  /\ UNCHANGED <<ChainLengths, ChainBytes, TableSize>>
           /\ \A n : Ahead(n)' = Ahead(n)
<1>1. \A n : Reached(n)' = Reached(n)
  BY DEF Reached, Closed
<1>2. ChainLengths' = ChainLengths /\ ChainBytes' = ChainBytes
  BY <1>1 DEF ChainLengths, ChainBytes, Chain, Reached, Closed, Links, Buckets
<1>3. TableSize' = TableSize
  BY <1>2 DEF TableSize
<1>4. \A n : Ahead(n)' = Ahead(n)
  BY <1>1 DEF Ahead
<1> QED
  BY <1>2, <1>3, <1>4

\* Each step counts what it passes, and gives up only when the table is too large.
LEMMA NextCountInv ==
    ASSUME CycleInv, PlaceInv, CountInv, [Next]_vars
    PROVE  CountInv'
<1> DEFINE SL == SumFunction(ChainLengths)
           SB == SumFunction(ChainBytes)
           L(b) == FromOn(ChainLengths, b)
           B(b) == FromOn(ChainBytes, b)
           C(n) == Cardinality(Ahead(n))
           K(n) == SumFunctionOnSet(KeySize, Ahead(n))
<1>0. Pointers
  BY DEF CycleInv
<1>1. UNCHANGED <<next, buckets>>
  BY DEF Next, vars, cyclevars, CheckChain, Advance, EndOfChain, IsChecked, Count,
         CountNextBucket, Allocate, Fill, FillNextBucket
<1>2. /\ SL' = SL /\ SB' = SB /\ TableSize' = TableSize
      /\ \A b : FromOn(ChainLengths, b)' = FromOn(ChainLengths, b)
      /\ \A b : FromOn(ChainBytes, b)' = FromOn(ChainBytes, b)
      /\ \A n : Ahead(n)' = Ahead(n)
  BY <1>1, SameTable DEF FromOn
<1>3. /\ SL \in Nat /\ SB \in Nat
      /\ \A b \in Buckets : L(b) = C(buckets[b]) + L(b + 1) /\ B(b) = K(buckets[b]) + B(b + 1)
      /\ \A b \in 0..Capacity : L(b) \in Nat /\ B(b) \in Nat
      /\ L(Capacity) = 0 /\ B(Capacity) = 0
  BY <1>0, BucketSums, CapacityFacts
<1>4. /\ entry_count \in Nat /\ entry_count <= SizeMax /\ SizeMax \in Nat
      /\ key_bytes \in Nat /\ key_bytes <= SizeMax
      /\ Capacity \in Nat
      /\ \A b \in Buckets : b \in Nat /\ b + 1 \in 0..Capacity /\ b \in 0..Capacity
  BY CapacityFacts DEF PlaceInv
<1>5. TableSize = TrueSize(Capacity, SL, SB)
  BY DEF TableSize
<1>6. SL <= TableSize /\ SB <= TableSize /\ TableSize \in Nat
  BY <1>3, <1>5, TableIsLarger
<1>7. /\ pass = "checking" => entry_count + L(bucket_index) = SL /\ key_bytes + B(bucket_index) = SB
      /\ pass = "counting" => /\ entry_count + (C(entry) + L(bucket_index + 1)) = SL
                              /\ key_bytes + (K(entry) + B(bucket_index + 1)) = SB
      /\ pass \in {"allocating", "filling", "OK", "NO_MEMORY"} =>
            entry_count = SL /\ key_bytes = SB
      /\ pass \in {"filling", "OK", "NO_MEMORY"} => LayoutFits(Capacity, entry_count, key_bytes)
      /\ pass = "OVERFLOW" => TableSize > SizeMax
  BY DEF CountInv
<1>8. ASSUME /\ pass' = "checking" => /\ entry_count' + L(bucket_index') = SL
                                      /\ key_bytes' + B(bucket_index') = SB
             /\ pass' = "counting" =>
                   /\ entry_count' + (C(entry') + L(bucket_index' + 1)) = SL
                   /\ key_bytes' + (K(entry') + B(bucket_index' + 1)) = SB
             /\ pass' \in {"allocating", "filling", "OK", "NO_MEMORY"} =>
                   entry_count' = SL /\ key_bytes' = SB
             /\ pass' \in {"filling", "OK", "NO_MEMORY"} =>
                   LayoutFits(Capacity, entry_count', key_bytes')
             /\ pass' = "OVERFLOW" => TableSize > SizeMax
      PROVE  CountInv'
  <2>1. /\ FromOn(ChainLengths, bucket_index)' = L(bucket_index')
        /\ FromOn(ChainBytes, bucket_index)' = B(bucket_index')
        /\ FromOn(ChainLengths, bucket_index + 1)' = L(bucket_index' + 1)
        /\ FromOn(ChainBytes, bucket_index + 1)' = B(bucket_index' + 1)
    BY <1>1, SameTable DEF FromOn
  <2>2. Ahead(entry)' = Ahead(entry')
    BY <1>1 DEF Ahead, Reached, Closed
  <2> QED
    BY <1>2, <1>8, <2>1, <2>2 DEF CountInv
<1> HIDE DEF SL, SB, L, B, C, K
<1>9. CASE CheckChain \/ Fill \/ FillNextBucket \/ UNCHANGED vars
  <2>1. /\ UNCHANGED <<entry_count, key_bytes>>
        /\ \/ UNCHANGED <<pass, bucket_index, entry>>
           \/ pass = "filling" /\ pass' \in {"filling", "OK"}
    BY <1>9 DEF CheckChain, Advance, EndOfChain, Fill, FillNextBucket, Returns, vars, counted,
                cyclevars
  <2> QED
    BY <1>7, <1>8, <2>1
<1>10. CASE IsChecked
  <2>1. /\ pass = "checking" /\ UNCHANGED <<entry_count, key_bytes, bucket_index>>
        /\ bucket_index \in Buckets
        /\ \/ pass' = "CORRUPT_STRUCTURE"
           \/ pass' = "counting" /\ entry' = buckets[bucket_index]
    BY <1>10 DEF IsChecked, Returns, counted, PlaceInv
  <2> QED
    BY <1>3, <1>7, <1>8, <2>1
<1>11. CASE Count
  <2>1. pass = "counting" /\ entry \in Nodes /\ bucket_index \in Buckets
        /\ NULL \in Reached(entry) /\ KeySize[entry] \in Nat
    BY <1>11, LinkFacts, CapacityFacts DEF Count, PlaceInv
  <2>2. /\ C(entry) = 1 + C(next[entry]) /\ K(entry) = KeySize[entry] + K(next[entry])
        /\ C(next[entry]) \in Nat /\ K(next[entry]) \in Nat
    BY <1>0, <2>1, EntersOnce, AheadFacts, ReachedStep DEF C, K
  <2> DEFINE l == L(bucket_index + 1)
             b == B(bucket_index + 1)
             c == C(next[entry])
             k == K(next[entry])
             z == KeySize[entry]
  <2>3. /\ l \in Nat /\ b \in Nat /\ c \in Nat /\ k \in Nat /\ z \in Nat
        /\ entry_count + ((1 + c) + l) = SL /\ key_bytes + ((z + k) + b) = SB
    BY <1>3, <1>4, <1>7, <2>1, <2>2
  <2>4. CASE pass' = "counting"
    <3>1. /\ entry_count' = entry_count + 1 /\ key_bytes' = key_bytes + KeySize[entry]
          /\ entry' = next[entry] /\ bucket_index' = bucket_index
      BY <1>0, <1>11, <2>4, CountFacts
    <3>2. (entry_count + 1) + (c + l) = SL /\ (key_bytes + z) + (k + b) = SB
      <4> HIDE DEF l, b, c, k, z
      <4> QED
        BY <1>4, <2>3
    <3> QED
      BY <1>8, <2>4, <3>1, <3>2
  <2>5. CASE pass' # "counting"
    <3>1. pass' = "OVERFLOW" /\ (~CanAdd(entry_count, 1) \/ ~CanAdd(key_bytes, KeySize[entry]))
      BY <1>11, <2>1, <2>5 DEF Count, Returns
    <3>2. entry_count + 1 > SizeMax \/ key_bytes + z > SizeMax
      BY <1>4, <2>1, <3>1, CheckedSum
    <3> HIDE DEF l, b, c, k, z
    <3>3. entry_count + 1 <= SL /\ key_bytes + z <= SB
      BY <1>4, <2>3
    <3>4. TableSize > SizeMax
      BY <1>3, <1>4, <1>6, <2>3, <3>2, <3>3
    <3> QED
      BY <1>8, <3>1, <3>4
  <2> QED
    BY <2>4, <2>5
<1>12. CASE CountNextBucket
  <2>1. /\ pass = "counting" /\ entry = NULL /\ bucket_index \in Buckets
        /\ bucket_index' = bucket_index + 1
        /\ UNCHANGED <<entry_count, key_bytes>>
        /\ \/ pass' = "checking"
           \/ pass' = "allocating" /\ ~(bucket_index' < Capacity)
    BY <1>12 DEF CountNextBucket, PlaceInv, counted
  <2>2. C(entry) = 0 /\ K(entry) = 0
    BY <1>0, <2>1, NothingAhead DEF C, K
  <2>3. entry_count + L(bucket_index + 1) = SL /\ key_bytes + B(bucket_index + 1) = SB
    <3>1. L(bucket_index + 1) \in Nat /\ B(bucket_index + 1) \in Nat
      BY <1>3, <1>4, <2>1
    <3> QED
      BY <1>4, <1>7, <2>1, <2>2, <3>1
  <2>4. CASE pass' = "checking"
    BY <1>8, <2>1, <2>3, <2>4
  <2>5. CASE pass' = "allocating"
    <3>1. bucket_index + 1 = Capacity
      BY <1>4, <2>1, <2>5, CapacityFacts
    <3>2. entry_count = SL /\ key_bytes = SB
      BY <1>3, <1>4, <2>3, <3>1
    <3> QED
      BY <1>8, <2>1, <2>5, <3>2
  <2> QED
    BY <2>1, <2>4, <2>5
<1>13. CASE Allocate
  <2>1. /\ pass = "allocating" /\ UNCHANGED <<entry_count, key_bytes>>
        /\ \/ pass' \in {"filling", "NO_MEMORY"} /\ LayoutFits(Capacity, entry_count, key_bytes)
           \/ pass' = "OVERFLOW" /\ ~LayoutFits(Capacity, entry_count, key_bytes)
    BY <1>13 DEF Allocate, Returns, counted
  <2>2. entry_count = SL /\ key_bytes = SB
    BY <1>7, <2>1
  <2>3. LayoutFits(Capacity, SL, SB) <=> TableSize <= SizeMax
    BY <1>3, <1>4, <1>5, LayoutIsExact
  <2>4. ~LayoutFits(Capacity, entry_count, key_bytes) => TableSize > SizeMax
    BY <1>4, <1>6, <2>2, <2>3
  <2> QED
    BY <1>8, <2>1, <2>2, <2>4
<1> QED
  BY <1>9, <1>10, <1>11, <1>12, <1>13 DEF Next

-----------------------------------------------------------------------------
(* The whole capture. *)

ArenaInv == CycleInv /\ PlaceInv /\ WayInv /\ RecordsInv /\ CountInv

\* The invariant holds in every behaviour.
LEMMA ArenaInvHolds == Spec => []ArenaInv
<1>1. Init => ArenaInv
  BY InitCycleInv, InitPlaceInv, InitWayInv, InitRecordsInv, InitCountInv DEF ArenaInv
<1>2. ArenaInv /\ [Next]_vars => ArenaInv'
  <2> SUFFICES ASSUME ArenaInv, [Next]_vars PROVE ArenaInv'
    OBVIOUS
  <2>0. CycleInv /\ PlaceInv /\ WayInv /\ RecordsInv /\ CountInv /\ AnswerIsRight /\ Pointers
    BY DEF ArenaInv, CycleInv
  <2>1. CycleInv'
    BY <2>0, NextCycleInv DEF PlaceInv
  <2>2. PlaceInv'
    BY <2>0, NextPlaceInv
  <2>3. WayInv'
    BY <2>0, NextWayInv
  <2>4. RecordsInv'
    BY <2>0, NextRecordsInv
  <2>5. CountInv'
    BY <2>0, NextCountInv
  <2> QED
    BY <2>1, <2>2, <2>3, <2>4, <2>5 DEF ArenaInv
<1> QED
  BY <1>1, <1>2, PTL DEF Spec

\* A record is written within the bounds that were counted.
LEMMA FitsTable == ArenaInv => ArenaFitsTheTable
<1> SUFFICES ASSUME ArenaInv PROVE ArenaFitsTheTable
  OBVIOUS
<1>1. pass = "OVERFLOW" => TableSize > SizeMax
  BY DEF ArenaInv, CountInv
<1>2. ASSUME pass \in {"filling", "OK", "NO_MEMORY"}
      PROVE  /\ TableSize <= SizeMax
             /\ RegionsAreSound(Capacity, entry_count, key_bytes)
             /\ EntriesOffset(Capacity) + Len(entry_records) * EntrySize
                   <= KeysOffset(Capacity, entry_count)
             /\ \A i \in DOMAIN entry_records :
                   /\ entry_records[i].key_offset =
                         IF i = 1 THEN 0
                         ELSE entry_records[i - 1].key_offset + entry_records[i - 1].key_size
                   /\ KeysOffset(Capacity, entry_count) + entry_records[i].key_offset
                         + entry_records[i].key_size
                         <= TotalSize(Capacity, entry_count, key_bytes)
  <2>1. /\ entry_count \in Nat /\ key_bytes \in Nat /\ Capacity \in Nat
        /\ LayoutFits(Capacity, entry_count, key_bytes)
        /\ TableSize = TrueSize(Capacity, entry_count, key_bytes)
    BY <1>2, CapacityFacts DEF ArenaInv, CountInv, PlaceInv, TableSize
  <2>2. RegionsAreSound(Capacity, entry_count, key_bytes) /\ TableSize <= SizeMax
    BY <2>1, LayoutIsSound, OffsetsAreTrue
  <2>3. entry_index \in Nat /\ entry_index <= entry_count /\ Len(entry_records) = entry_index
        /\ key_offset \in Nat /\ key_offset <= key_bytes
    <3>1. entry_index \in Nat /\ key_offset \in Nat /\ Len(entry_records) = entry_index
      BY DEF ArenaInv, WayInv, RecordsInv
    <3>2. CASE pass = "filling"
      <4>1. PICK W : Way(W, LastPlace) /\ FilledPlace \in W
        BY <3>2 DEF ArenaInv, WayInv
      <4>2. FilledPlace.count <= LastPlace.count /\ FilledPlace.bytes <= LastPlace.bytes
        BY <4>1 DEF Way
      <4> QED
        BY <3>1, <4>2 DEF FilledPlace, LastPlace, Place
    <3>3. CASE pass # "filling"
      BY <1>2, <2>1, <3>1, <3>3 DEF ArenaInv, WayInv
    <3> QED
      BY <3>2, <3>3
  <2>4. /\ EntriesOffset(Capacity) = TrueEntries(Capacity)
        /\ KeysOffset(Capacity, entry_count) = TrueKeys(Capacity, entry_count)
        /\ TotalSize(Capacity, entry_count, key_bytes)
              = TrueSize(Capacity, entry_count, key_bytes)
    BY <2>1, OffsetsAreTrue
  <2>5. /\ TrueEntries(Capacity) \in Nat /\ TrueKeys(Capacity, entry_count) \in Nat
        /\ TrueSize(Capacity, entry_count, key_bytes)
              = TrueKeys(Capacity, entry_count) + key_bytes
    BY <2>1, TrueOffsets
  <2>6. EntriesOffset(Capacity) + Len(entry_records) * EntrySize
           <= KeysOffset(Capacity, entry_count)
    <3>1. entry_index * EntrySize <= entry_count * EntrySize
          /\ entry_index * EntrySize \in Nat /\ entry_count * EntrySize \in Nat
      BY <2>1, <2>3, LayoutAssumption
    <3>2. TrueKeys(Capacity, entry_count) = TrueEntries(Capacity) + entry_count * EntrySize
      BY DEF TrueKeys
    <3> DEFINE x == entry_index * EntrySize
               y == entry_count * EntrySize
    <3>3. x <= y /\ x \in Nat /\ y \in Nat
          /\ TrueKeys(Capacity, entry_count) = TrueEntries(Capacity) + y
      BY <3>1, <3>2
    <3> HIDE DEF x, y
    <3>4. TrueEntries(Capacity) + x <= TrueKeys(Capacity, entry_count)
      BY <2>5, <3>3
    <3> QED
      BY <2>3, <2>4, <3>4 DEF x
  <2>7. ASSUME NEW i \in DOMAIN entry_records
        PROVE  /\ entry_records[i].key_offset =
                     IF i = 1 THEN 0
                     ELSE entry_records[i - 1].key_offset + entry_records[i - 1].key_size
               /\ KeysOffset(Capacity, entry_count) + entry_records[i].key_offset
                     + entry_records[i].key_size
                     <= TotalSize(Capacity, entry_count, key_bytes)
    <3> DEFINE o == entry_records[i].key_offset
               z == entry_records[i].key_size
    <3>1. /\ o = IF i = 1 THEN 0
                 ELSE entry_records[i - 1].key_offset + entry_records[i - 1].key_size
          /\ o + z <= key_offset
      BY <2>7 DEF ArenaInv, RecordsInv, KeysInRow
    <3>2. o \in Nat /\ z \in Nat
      <4>1. entry_records[i] \in RecordType
        BY <2>7 DEF ArenaInv, RecordsInv
      <4> QED
        BY <4>1 DEF RecordType
    <3> HIDE DEF o, z
    <3>3. o + z <= key_bytes
      BY <2>1, <2>3, <3>1, <3>2
    <3>4. TrueKeys(Capacity, entry_count) + o + z <= TrueKeys(Capacity, entry_count) + key_bytes
      BY <2>1, <2>5, <3>2, <3>3
    <3> QED
      BY <2>4, <2>5, <3>1, <3>4 DEF o, z
  <2> QED
    BY <2>2, <2>6, <2>7
<1> QED
  BY <1>1, <1>2 DEF ArenaFitsTheTable

\* An arena is large enough, and no larger than it may be: what is written lies in the region
\* for it, and a capture reports an overflow exactly for a table whose arena no size_t can
\* measure (hash_snapshot.c:203-303).
THEOREM ArenaFits == Spec => []ArenaFitsTheTable
  BY ArenaInvHolds, FitsTable, PTL

\* A record that is read back is the one that was written at its index.
LEMMA ReadsBack == ArenaInv => ReadsBackTheTable
<1> SUFFICES ASSUME ArenaInv, pass = "OK", NEW b \in Buckets,
                    NEW bucket \in BucketView(b)
             PROVE  LET listed == Listed(bucket)
                    IN /\ bucket.chain_length = 0 <=> buckets[b] = NULL
                       /\ \A i \in DOMAIN listed : \E record \in listed[i] :
                             /\ record.bucket_index = b /\ record.chain_index = i - 1
                             /\ record.key_size = KeySize[record.entry_id]
                             /\ i = 1 => record.entry_id = buckets[b]
                             /\ IF i = Len(listed) THEN next[record.entry_id] = NULL
                                ELSE \A after \in listed[i + 1] :
                                        after.entry_id = next[record.entry_id]
  BY DEF ReadsBackTheTable
<1> DEFINE n == bucket.chain_length
           f == bucket.first_entry_index
           listed == Listed(bucket)
<1>1. /\ b \in Nat /\ b < Capacity /\ bucket = bucket_records[b + 1]
      /\ Len(bucket_records) = Capacity
  BY CapacityFacts DEF BucketView, ArenaInv, RecordsInv
<1>2. n \in Nat /\ (n = 0 <=> buckets[b] = NULL)
      /\ (n # 0 => ChainRecords(entry_records, b, f, n, NULL))
  <2>1. b \in 0..(Len(bucket_records) - 1)
    BY <1>1, CapacityFacts
  <2> QED
    BY <1>1, <2>1 DEF ArenaInv, RecordsInv, BucketTold, Tells
<1>3. /\ entry_count = entry_index /\ Len(entry_records) = entry_index
      /\ entry_count \in Nat /\ entry_count <= SizeMax
      /\ entry_records \in Seq(RecordType)
  BY CapacityFacts DEF ArenaInv, WayInv, RecordsInv, PlaceInv
<1>4. listed = [i \in 1..n |-> EntryView(Plus(f, i - 1))]
  BY DEF Listed
<1> HIDE DEF n, f, listed
<1>5. ASSUME NEW i \in 1..n
      PROVE  /\ n # 0 /\ f + (i - 1) + 1 \in 1..entry_index
             /\ i - 1 \in 0..(n - 1)
             /\ listed[i] = {entry_records[f + (i - 1) + 1]}
  <2>1. n # 0 /\ f \in Nat /\ f + n <= entry_count /\ i - 1 \in 0..(n - 1)
    BY <1>2, <1>3 DEF ChainRecords
  <2>2. f + (i - 1) \in Nat /\ f + (i - 1) < entry_count
    BY <1>2, <1>3, <2>1
  <2>3. Plus(f, i - 1) = f + (i - 1)
    <3>1. f + (i - 1) <= SizeMax
      BY <1>3, <2>2, CapacityFacts
    <3> QED
      BY <2>2, <3>1, WrapKeeps DEF Plus
  <2>4. EntryView(f + (i - 1)) = {entry_records[f + (i - 1) + 1]}
    BY <1>3, <2>2 DEF EntryView
  <2>5. f + (i - 1) + 1 \in 1..entry_index
    BY <1>3, <2>2
  <2> QED
    BY <1>4, <2>1, <2>3, <2>4, <2>5
<1>6. DOMAIN listed = 1..n /\ (n # 0 => Len(listed) = n)
  BY <1>2, <1>4
<1>7. ASSUME NEW i \in 1..n
      PROVE  LET record == entry_records[f + (i - 1) + 1]
             IN /\ record.bucket_index = b /\ record.chain_index = i - 1
                /\ record.key_size = KeySize[record.entry_id]
                /\ i = 1 => record.entry_id = buckets[b]
                /\ IF i = n THEN next[record.entry_id] = NULL
                   ELSE \A after \in listed[i + 1] : after.entry_id = next[record.entry_id]
  <2> DEFINE j == i - 1
             record == entry_records[f + j + 1]
  <2>1. n # 0 /\ f + j + 1 \in 1..entry_index /\ j \in 0..(n - 1)
        /\ (i = 1 <=> j = 0) /\ (i = n <=> j = n - 1)
    BY <1>2, <1>5
  <2>2. /\ record.bucket_index = b /\ record.chain_index = j
        /\ j = 0 => record.entry_id = buckets[b]
        /\ next[record.entry_id] = IF j = n - 1 THEN NULL ELSE entry_records[f + j + 2].entry_id
    BY <1>2, <2>1 DEF ChainRecords
  <2>3. record.key_size = KeySize[record.entry_id]
    <3>1. f + j + 1 \in DOMAIN entry_records
      BY <1>3, <2>1
    <3> QED
      BY <3>1 DEF ArenaInv, RecordsInv, KeysInRow
  <2>4. ASSUME i # n PROVE listed[i + 1] = {entry_records[f + j + 2]}
    <3>1. i + 1 \in 1..n /\ (i + 1) - 1 = j + 1
      BY <1>2, <2>4
    <3>2. listed[i + 1] = {entry_records[f + ((i + 1) - 1) + 1]}
      BY <1>5, <3>1
    <3>3. f + ((i + 1) - 1) + 1 = f + j + 2
      BY <1>2, <2>1 DEF ChainRecords
    <3> QED
      BY <3>2, <3>3
  <2> QED
    BY <2>1, <2>2, <2>3, <2>4
<1>8. \A i \in DOMAIN listed : \E record \in listed[i] :
         /\ record.bucket_index = b /\ record.chain_index = i - 1
         /\ record.key_size = KeySize[record.entry_id]
         /\ i = 1 => record.entry_id = buckets[b]
         /\ IF i = Len(listed) THEN next[record.entry_id] = NULL
            ELSE \A after \in listed[i + 1] : after.entry_id = next[record.entry_id]
  <2> SUFFICES ASSUME NEW i \in DOMAIN listed
               PROVE  \E record \in listed[i] :
                         /\ record.bucket_index = b /\ record.chain_index = i - 1
                         /\ record.key_size = KeySize[record.entry_id]
                         /\ i = 1 => record.entry_id = buckets[b]
                         /\ IF i = Len(listed) THEN next[record.entry_id] = NULL
                            ELSE \A after \in listed[i + 1] :
                                    after.entry_id = next[record.entry_id]
    OBVIOUS
  <2> DEFINE record == entry_records[f + (i - 1) + 1]
  <2>1. i \in 1..n /\ Len(listed) = n
    BY <1>5, <1>6
  <2>2. listed[i] = {record}
    BY <1>5, <2>1
  <2>3. /\ record.bucket_index = b /\ record.chain_index = i - 1
        /\ record.key_size = KeySize[record.entry_id]
        /\ i = 1 => record.entry_id = buckets[b]
        /\ IF i = n THEN next[record.entry_id] = NULL
           ELSE \A after \in listed[i + 1] : after.entry_id = next[record.entry_id]
    BY <1>7, <2>1
  <2> HIDE DEF record
  <2> QED
    BY <2>1, <2>2, <2>3
<1>9. (n = 0 <=> buckets[b] = NULL) /\ n = bucket.chain_length
  BY <1>2 DEF n
<1> QED
  BY <1>8, <1>9 DEF listed

\* What is read back from the records is the table: the entries that are listed for a bucket
\* are its chain, from the head to the end (hash_snapshot.c:262-303, :318-383 and
\* hash_json.c:206-262).
THEOREM SnapshotIsTheTable == Spec => []ReadsBackTheTable
  BY ArenaInvHolds, ReadsBack, PTL


-----------------------------------------------------------------------------
(* How long a capture can run. *)

\* A number has a multiple in every stretch of its length.
LEMMA Multiple ==
    ASSUME NEW d \in Nat, d >= 1, NEW n \in Nat
    PROVE  \E q \in Nat : n <= q * d /\ q * d < n + d
<1> DEFINE H == {m \in Nat : \E q \in Nat : m <= q * d /\ q * d < m + d}
<1>1. 0 * d = 0 /\ \A q \in Nat : q * d \in Nat /\ (q + 1) * d = q * d + d
  OBVIOUS
<1>2. 0 \in H
  BY <1>1
<1>3. ASSUME NEW m \in Nat, m \in H PROVE m + 1 \in H
  <2>1. PICK q \in Nat : m <= q * d /\ q * d < m + d
    BY <1>3
  <2> DEFINE p == q * d
  <2>2. p \in Nat /\ m <= p /\ p < m + d /\ (q + 1) * d = p + d
    BY <1>1, <2>1
  <2>3. CASE p = m
    <3>1. (q + 1) * d = m + d
      BY <2>2, <2>3
    <3>2. m + 1 <= m + d /\ m + d < (m + 1) + d
      OBVIOUS
    <3> DEFINE r == q + 1
    <3>3. r \in Nat /\ m + 1 <= r * d /\ r * d < (m + 1) + d
      BY <3>1, <3>2
    <3> HIDE DEF r
    <3> QED
      BY <3>3
  <2>4. CASE p # m
    <3> HIDE DEF p
    <3>1. m + 1 <= p /\ p < (m + 1) + d
      BY <2>2, <2>4
    <3>2. m + 1 <= q * d /\ q * d < (m + 1) + d
      BY <3>1 DEF p
    <3> QED
      BY <3>2
  <2> QED
    BY <2>3, <2>4
<1> HIDE DEF H
<1>4. Nat \subseteq H
  BY <1>2, <1>3, AllNumbers
<1> QED
  BY <1>4 DEF H

\* A walk that comes back to an entry goes round from there.
LEMMA WalkRepeats ==
    ASSUME NEW f, NEW m \in Nat, Walk(f, m), NEW i \in Nat, NEW d \in Nat, i + d <= m,
           f[i] = f[i + d]
    PROVE  \A x \in Nat : i + x + d <= m => f[i + x] = f[i + x + d]
<1> DEFINE H == {x \in Nat : i + x + d <= m => f[i + x] = f[i + x + d]}
<1>1. 0 \in H
  <2>1. i + 0 = i /\ i + 0 + d = i + d
    OBVIOUS
  <2> QED
    BY <2>1
<1>2. ASSUME NEW x \in Nat, x \in H PROVE x + 1 \in H
  <2> SUFFICES ASSUME i + (x + 1) + d <= m PROVE f[i + (x + 1)] = f[i + (x + 1) + d]
    OBVIOUS
  <2> DEFINE a == i + x
             b == i + x + d
  <2>1. /\ a \in 0..(m - 1) /\ b \in 0..(m - 1)
        /\ i + (x + 1) = a + 1 /\ i + (x + 1) + d = b + 1
        /\ i + x + d <= m
    OBVIOUS
  <2>2. f[a] = f[b]
    BY <1>2, <2>1
  <2>3. f[a + 1] = next[f[a]] /\ f[b + 1] = next[f[b]]
    BY <2>1 DEF Walk
  <2> HIDE DEF a, b
  <2> QED
    BY <2>1, <2>2, <2>3
<1> HIDE DEF H
<1>3. Nat \subseteq H
  BY <1>1, <1>2, AllNumbers
<1> QED
  BY <1>3 DEF H

\* However often it goes round.
LEMMA WalkRounds ==
    ASSUME NEW f, NEW m \in Nat, Walk(f, m), NEW i \in Nat, NEW d \in Nat, i + d <= m,
           f[i] = f[i + d]
    PROVE  \A q \in Nat : \A x \in Nat : i <= x /\ x + q * d <= m => f[x] = f[x + q * d]
<1> DEFINE H == {q \in Nat : \A x \in Nat : i <= x /\ x + q * d <= m => f[x] = f[x + q * d]}
<1>1. 0 * d = 0 /\ \A q \in Nat : q * d \in Nat /\ (q + 1) * d = q * d + d
  OBVIOUS
<1>2. 0 \in H
  BY <1>1
<1>3. ASSUME NEW q \in Nat, q \in H PROVE q + 1 \in H
  <2> SUFFICES ASSUME NEW x \in Nat, i <= x, x + (q + 1) * d <= m
               PROVE  f[x] = f[x + (q + 1) * d]
    OBVIOUS
  <2> DEFINE p == q * d
  <2>1. p \in Nat /\ (q + 1) * d = p + d
    BY <1>1
  <2>2. \A y \in Nat : i <= y /\ y + p <= m => f[y] = f[y + p]
    BY <1>3
  <2> HIDE DEF p
  <2>3. f[x] = f[x + p]
    BY <2>1, <2>2
  <2>4. (x + p) - i \in Nat /\ i + ((x + p) - i) = x + p
        /\ i + ((x + p) - i) + d = x + (p + d) /\ x + (p + d) <= m
    BY <2>1
  <2>5. f[x + p] = f[x + (p + d)]
    BY <2>4, WalkRepeats
  <2> QED
    BY <2>1, <2>3, <2>5
<1> HIDE DEF H
<1>4. Nat \subseteq H
  BY <1>2, <1>3, AllNumbers
<1> QED
  BY <1>4 DEF H

\* A walk does not leave what its head leads to.
LEMMA WalkStays ==
    ASSUME Pointers, NEW f, NEW m \in Nat, Walk(f, m)
    PROVE  \A i \in 0..m : f[i] \in Reached(head)
<1> DEFINE H == {i \in Nat : i <= m => f[i] \in Reached(head)}
<1>1. f[0] = head /\ \A i \in 0..(m - 1) : f[i] \in Nodes /\ f[i + 1] = next[f[i]]
  BY DEF Walk
<1>2. head \in Reached(head) /\ Closed(Reached(head))
  BY ReachedFacts DEF Pointers
<1>3. 0 \in H
  BY <1>1, <1>2
<1>4. ASSUME NEW i \in Nat, i \in H PROVE i + 1 \in H
  <2> SUFFICES ASSUME i + 1 <= m PROVE f[i + 1] \in Reached(head)
    OBVIOUS
  <2>1. i \in 0..(m - 1) /\ i <= m
    OBVIOUS
  <2>2. f[i] \in Reached(head)
    BY <1>4, <2>1
  <2> QED
    BY <1>1, <1>2, <2>1, <2>2 DEF Closed
<1> HIDE DEF H
<1>5. Nat \subseteq H
  BY <1>3, <1>4, AllNumbers
<1> QED
  BY <1>5 DEF H

\* The pointers have made k turns and have not met.
Unmet(k) ==
    \E f : /\ Walk(f, 2 * k) /\ slow = f[k] /\ fast = f[2 * k]
           /\ \A i \in 1..k : f[i] # f[2 * i]

\* On a walk as long as the chain an entry has come twice, and the pointers were a round apart
\* when the slow one was at a multiple of the round.
LEMMA UnmetFew ==
    ASSUME Pointers, NEW k \in Nat, Unmet(k)
    PROVE  k <= Cardinality(Ahead(head))
<1> DEFINE n == Cardinality(Ahead(head))
<1>1. IsFiniteSet(Ahead(head)) /\ n \in Nat
  BY AheadFacts DEF Pointers
<1> HIDE DEF n
<1> SUFFICES ASSUME k > n PROVE FALSE
  BY <1>1 DEF n
<1>2. PICK f : Walk(f, 2 * k) /\ \A i \in 1..k : f[i] # f[2 * i]
  BY DEF Unmet
<1>3. 2 * k \in Nat /\ \A i \in 0..n : i \in 0..(2 * k) /\ i \in 0..(2 * k - 1)
  BY <1>1
<1>4. \A i \in 0..n : f[i] \in Ahead(head)
  <2> TAKE i \in 0..n
  <2>1. f[i] \in Nodes
    BY <1>2, <1>3 DEF Walk
  <2>2. f[i] \in Reached(head)
    BY <1>2, <1>3, WalkStays
  <2> QED
    BY <2>1, <2>2, NodesAssumption DEF Ahead
<1>5. \E x, y \in 0..n : x # y /\ f[x] = f[y]
  <2> DEFINE g == [i \in 0..n |-> f[i]]
  <2>1. g \in [0..n -> Ahead(head)]
    BY <1>4
  <2>2. IsFiniteSet(0..n) /\ Cardinality(0..n) = n + 1
    BY <1>1, FS_Interval
  <2>3. Cardinality(Ahead(head)) < Cardinality(0..n)
    BY <1>1, <2>2 DEF n
  <2> HIDE DEF g
  <2>4. \E x, y \in 0..n : x # y /\ g[x] = g[y]
    BY <1>1, <2>1, <2>2, <2>3, FS_PigeonHole
  <2> QED
    BY <2>4 DEF g
<1>6. PICK i \in 0..n, j \in 0..n : i < j /\ f[i] = f[j]
  <2>1. PICK x \in 0..n, y \in 0..n : x # y /\ f[x] = f[y]
    BY <1>5
  <2>2. x < y \/ y < x
    BY <1>1, <2>1
  <2> QED
    BY <2>1, <2>2
<1> DEFINE d == j - i
           b == IF i = 0 THEN 1 ELSE i
<1>7. /\ i \in Nat /\ j \in Nat /\ j <= n /\ d \in Nat /\ d >= 1 /\ i + d = j
      /\ b \in Nat /\ b >= 1 /\ i <= b /\ b + d <= j + 1
  BY <1>1, <1>6
<1>8. i + d <= 2 * k /\ f[i] = f[i + d]
  BY <1>1, <1>6, <1>7
<1> HIDE DEF d, b
<1>9. PICK q \in Nat : b <= q * d /\ q * d < b + d
  BY <1>7, Multiple
<1> DEFINE w == 2 * k
           m == q * d
<1> HIDE DEF w
<1>10. w \in Nat /\ Walk(f, w) /\ i + d <= w
  BY <1>2, <1>3, <1>8 DEF w
<1>11. \A p \in Nat : \A x \in Nat : i <= x /\ x + p * d <= w => f[x] = f[x + p * d]
  BY <1>7, <1>8, <1>10, WalkRounds
<1>12. m \in Nat /\ b <= m /\ m < b + d
  BY <1>7, <1>9
<1>13. \A x \in Nat : i <= x /\ x + m <= w => f[x] = f[x + m]
  BY <1>11
<1> HIDE DEF m
<1>14. m \in 1..k /\ i <= m /\ m + m <= 2 * k /\ m + m = 2 * m
  BY <1>1, <1>7, <1>12
<1>15. f[m] = f[2 * m]
  BY <1>12, <1>13, <1>14 DEF w
<1> QED
  BY <1>2, <1>14, <1>15

\* The turns that the pointers have made: the most that fit.
Turns == {k \in Nat : Unmet(k)}

Turned == CHOOSE k \in Turns : \A j \in Turns : j <= k

TurnsInv == has_cycle = NULL => Turns # {}

LEMMA TurnedFacts ==
    ASSUME Pointers, Turns # {}
    PROVE  /\ Turned \in Turns /\ Turned \in Nat /\ Turned <= Cardinality(Ahead(head))
           /\ \A j \in Turns : j <= Turned
<1> DEFINE n == Cardinality(Ahead(head))
<1>1. n \in Nat /\ \A k \in Turns : k \in Nat /\ k <= n
  BY AheadFacts, UnmetFew DEF Pointers, Turns
<1> HIDE DEF n
<1>2. \E l \in Turns : \A j \in Turns : j <= l
  <2> SUFFICES ASSUME \A l \in Turns : \E j \in Turns : ~ (j <= l) PROVE FALSE
    OBVIOUS
  <2> DEFINE G == {h \in Nat : \E k \in Turns : h <= k}
  <2>1. 0 \in G
    BY <1>1
  <2>2. ASSUME NEW h \in Nat, h \in G PROVE h + 1 \in G
    <3>1. PICK k \in Turns : h <= k
      BY <2>2
    <3>2. PICK j \in Turns : ~ (j <= k)
      BY <3>1
    <3>3. h + 1 <= j
      BY <1>1, <3>1, <3>2
    <3> QED
      BY <3>2, <3>3
  <2> HIDE DEF G
  <2>3. Nat \subseteq G
    BY <2>1, <2>2, AllNumbers
  <2>4. n + 1 \in G
    BY <1>1, <2>3
  <2> QED
    BY <1>1, <2>4 DEF G
<1>3. Turned \in Turns /\ \A j \in Turns : j <= Turned
  BY <1>2 DEF Turned
<1> QED
  BY <1>1, <1>3 DEF n

\* At the head no turn has been made.
LEMMA NoTurnYet ==
    ASSUME Pointers, slow = head, fast = head PROVE Turns # {}
<1> DEFINE f == [i \in 0..0 |-> head]
<1>1. 2 * 0 = 0 /\ 0 \in Nat /\ 0 - 1 = -1 /\ 0..(-1) = {} /\ 1..0 = {}
  OBVIOUS
<1>2. Walk(f, 0)
  BY <1>1 DEF Walk, Pointers
<1>3. Unmet(0)
  BY <1>1, <1>2 DEF Unmet
<1> QED
  BY <1>1, <1>3 DEF Turns

LEMMA NoTurnThen == (Pointers /\ slow = head /\ fast = head => Turns # {})'
<1>1. Pointers /\ slow = head /\ fast = head => Turns # {}
  BY NoTurnYet
<1> QED
  BY <1>1, PTL

\* Every turn that the loop goes on after is one more.
LEMMA OneMoreTurn ==
    ASSUME Pointers, Advance, slow' # fast', NEW k \in Turns
    PROVE  (k + 1) \in Turns'
<1>1. CanAdvance /\ slow' = next[slow] /\ fast' = next[next[fast]] /\ UNCHANGED <<next, head>>
  BY DEF Advance, SlowAfter
<1>2. k \in Nat /\ k + 1 \in Nat
  BY DEF Turns
<1>3. PICK f : /\ Walk(f, 2 * k) /\ slow = f[k] /\ fast = f[2 * k]
               /\ \A i \in 1..k : f[i] # f[2 * i]
  BY DEF Turns, Unmet
<1>4. PICK g : /\ Walk(g, 2 * (k + 1)) /\ next[slow] = g[k + 1]
               /\ next[next[fast]] = g[2 * (k + 1)]
               /\ \A i \in 0..(2 * k) : g[i] = f[i]
  BY <1>1, <1>2, <1>3, WalkLonger
<1>5. \A i \in 1..(k + 1) : g[i] # g[2 * i]
  <2> TAKE i \in 1..(k + 1)
  <2>1. CASE i = k + 1
    BY <1>1, <1>4, <2>1
  <2>2. CASE i # k + 1
    <3>1. i \in 1..k /\ i \in 0..(2 * k) /\ 2 * i \in 0..(2 * k)
      BY <1>2, <2>2
    <3> QED
      BY <1>3, <1>4, <3>1
  <2> QED
    BY <2>1, <2>2
<1>6. \A n : Walk(g, n)' <=> Walk(g, n)
  BY <1>1 DEF Walk, Links
<1>7. Unmet(k + 1)'
  BY <1>1, <1>4, <1>5, <1>6 DEF Unmet
<1> QED
  BY <1>2, <1>7 DEF Turns

LEMMA SameTurns == ASSUME UNCHANGED <<next, head, slow, fast>> PROVE Turns' = Turns
  BY DEF Turns, Unmet, Walk, Links

LEMMA TurnsStep == ASSUME CycleInv, CycleInv', TurnsInv, [Next]_vars PROVE TurnsInv'
<1>1. Pointers /\ Pointers'
  BY DEF CycleInv
<1>2. CASE CheckChain /\ Advance
  <2>1. CASE slow' = fast'
    BY <1>2, <2>1, NodesAssumption DEF Advance, TurnsInv
  <2>2. CASE slow' # fast'
    BY <1>1, <1>2, <2>2, OneMoreTurn DEF Advance, TurnsInv
  <2> QED
    BY <2>1, <2>2
<1>3. CASE CheckChain /\ EndOfChain
  BY <1>3, SameTurns DEF EndOfChain, TurnsInv
<1>4. ASSUME UNCHANGED cyclevars PROVE TurnsInv'
  BY <1>4, SameTurns DEF cyclevars, TurnsInv
<1>5. CASE CountNextBucket
  <2>1. CASE bucket_index' < Capacity
    <3>1. slow' = head' /\ fast' = head'
      BY <1>5, <2>1 DEF CountNextBucket, StartsAt
    <3> QED
      BY <1>1, <3>1, NoTurnThen DEF TurnsInv
  <2>2. CASE ~ (bucket_index' < Capacity)
    BY <1>4, <1>5, <2>2 DEF CountNextBucket
  <2> QED
    BY <2>1, <2>2
<1> QED
  BY <1>2, <1>3, <1>4, <1>5 DEF Next, vars, CheckChain, IsChecked, Count, Allocate, Fill,
                                FillNextBucket

\* The entries of all chains, those of a chain that two buckets share once for each.
Total == SumFunction(ChainLengths)

\* The steps that a capture still has before it at most.  An entry is passed three times: by
\* the slow pointer, by the count and by the second pass; what a check that ends early saves
\* is no matter.
CaptureLeft ==
    LET fill  == Total + Capacity
        first == 2 * (Total - entry_count) + 3 * (Capacity - bucket_index) + fill
    IN  IF pass = "checking"
        THEN first + 1 - (IF has_cycle = NULL THEN Turned ELSE Cardinality(Ahead(head)) + 1)
        ELSE IF pass = "counting" THEN first - Cardinality(Ahead(entry)) - 1
        ELSE IF pass = "allocating" THEN fill + 1
        ELSE IF pass = "filling" THEN (Total - entry_index) + (Capacity - bucket_index)
        ELSE 0

CaptureIsShort == CaptureLeft \in 0..(3 * Total + 4 * Capacity + 1)

\* What is ahead has not been counted, and the second pass has not written more than was.
LeftBounds ==
    /\ Total \in Nat /\ Capacity \in Nat
    /\ entry_count \in Nat /\ bucket_index \in Nat /\ entry_index \in Nat
    /\ pass = "checking" =>
          /\ bucket_index < Capacity
          /\ Cardinality(Ahead(head)) \in Nat /\ entry_count + Cardinality(Ahead(head)) <= Total
          /\ has_cycle = NULL => Turned \in Nat /\ Turned <= Cardinality(Ahead(head))
    /\ pass = "counting" =>
          /\ bucket_index < Capacity
          /\ Cardinality(Ahead(entry)) \in Nat /\ entry_count + Cardinality(Ahead(entry)) <= Total
    /\ pass = "filling" => bucket_index < Capacity /\ entry_index <= Total

LEMMA LeftBoundsHold == ASSUME ArenaInv, TurnsInv PROVE LeftBounds
<1>1. Pointers /\ PlaceInv /\ CountInv /\ WayInv
  BY DEF ArenaInv, CycleInv
<1>2. /\ Total \in Nat /\ Capacity \in Nat
      /\ \A b \in Buckets : b \in Nat /\ b < Capacity /\ b + 1 \in 0..Capacity /\ b \in 0..Capacity
      /\ \A b \in 0..Capacity : FromOn(ChainLengths, b) \in Nat
      /\ \A b \in Buckets : FromOn(ChainLengths, b)
            = Cardinality(Ahead(buckets[b])) + FromOn(ChainLengths, b + 1)
  BY <1>1, BucketSums, CapacityFacts DEF Total
<1>3. entry_count \in Nat /\ bucket_index \in Nat /\ entry_index \in Nat
  BY <1>1, CapacityFacts DEF PlaceInv, WayInv
<1>4. ASSUME pass = "checking"
      PROVE  /\ bucket_index < Capacity
             /\ Cardinality(Ahead(head)) \in Nat /\ entry_count + Cardinality(Ahead(head)) <= Total
             /\ has_cycle = NULL => Turned \in Nat /\ Turned <= Cardinality(Ahead(head))
  <2>1. bucket_index \in Buckets /\ head = buckets[bucket_index] /\ head \in Links
        /\ entry_count + FromOn(ChainLengths, bucket_index) = Total
    BY <1>1, <1>4 DEF PlaceInv, Pointers, CountInv, Total
  <2>2. Cardinality(Ahead(head)) \in Nat
    BY <1>1, <2>1, AheadFacts
  <2>3. FromOn(ChainLengths, bucket_index)
           = Cardinality(Ahead(head)) + FromOn(ChainLengths, bucket_index + 1)
        /\ FromOn(ChainLengths, bucket_index + 1) \in Nat
    BY <1>2, <2>1
  <2>4. entry_count + Cardinality(Ahead(head)) <= Total
    BY <1>2, <1>3, <2>1, <2>2, <2>3
  <2>5. has_cycle = NULL => Turned \in Nat /\ Turned <= Cardinality(Ahead(head))
    BY <1>1, TurnedFacts DEF TurnsInv
  <2> QED
    BY <1>2, <2>1, <2>2, <2>4, <2>5
<1>5. ASSUME pass = "counting"
      PROVE  /\ bucket_index < Capacity
             /\ Cardinality(Ahead(entry)) \in Nat
             /\ entry_count + Cardinality(Ahead(entry)) <= Total
  <2>1. bucket_index \in Buckets /\ entry \in Links
        /\ entry_count + (Cardinality(Ahead(entry)) + FromOn(ChainLengths, bucket_index + 1))
              = Total
    BY <1>1, <1>5 DEF PlaceInv, CountInv, Total
  <2>2. Cardinality(Ahead(entry)) \in Nat
    BY <1>1, <2>1, AheadFacts
  <2>3. FromOn(ChainLengths, bucket_index + 1) \in Nat
    BY <1>2, <2>1
  <2>4. entry_count + Cardinality(Ahead(entry)) <= Total
    BY <1>2, <1>3, <2>1, <2>2, <2>3
  <2> QED
    BY <1>2, <2>1, <2>2, <2>4
<1>6. ASSUME pass = "filling" PROVE bucket_index < Capacity /\ entry_index <= Total
  <2>1. bucket_index \in Buckets /\ entry_count = Total
    BY <1>1, <1>6 DEF PlaceInv, CountInv, Total
  <2>2. PICK W : Way(W, LastPlace) /\ FilledPlace \in W
    BY <1>1, <1>6 DEF WayInv
  <2>3. FilledPlace.count <= LastPlace.count
    BY <2>2 DEF Way
  <2>4. FilledPlace.count = entry_index /\ LastPlace.count = entry_count
    BY DEF FilledPlace, LastPlace, Place
  <2> QED
    BY <1>2, <2>1, <2>3, <2>4
<1> QED
  BY <1>2, <1>3, <1>4, <1>5, <1>6 DEF LeftBounds

LEMMA LeftBoundsThen == (ArenaInv /\ TurnsInv => LeftBounds)'
<1>1. ArenaInv /\ TurnsInv => LeftBounds
  BY LeftBoundsHold
<1> QED
  BY <1>1, PTL

\* What is left, pass by pass.
LeftIs ==
    /\ pass = "checking" => CaptureLeft =
          2 * (Total - entry_count) + 3 * (Capacity - bucket_index) + (Total + Capacity) + 1
            - (IF has_cycle = NULL THEN Turned ELSE Cardinality(Ahead(head)) + 1)
    /\ pass = "counting" => CaptureLeft =
          2 * (Total - entry_count) + 3 * (Capacity - bucket_index) + (Total + Capacity)
            - Cardinality(Ahead(entry)) - 1
    /\ pass = "allocating" => CaptureLeft = (Total + Capacity) + 1
    /\ pass = "filling" => CaptureLeft = (Total - entry_index) + (Capacity - bucket_index)
    /\ pass \notin {"checking", "counting", "allocating", "filling"} => CaptureLeft = 0

LEMMA LeftFormula == ASSUME LeftBounds PROVE LeftIs
<1>1. CASE pass = "checking"
  BY <1>1 DEF CaptureLeft, LeftBounds, LeftIs
<1>2. CASE pass = "counting"
  BY <1>2 DEF CaptureLeft, LeftBounds, LeftIs
<1>3. CASE pass = "allocating"
  BY <1>3 DEF CaptureLeft, LeftBounds, LeftIs
<1>4. CASE pass = "filling"
  BY <1>4 DEF CaptureLeft, LeftBounds, LeftIs
<1>5. CASE pass \notin {"checking", "counting", "allocating", "filling"}
  BY <1>5 DEF CaptureLeft, LeftIs
<1> QED
  BY <1>1, <1>2, <1>3, <1>4, <1>5

LEMMA LeftFormulaThen == (LeftBounds => LeftIs)'
<1>1. LeftBounds => LeftIs
  BY LeftFormula
<1> QED
  BY <1>1, PTL

LEMMA LeftIsBounded == ASSUME ArenaInv, TurnsInv PROVE CaptureIsShort
<1> DEFINE h == Cardinality(Ahead(head))
           a == Cardinality(Ahead(entry))
<1>1. LeftBounds /\ LeftIs
  BY LeftBoundsHold, LeftFormula
<1>2. /\ Total \in Nat /\ Capacity \in Nat
      /\ entry_count \in Nat /\ bucket_index \in Nat /\ entry_index \in Nat
      /\ pass = "checking" => /\ bucket_index < Capacity /\ h \in Nat /\ entry_count + h <= Total
                              /\ has_cycle = NULL => Turned \in Nat /\ Turned <= h
      /\ pass = "counting" => bucket_index < Capacity /\ a \in Nat /\ entry_count + a <= Total
      /\ pass = "filling" => bucket_index < Capacity /\ entry_index <= Total
  BY <1>1 DEF LeftBounds
<1>3. CASE pass = "checking"
  <2> DEFINE t == IF has_cycle = NULL THEN Turned ELSE h + 1
  <2>1. t \in Nat /\ t <= h + 1
    BY <1>2, <1>3
  <2>2. CaptureLeft = 2 * (Total - entry_count) + 3 * (Capacity - bucket_index)
                        + (Total + Capacity) + 1 - t
    BY <1>1, <1>3 DEF LeftIs
  <2> HIDE DEF t, h
  <2> QED
    BY <1>2, <1>3, <2>1, <2>2 DEF CaptureIsShort
<1>4. CASE pass = "counting"
  <2>1. CaptureLeft = 2 * (Total - entry_count) + 3 * (Capacity - bucket_index)
                        + (Total + Capacity) - a - 1
    BY <1>1, <1>4 DEF LeftIs
  <2> HIDE DEF a
  <2> QED
    BY <1>2, <1>4, <2>1 DEF CaptureIsShort
<1>5. CASE pass \notin {"checking", "counting"}
  <2>1. \/ CaptureLeft = (Total + Capacity) + 1
        \/ pass = "filling" /\ CaptureLeft = (Total - entry_index) + (Capacity - bucket_index)
        \/ CaptureLeft = 0
    BY <1>1, <1>5 DEF LeftIs
  <2> QED
    BY <1>2, <2>1 DEF CaptureIsShort
<1> QED
  BY <1>3, <1>4, <1>5

LEMMA TurnedThen ==
    (Pointers /\ Turns # {} =>
        Turned \in Nat /\ Turned <= Cardinality(Ahead(head)) /\ \A j \in Turns : j <= Turned)'
<1>1. Pointers /\ Turns # {} =>
          Turned \in Nat /\ Turned <= Cardinality(Ahead(head)) /\ \A j \in Turns : j <= Turned
  BY TurnedFacts
<1> QED
  BY <1>1, PTL

\* Every step brings the end of the capture nearer.
LEMMA CaptureLeftFalls ==
    ASSUME ArenaInv, ArenaInv', TurnsInv, TurnsInv', Next
    PROVE  CaptureLeft' < CaptureLeft
<1> DEFINE T == Total
           C(n) == Cardinality(Ahead(n))
           E == 2 * (T - entry_count) + 3 * (Capacity - bucket_index) + (T + Capacity)
           t == IF has_cycle = NULL THEN Turned ELSE C(head) + 1
<1>1. Pointers /\ Pointers' /\ PlaceInv /\ CountInv /\ WayInv
  BY DEF ArenaInv, CycleInv
<1>2. UNCHANGED <<next, buckets>>
  BY DEF Next, cyclevars, CheckChain, Advance, EndOfChain, IsChecked, Count, CountNextBucket,
         Allocate, Fill, FillNextBucket
<1>3. /\ T' = T /\ \A n : Ahead(n)' = Ahead(n)
      /\ Cardinality(Ahead(head))' = C(head') /\ Cardinality(Ahead(entry))' = C(entry')
  BY <1>2, SameTable DEF Total, Ahead, Reached, Closed
<1>4. LeftBounds /\ LeftIs /\ LeftBounds' /\ LeftIs'
  BY LeftBoundsHold, LeftBoundsThen, LeftFormula, LeftFormulaThen
<1>5. /\ T \in Nat /\ Capacity \in Nat
      /\ entry_count \in Nat /\ bucket_index \in Nat /\ entry_index \in Nat
      /\ pass = "checking" => /\ bucket_index < Capacity /\ C(head) \in Nat
                              /\ entry_count + C(head) <= T
                              /\ has_cycle = NULL => Turned \in Nat /\ Turned <= C(head)
      /\ pass = "counting" => /\ bucket_index < Capacity /\ C(entry) \in Nat
                              /\ entry_count + C(entry) <= T
      /\ pass = "filling" => bucket_index < Capacity /\ entry_index <= T
  BY <1>4 DEF LeftBounds
<1>6. /\ pass = "checking" => CaptureLeft = E + 1 - t /\ t \in Nat
      /\ pass = "counting" => CaptureLeft = E - C(entry) - 1
      /\ pass = "allocating" => CaptureLeft = (T + Capacity) + 1
      /\ pass = "filling" => CaptureLeft = (T - entry_index) + (Capacity - bucket_index)
  BY <1>4, <1>5 DEF LeftIs
<1>7. pass' \notin {"checking", "counting", "allocating", "filling"} => CaptureLeft' = 0
  BY <1>4 DEF LeftIs
<1>8. pass \in {"checking", "counting"} => E \in Nat /\ E >= 3 + T + Capacity
  BY <1>5
<1>9. CASE CheckChain
  <2>1. pass = "checking" /\ pass' = "checking" /\ UNCHANGED <<entry_count, bucket_index, head>>
        /\ has_cycle = NULL
    BY <1>9 DEF CheckChain, Advance, EndOfChain, counted
  <2> DEFINE r == IF has_cycle' = NULL THEN Turned' ELSE C(head) + 1
  <2>2. CaptureLeft' = E + 1 - r
    BY <1>3, <1>4, <2>1 DEF LeftIs
  <2>3. Turned \in Nat /\ t = Turned /\ Turned <= C(head) /\ C(head) \in Nat
    BY <1>5, <2>1
  <2>4. r \in Nat /\ r > Turned
    <3>1. CASE has_cycle' = NULL
      <4>1. Advance /\ slow' # fast'
        BY <1>9, <3>1, NodesAssumption DEF CheckChain, Advance, EndOfChain
      <4>2. Turned \in Turns /\ Turns' # {}
        BY <1>1, <2>1, <3>1, TurnedFacts DEF TurnsInv
      <4>3. Turned + 1 \in Turns'
        BY <1>1, <4>1, <4>2, OneMoreTurn
      <4>4. Turned' \in Nat /\ Turned + 1 <= Turned'
        BY <1>1, <4>2, <4>3, TurnedThen
      <4> QED
        BY <2>3, <3>1, <4>4
    <3>2. CASE has_cycle' # NULL
      BY <2>3, <3>2
    <3> QED
      BY <3>1, <3>2
  <2>5. CaptureLeft = E + 1 - Turned /\ E \in Nat
    BY <1>6, <1>8, <2>1, <2>3
  <2> HIDE DEF r, E
  <2> QED
    BY <2>2, <2>3, <2>4, <2>5
<1>10. CASE IsChecked
  <2>1. pass = "checking" /\ has_cycle # NULL /\ head = buckets[bucket_index]
        /\ UNCHANGED <<entry_count, bucket_index>>
        /\ \/ pass' = "CORRUPT_STRUCTURE"
           \/ pass' = "counting" /\ entry' = head
    BY <1>1, <1>10 DEF IsChecked, Returns, counted, PlaceInv
  <2>2. C(head) \in Nat /\ C(head) <= T /\ CaptureLeft = E + 1 - (C(head) + 1) /\ E \in Nat
        /\ E >= 3 + T + Capacity
    BY <1>5, <1>6, <1>8, <2>1
  <2>3. ASSUME pass' = "counting" PROVE CaptureLeft' = E - C(head) - 1
    <3>1. entry' = head /\ UNCHANGED <<entry_count, bucket_index>>
      BY <2>1, <2>3
    <3>2. CaptureLeft' = 2 * (T - entry_count) + 3 * (Capacity - bucket_index)
                           + (T + Capacity) - C(head) - 1
      BY <1>3, <1>4, <2>3, <3>1 DEF LeftIs
    <3> HIDE DEF T, C
    <3> QED
      BY <1>5, <2>1, <3>2 DEF E
  <2> HIDE DEF E, C, T
  <2> QED
    BY <1>5, <1>7, <2>1, <2>2, <2>3
<1>11. CASE Count
  <2>1. pass = "counting" /\ entry \in Nodes /\ NULL \in Reached(entry)
    BY <1>1, <1>11, LinkFacts DEF Count, PlaceInv
  <2>2. C(entry) = 1 + C(next[entry]) /\ C(next[entry]) \in Nat
    BY <1>1, <2>1, EntersOnce, AheadFacts, ReachedStep
  <2>3. CaptureLeft = E - C(entry) - 1 /\ C(entry) <= T /\ E \in Nat /\ E >= 3 + T + Capacity
    BY <1>5, <1>6, <1>8, <2>1
  <2>4. CASE pass' = "counting"
    <3>1. entry_count' = entry_count + 1 /\ entry' = next[entry] /\ bucket_index' = bucket_index
      BY <1>1, <1>11, <2>4, CountFacts
    <3>2. CaptureLeft' = 2 * (T - (entry_count + 1)) + 3 * (Capacity - bucket_index)
                           + (T + Capacity) - C(next[entry]) - 1
      BY <1>3, <1>4, <2>4, <3>1 DEF LeftIs
    <3> DEFINE c == C(next[entry])
    <3> HIDE DEF C, T
    <3>3. c \in Nat /\ CaptureLeft = E - (1 + c) - 1 /\ CaptureLeft' =
              2 * (T - (entry_count + 1)) + 3 * (Capacity - bucket_index) + (T + Capacity) - c - 1
      BY <2>2, <2>3, <3>2
    <3> HIDE DEF c
    <3> QED
      BY <1>5, <3>3
  <2>5. CASE pass' # "counting"
    <3>1. pass' = "OVERFLOW"
      BY <1>11, <2>5 DEF Count, Returns
    <3>2. C(entry) \in Nat
      BY <1>5, <2>1
    <3> HIDE DEF E, C, T
    <3> QED
      BY <1>5, <1>7, <2>3, <3>1, <3>2
  <2> QED
    BY <2>4, <2>5
<1>12. CASE CountNextBucket
  <2>1. /\ pass = "counting" /\ entry = NULL /\ UNCHANGED entry_count
        /\ bucket_index' = bucket_index + 1
        /\ \/ pass' = "checking" /\ has_cycle' = NULL
           \/ pass' = "allocating"
    BY <1>12 DEF CountNextBucket, StartsAt, counted
  <2>2. C(entry) = 0
    BY <1>1, <2>1, NothingAhead
  <2>3. CaptureLeft = E - 1 /\ E \in Nat /\ E >= 3 + T + Capacity
    <3>1. CaptureLeft = E - 0 - 1 /\ E \in Nat /\ E >= 3 + T + Capacity
      BY <1>6, <1>8, <2>1, <2>2
    <3> HIDE DEF E, T
    <3> QED
      BY <3>1
  <2>4. CASE pass' = "checking"
    <3>1. Turned' \in Nat
      BY <1>4, <2>1, <2>4 DEF LeftBounds
    <3>2. CaptureLeft' = 2 * (T - entry_count) + 3 * (Capacity - (bucket_index + 1))
                           + (T + Capacity) + 1 - Turned'
      BY <1>3, <1>4, <2>1, <2>4 DEF LeftIs
    <3> DEFINE u == Turned'
    <3> HIDE DEF T, u
    <3>3. u \in Nat /\ CaptureLeft' = 2 * (T - entry_count) + 3 * (Capacity - (bucket_index + 1))
                                        + (T + Capacity) + 1 - u
      BY <3>1, <3>2 DEF u
    <3> QED
      BY <1>5, <2>3, <3>3
  <2>5. CASE pass' = "allocating"
    <3>1. CaptureLeft' = (T + Capacity) + 1
      BY <1>3, <1>4, <2>5 DEF LeftIs
    <3> HIDE DEF E, T
    <3> QED
      BY <1>5, <2>3, <3>1
  <2> QED
    BY <2>1, <2>4, <2>5
<1>13. CASE Allocate
  <2>1. /\ pass = "allocating" /\ UNCHANGED entry_index
        /\ \/ pass' = "filling" /\ bucket_index' = 0
           \/ pass' \in {"NO_MEMORY", "OVERFLOW"}
    BY <1>13 DEF Allocate, Returns, written
  <2>2. entry_index = 0
    BY <1>1, <2>1 DEF WayInv
  <2>3. pass' = "filling" => CaptureLeft' = (T - 0) + (Capacity - 0)
    BY <1>3, <1>4, <2>1, <2>2 DEF LeftIs
  <2> QED
    BY <1>5, <1>6, <1>7, <2>1, <2>3
<1>14. CASE Fill
  <2>1. pass = "filling" /\ pass' = "filling" /\ entry_index' = entry_index + 1
        /\ UNCHANGED bucket_index
    BY <1>14 DEF Fill
  <2>2. CaptureLeft' = (T - (entry_index + 1)) + (Capacity - bucket_index)
    BY <1>3, <1>4, <2>1 DEF LeftIs
  <2> QED
    BY <1>5, <1>6, <2>1, <2>2
<1>15. CASE FillNextBucket
  <2>1. /\ pass = "filling" /\ UNCHANGED entry_index
        /\ \/ pass' = "filling" /\ bucket_index' = bucket_index + 1
           \/ pass' = "OK"
    BY <1>15 DEF FillNextBucket, Returns
  <2>2. pass' = "filling" =>
            CaptureLeft' = (T - entry_index) + (Capacity - (bucket_index + 1))
    BY <1>3, <1>4, <2>1 DEF LeftIs
  <2> QED
    BY <1>5, <1>6, <1>7, <2>1, <2>2
<1> QED
  BY <1>9, <1>10, <1>11, <1>12, <1>13, <1>14, <1>15 DEF Next

\* A capture takes no more steps than three for each entry of each chain, four for each
\* bucket and one: the check of a chain, which may loop, makes no more turns than the chain
\* has entries, and the two passes over the chains come to their end, whatever the pointers
\* make of the table (hash_snapshot.c:75-88, :207-237 and :271-303).
THEOREM CapturesAreShort == Spec => []CaptureIsShort /\ [][CaptureLeft' < CaptureLeft]_vars
<1>1. Init => TurnsInv
  <2> SUFFICES ASSUME Init PROVE TurnsInv
    OBVIOUS
  <2>1. Pointers /\ slow = head /\ fast = head
    BY InitCycleInv DEF CycleInv, Init
  <2> QED
    BY <2>1, NoTurnYet DEF TurnsInv
<1>2. ArenaInv /\ ArenaInv' /\ TurnsInv /\ [Next]_vars => TurnsInv'
  BY TurnsStep DEF ArenaInv
<1>3. ArenaInv /\ TurnsInv => CaptureIsShort
  BY LeftIsBounded
<1>4. ArenaInv /\ ArenaInv' /\ TurnsInv /\ TurnsInv' /\ [Next]_vars =>
          [CaptureLeft' < CaptureLeft]_vars
  BY CaptureLeftFalls
<1> QED
  BY <1>1, <1>2, <1>3, <1>4, ArenaInvHolds, PTL DEF Spec

=============================================================================
