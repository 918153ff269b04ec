------------------------ MODULE HashInspector_proofs ------------------------
(***************************************************************************)
(* Proofs about HashInspector and the validator of HashSnapshot, for every *)
(* value of their constants.                                               *)
(*                                                                         *)
(* The invariant of a session has parts that rest on each other: TInv, the *)
(* tables (HashTable's own invariant outside of quarantine); RInv, when a  *)
(* result is filled in; LInv, the frames as they were judged; NInv, whose  *)
(* frames they are; CInv, the newest of them; WInv, the frames of a growth *)
(* in the middle of it; KInv, how many frames a call has still to record.  *)
(* Every step is first reduced to what it does to the timeline and to the  *)
(* result (Recorded): nothing, a call that begins, one more frame.  Last,  *)
(* how many steps a call can take, and that a frame stays as it was        *)
(* recorded.                                                               *)
(***************************************************************************)
EXTENDS HashInspector, SnapshotValidator, HashTable_proofs

-----------------------------------------------------------------------------
(* The validator. *)

\* The chains that a snapshot copies.
ChainsOf(c) == [0..(c - 1) -> Seq(Entry)]

EntryAt(B, p) == B[p[1]][p[2]]

LEMMA PositionFacts ==
    ASSUME NEW c \in Nat, NEW B \in ChainsOf(c)
    PROVE  /\ \A p \in Positions(B) : /\ p = <<p[1], p[2]>>
                                      /\ p[1] \in DOMAIN B /\ p[1] \in Nat
                                      /\ p[2] \in DOMAIN B[p[1]] /\ p[2] \in Nat
                                      /\ EntryAt(B, p) \in Linked(B) /\ EntryAt(B, p) \in Entry
           /\ \A b \in DOMAIN B : \A i \in DOMAIN B[b] :
                 <<b, i>> \in Positions(B) /\ EntryAt(B, <<b, i>>) = B[b][i]
           /\ \A e \in Linked(B) : \E p \in Positions(B) : e = EntryAt(B, p)
<1>1. DOMAIN B = 0..(c - 1) /\ \A b \in DOMAIN B : B[b] \in Seq(Entry)
  BY DEF ChainsOf
<1>2. \A p : p \in Positions(B) <=>
               \E b \in DOMAIN B : \E i \in DOMAIN B[b] : p = <<b, i>>
  BY DEF Positions
<1>3. \A b \in DOMAIN B : \A i \in DOMAIN B[b] : B[b][i] \in Linked(B) /\ B[b][i] \in Entry
  BY <1>1, LinkedMember
<1>4. \A b \in DOMAIN B : \A i \in DOMAIN B[b] : b \in Nat /\ i \in Nat
  BY <1>1
<1>5. ASSUME NEW e \in Linked(B) PROVE \E p \in Positions(B) : e = EntryAt(B, p)
  <2>1. PICK b \in DOMAIN B : \E i \in DOMAIN B[b] : e = B[b][i]
    BY LinkedMember
  <2>2. PICK i \in DOMAIN B[b] : e = B[b][i]
    BY <2>1
  <2>3. <<b, i>> \in Positions(B)
    BY <1>2
  <2>4. e = EntryAt(B, <<b, i>>)
    BY <2>2 DEF EntryAt
  <2> QED
    BY <2>3, <2>4
<1>6. ASSUME NEW p \in Positions(B)
      PROVE  /\ p = <<p[1], p[2]>>
             /\ p[1] \in DOMAIN B /\ p[1] \in Nat
             /\ p[2] \in DOMAIN B[p[1]] /\ p[2] \in Nat
             /\ EntryAt(B, p) \in Linked(B) /\ EntryAt(B, p) \in Entry
  <2>1. PICK b \in DOMAIN B : \E i \in DOMAIN B[b] : p = <<b, i>>
    BY <1>2
  <2>2. PICK i \in DOMAIN B[b] : p = <<b, i>>
    BY <2>1
  <2>3. p[1] = b /\ p[2] = i
    BY <2>2
  <2> QED
    BY <2>2, <2>3, <1>3, <1>4 DEF EntryAt
<1>7. \A b \in DOMAIN B : \A i \in DOMAIN B[b] :
         <<b, i>> \in Positions(B) /\ EntryAt(B, <<b, i>>) = B[b][i]
  BY <1>2 DEF EntryAt
<1> QED
  BY <1>5, <1>6, <1>7

\* There are finitely many records.
LEMMA FinitePositions ==
    ASSUME NEW c \in Nat, NEW B \in ChainsOf(c) PROVE IsFiniteSet(Positions(B))
<1>1. DOMAIN B = 0..(c - 1) /\ \A b \in DOMAIN B : B[b] \in Seq(Entry)
  BY DEF ChainsOf
<1>2. PICK f : f = [b \in DOMAIN B |-> {b} \X DOMAIN B[b]]
  OBVIOUS
<1>3. \A b \in DOMAIN B : IsFiniteSet(f[b])
  <2> TAKE b \in DOMAIN B
  <2>1. DOMAIN B[b] = 1..Len(B[b]) /\ Len(B[b]) \in Nat
    BY <1>1
  <2>2. IsFiniteSet(DOMAIN B[b])
    BY <2>1, FS_Interval
  <2>3. IsFiniteSet({b})
    BY FS_Singleton
  <2> QED
    BY <1>2, <2>2, <2>3, FS_Product
<1> DEFINE parts == {f[b] : b \in DOMAIN B}
<1>4. IsFiniteSet(DOMAIN B)
  BY <1>1, FS_Interval
<1>5. IsFiniteSet(parts)
  <2>1. DOMAIN f = DOMAIN B
    BY <1>2
  <2>2. f \in Surjection(DOMAIN B, parts)
    BY <2>1, <1>2 DEF Surjection
  <2> HIDE DEF parts
  <2> QED
    BY <2>2, <1>4, FS_Surjection
<1>6. UNION parts = Positions(B)
  BY <1>2 DEF Positions
<1> HIDE DEF parts
<1>7. \A T \in parts : IsFiniteSet(T)
  BY <1>3 DEF parts
<1> QED
  BY <1>5, <1>6, <1>7, FS_UNION

\* The records are as many as the entries when none is linked twice.
LEMMA CountPositions ==
    ASSUME NEW c \in Nat, NEW B \in ChainsOf(c), Distinct(B)
    PROVE  /\ Cardinality(Positions(B)) = Cardinality(Linked(B))
           /\ Cardinality(Linked(B)) \in Nat /\ IsFiniteSet(Linked(B))
<1> DEFINE f == [p \in Positions(B) |-> EntryAt(B, p)]
<1>1. f \in [Positions(B) -> Linked(B)] /\ \A e \in Linked(B) : \E p \in Positions(B) : f[p] = e
  BY PositionFacts
<1>2. ASSUME NEW p \in Positions(B), NEW q \in Positions(B), f[p] = f[q] PROVE p = q
  <2>1. B[p[1]][p[2]] = B[q[1]][q[2]]
    BY <1>2 DEF EntryAt
  <2>2. p[1] = q[1] /\ p[2] = q[2]
    BY <2>1, PositionFacts DEF Distinct
  <2> QED
    BY <2>2, PositionFacts
<1> HIDE DEF f
<1>3. f \in Bijection(Positions(B), Linked(B))
  BY <1>1, <1>2 DEF Bijection, Injection, Surjection, IsInjective
<1>4. ExistsBijection(Positions(B), Linked(B))
  BY <1>3 DEF ExistsBijection
<1>5. IsFiniteSet(Linked(B)) /\ Cardinality(Linked(B)) = Cardinality(Positions(B))
  BY <1>4, FinitePositions, FS_Bijection
<1> QED
  BY <1>5, FS_CardinalityType

\* A snapshot whose header tells the capacity of its chains.
IsSnapshot(s) ==
    s.capacity \in Nat /\ s.chains \in ChainsOf(s.capacity)

\* What the validator asks of the header, of a record, and of two records.
HeaderHolds(s) ==
    /\ s.reported_size = EntryCount(s)
    /\ s.resize_threshold = ThresholdFor(s.capacity)
    /\ ~ (s.reported_size > s.resize_threshold)

RecordHolds(s, next_id, p) ==
    /\ At(s, p).hash = Hash[At(s, p).key]
    /\ p[1] = BucketIndex(Hash[At(s, p).key], s.capacity)
    /\ At(s, p).entry_id # 0
    /\ ~ (At(s, p).entry_id >= next_id)

PairHolds(s, p, q) ==
    /\ At(s, p).entry_id # At(s, q).entry_id
    /\ ~ (At(s, p).hash = At(s, q).hash /\ At(s, p).key = At(s, q).key)

LEMMA CheckedParts ==
    ASSUME NEW s, NEW next_id, NEW p, NEW q
    PROVE  /\ HeaderViolations(s) = {} <=> HeaderHolds(s)
           /\ EntryViolations(s, next_id, p) = {} <=> RecordHolds(s, next_id, p)
           /\ PairViolations(s, p, q) = {} <=> PairHolds(s, p, q)
<1>1. HeaderViolations(s) = {} <=> HeaderHolds(s)
  BY DEF HeaderViolations, HeaderHolds
<1>2. EntryViolations(s, next_id, p) = {} <=> RecordHolds(s, next_id, p)
  BY DEF EntryViolations, RecordHolds
<1>3. PairViolations(s, p, q) = {} <=> PairHolds(s, p, q)
  BY DEF PairViolations, PairHolds
<1> QED
  BY <1>1, <1>2, <1>3

LEMMA ViolationCases ==
    ASSUME NEW s, NEW next_id
    PROVE  Violations(s, next_id) = {} <=>
             /\ HeaderHolds(s)
             /\ \A p \in Positions(s.chains) : RecordHolds(s, next_id, p)
             /\ \A p \in Positions(s.chains) : \A q \in Earlier(s, p) : PairHolds(s, p, q)
<1> DEFINE P == Positions(s.chains)
<1>1. Violations(s, next_id) = {} <=>
         HeaderViolations(s) = {} /\ RecordViolations(s, next_id) = {} /\ RepeatedRecords(s) = {}
  BY DEF Violations
<1>2. RecordViolations(s, next_id) = {} <=> \A p \in P : EntryViolations(s, next_id, p) = {}
  BY DEF RecordViolations
<1>3. RepeatedRecords(s) = {} <=>
         \A p \in P : \A q \in Earlier(s, p) : PairViolations(s, p, q) = {}
  BY DEF RepeatedRecords
<1>4. \A p \in P : EntryViolations(s, next_id, p) = {} <=> RecordHolds(s, next_id, p)
  BY CheckedParts
<1>5. \A p \in P : \A q \in Earlier(s, p) : PairViolations(s, p, q) = {} <=> PairHolds(s, p, q)
  BY CheckedParts
<1>6. HeaderViolations(s) = {} <=> HeaderHolds(s)
  BY CheckedParts
<1> QED
  BY <1>1, <1>2, <1>3, <1>4, <1>5, <1>6

\* Of two records one is the earlier.
LEMMA EarlierFacts ==
    ASSUME NEW s, IsSnapshot(s), NEW p \in Positions(s.chains), NEW q \in Positions(s.chains)
    PROVE  /\ p # q => p \in Earlier(s, q) \/ q \in Earlier(s, p)
           /\ q \in Earlier(s, p) => p # q
<1>1. /\ p = <<p[1], p[2]>> /\ p[1] \in Nat /\ p[2] \in Nat
      /\ q = <<q[1], q[2]>> /\ q[1] \in Nat /\ q[2] \in Nat
  BY PositionFacts DEF IsSnapshot
<1>2. p # q => p[1] # q[1] \/ p[2] # q[2]
  BY <1>1
<1>3. q \in Earlier(s, p) => q[1] < p[1] \/ (q[1] = p[1] /\ q[2] < p[2])
  BY DEF Earlier
<1>4. p[1] < q[1] \/ (p[1] = q[1] /\ p[2] < q[2]) => p \in Earlier(s, q)
  BY DEF Earlier
<1>5. q[1] < p[1] \/ (q[1] = p[1] /\ q[2] < p[2]) => q \in Earlier(s, p)
  BY DEF Earlier
<1> QED
  BY <1>1, <1>2, <1>3, <1>4, <1>5

\* hti_validate_snapshot, hash_snapshot.c: for a snapshot of any size the validator finds no
\* violation exactly when the table is sound, so it accuses no good table and no damage of a
\* counter, an id, a hash or a link escapes it.
THEOREM ValidatorExact ==
    ASSUME NEW s, IsSnapshot(s), s.reported_size \in Nat, s.resize_threshold \in Nat,
           NEW next_id \in Nat
    PROVE  Violations(s, next_id) = {} <=> Sound(s, next_id)
<1> DEFINE B == s.chains
           c == s.capacity
<1>1. c \in Nat /\ B \in ChainsOf(c) /\ \A p : At(s, p) = EntryAt(B, p)
  BY DEF IsSnapshot, At, EntryAt
<1>2. /\ \A p \in Positions(B) : /\ p = <<p[1], p[2]>>
                                  /\ p[1] \in DOMAIN B /\ p[1] \in Nat
                                  /\ p[2] \in DOMAIN B[p[1]] /\ p[2] \in Nat
                                  /\ EntryAt(B, p) \in Linked(B) /\ EntryAt(B, p) \in Entry
      /\ \A b \in DOMAIN B : \A i \in DOMAIN B[b] :
            <<b, i>> \in Positions(B) /\ EntryAt(B, <<b, i>>) = B[b][i]
      /\ \A e \in Linked(B) : \E p \in Positions(B) : e = EntryAt(B, p)
  BY <1>1, PositionFacts
<1>3. ASSUME Sound(s, next_id) PROVE Violations(s, next_id) = {}
  <2>1. Cardinality(Positions(B)) = Cardinality(Linked(B))
    BY <1>1, <1>3, CountPositions DEF Sound
  <2>2. s.reported_size = EntryCount(s)
    BY <2>1, <1>3 DEF Sound, EntryCount
  <2>3. s.resize_threshold = ThresholdFor(s.capacity) /\ ~ (s.reported_size > s.resize_threshold)
    BY <1>3 DEF Sound
  <2>4. ASSUME NEW p \in Positions(B)
        PROVE  /\ At(s, p).hash = Hash[At(s, p).key]
               /\ p[1] = BucketIndex(Hash[At(s, p).key], s.capacity)
               /\ At(s, p).entry_id # 0
               /\ ~ (At(s, p).entry_id >= next_id)
    <3>1. /\ EntryAt(B, p) \in Linked(B) /\ p[1] \in DOMAIN B /\ p[2] \in DOMAIN B[p[1]]
      BY <1>2
    <3>2. EntryAt(B, p).hash = Hash[EntryAt(B, p).key]
          /\ EntryAt(B, p).entry_id \in 1..(next_id - 1)
      BY <3>1, <1>3 DEF Sound
    <3>3. BucketIndex(EntryAt(B, p).hash, c) = p[1]
      BY <3>1, <1>3 DEF Sound, Placed, EntryAt
    <3> QED
      BY <1>1, <3>2, <3>3
  <2>5. ASSUME NEW p \in Positions(B), NEW q \in Earlier(s, p)
        PROVE  At(s, p).entry_id # At(s, q).entry_id /\ At(s, p).key # At(s, q).key
    <3>1. q \in Positions(B)
      BY DEF Earlier
    <3>2. p # q
      BY <3>1, EarlierFacts
    <3>3. ~ (p[1] = q[1] /\ p[2] = q[2])
      BY <3>1, <3>2, <1>2
    <3> QED
      BY <3>1, <3>3, <1>1, <1>2, <1>3 DEF Sound, Distinct, EntryAt
  <2> QED
    BY <2>2, <2>3, <2>4, <2>5, ViolationCases DEF HeaderHolds, RecordHolds, PairHolds
<1>4. ASSUME Violations(s, next_id) = {} PROVE Sound(s, next_id)
  <2>1. /\ s.reported_size = EntryCount(s)
        /\ s.resize_threshold = ThresholdFor(s.capacity)
        /\ ~ (s.reported_size > s.resize_threshold)
        /\ \A p \in Positions(B) :
              /\ At(s, p).hash = Hash[At(s, p).key]
              /\ p[1] = BucketIndex(Hash[At(s, p).key], s.capacity)
              /\ At(s, p).entry_id # 0
              /\ ~ (At(s, p).entry_id >= next_id)
        /\ \A p \in Positions(B) : \A q \in Earlier(s, p) :
              /\ At(s, p).entry_id # At(s, q).entry_id
              /\ ~ (At(s, p).hash = At(s, q).hash /\ At(s, p).key = At(s, q).key)
    BY <1>4, ViolationCases DEF HeaderHolds, RecordHolds, PairHolds
  <2>2. Placed(B, c)
    <3>1. ASSUME NEW b \in DOMAIN B, NEW i \in DOMAIN B[b]
          PROVE  BucketIndex(B[b][i].hash, c) = b
      <4> DEFINE p == <<b, i>>
      <4>1. p \in Positions(B) /\ EntryAt(B, p) = B[b][i] /\ p[1] = b
        BY <1>2
      <4> HIDE DEF p
      <4> QED
        BY <4>1, <2>1, <1>1
    <3> QED
      BY <3>1 DEF Placed
  <2>3. Distinct(B)
    <3>1. ASSUME NEW b \in DOMAIN B, NEW d \in DOMAIN B, NEW i \in DOMAIN B[b],
                 NEW j \in DOMAIN B[d],
                 B[b][i].key = B[d][j].key \/ B[b][i].entry_id = B[d][j].entry_id
          PROVE  b = d /\ i = j
      <4> DEFINE p == <<b, i>>
                 q == <<d, j>>
      <4>1. /\ p \in Positions(B) /\ q \in Positions(B)
            /\ At(s, p) = B[b][i] /\ At(s, q) = B[d][j]
        BY <1>1, <1>2
      <4>2. p = q => b = d /\ i = j
        OBVIOUS
      <4> HIDE DEF p, q
      <4>3. At(s, p).key = At(s, q).key => At(s, p).hash = At(s, q).hash
        BY <4>1, <2>1
      <4>4. p \notin Earlier(s, q) /\ q \notin Earlier(s, p)
        BY <3>1, <4>1, <4>3, <2>1
      <4> QED
        BY <4>1, <4>2, <4>4, EarlierFacts
    <3> QED
      BY <3>1 DEF Distinct
  <2>4. s.reported_size = Cardinality(Linked(B))
    BY <2>1, <2>3, <1>1, CountPositions DEF EntryCount
  <2>5. ASSUME NEW e \in Linked(B) PROVE e.hash = Hash[e.key] /\ e.entry_id \in 1..(next_id - 1)
    <3>1. PICK p \in Positions(B) : e = EntryAt(B, p)
      BY <1>2
    <3>2. e.entry_id \in Nat
      BY <3>1, <1>2 DEF Entry
    <3>3. e.hash = Hash[e.key] /\ e.entry_id # 0 /\ ~ (e.entry_id >= next_id)
      BY <3>1, <2>1, <1>1
    <3> QED
      BY <3>2, <3>3
  <2> QED
    BY <2>1, <2>2, <2>3, <2>4, <2>5 DEF Sound
<1> QED
  BY <1>3, <1>4

\* hash_snapshot.c:126-193, hti_validate_snapshot: whatever snapshot it is given, however its
\* counters, ids, hashes and chains are damaged, it finds no violation exactly when the table
\* is sound.
THEOREM ValidatorIsRight == ValidatorSpec => []ValidatorIsExact
<1> DEFINE Found == /\ subject \in Subjects
                     /\ verdict \in {{"not judged"}, Violations(subject, NextId)}
<1>1. ValidatorInit => Found
  BY DEF ValidatorInit
<1>2. Found /\ [Validate]_<<subject, verdict>> => Found'
  BY DEF Validate
<1>3. Found => ValidatorIsExact
  <2> SUFFICES ASSUME Found, verdict # {"not judged"}
               PROVE  verdict = {} <=> Sound(subject, NextId)
    BY DEF ValidatorIsExact
  <2>1. /\ NextId \in Nat /\ IsSnapshot(subject)
        /\ subject.reported_size \in Nat /\ subject.resize_threshold \in Nat
    BY SubjectsAssumption DEF IsSnapshot, ChainsOf
  <2>2. verdict = Violations(subject, NextId)
    OBVIOUS
  <2> QED
    BY <2>1, <2>2, ValidatorExact
<1> QED
  BY <1>1, <1>2, <1>3, PTL DEF ValidatorSpec

\* A size that is one too high is all that the validator finds, but for the load that goes with it.
LEMMA OneTooMany ==
    ASSUME NEW s, IsSnapshot(s), s.reported_size \in Nat, s.resize_threshold \in Nat,
           NEW next_id \in Nat, Sound(s, next_id),
           NEW t, t.chains = s.chains, t.capacity = s.capacity,
           t.resize_threshold = s.resize_threshold, t.reported_size = s.reported_size + 1
    PROVE  /\ "SIZE_MISMATCH" \in Violations(t, next_id)
           /\ Violations(t, next_id) \subseteq {"SIZE_MISMATCH", "LOAD_EXCEEDED"}
<1>1. Violations(s, next_id) = {}
  BY ValidatorExact
<1>2. s.reported_size = EntryCount(s) /\ s.resize_threshold = ThresholdFor(s.capacity)
  BY <1>1, ViolationCases DEF HeaderHolds
<1>3. EntryCount(t) = EntryCount(s)
  BY DEF EntryCount
<1>4. /\ "SIZE_MISMATCH" \in HeaderViolations(t)
      /\ HeaderViolations(t) \subseteq {"SIZE_MISMATCH", "LOAD_EXCEEDED"}
  <2>1. /\ t.reported_size # EntryCount(t)
        /\ t.resize_threshold = ThresholdFor(t.capacity)
    BY <1>2, <1>3
  <2>2. "SIZE_MISMATCH" \in HeaderViolations(t)
    BY <2>1 DEF HeaderViolations
  <2>3. "RESIZE_THRESHOLD" \notin HeaderViolations(t)
    BY <2>1 DEF HeaderViolations
  <2>4. HeaderViolations(t) \subseteq {"SIZE_MISMATCH", "RESIZE_THRESHOLD", "LOAD_EXCEEDED"}
    BY DEF HeaderViolations
  <2> QED
    BY <2>2, <2>3, <2>4
<1>5. \A p : At(t, p) = At(s, p)
  BY DEF At
<1>6. ASSUME NEW p \in Positions(s.chains)
      PROVE  /\ EntryViolations(t, next_id, p) = {}
             /\ \A q \in Earlier(s, p) : PairViolations(t, p, q) = {}
  <2>1. RecordHolds(s, next_id, p) /\ \A q \in Earlier(s, p) : PairHolds(s, p, q)
    BY <1>1, ViolationCases
  <2>2. RecordHolds(t, next_id, p)
    BY <2>1, <1>5 DEF RecordHolds
  <2>3. ASSUME NEW q \in Earlier(s, p) PROVE PairHolds(t, p, q)
    BY <2>1, <1>5 DEF PairHolds
  <2> QED
    BY <2>2, <2>3, CheckedParts
<1>7. \A p : Earlier(t, p) = Earlier(s, p)
  BY DEF Earlier
<1>8. RecordViolations(t, next_id) = {}
  BY <1>6 DEF RecordViolations
<1>9. RepeatedRecords(t) = {}
  BY <1>6, <1>7 DEF RepeatedRecords
<1>10. Violations(t, next_id) = HeaderViolations(t)
  BY <1>8, <1>9 DEF Violations
<1> QED
  BY <1>4, <1>10

-----------------------------------------------------------------------------
(* The table of a session. *)

Stages == {"none", "creating", "idle", "call", "return"}

\* A session has a table from its creation on, and a call of the table is in progress
\* in a call of the session only.
StageTellsPlace ==
    /\ stage \in Stages
    /\ stage = "none" => pc = "absent"
    /\ stage = "creating" => pc \in {"absent", "create", "ready"}
    /\ stage \in {"idle", "return"} => pc = "ready"
    /\ stage = "call" => pc \in {"grow", "relink", "link"} /\ entry # NULL

\* In quarantine the active table is all that the invariant of a table says, but for its
\* size, and the backup is this table with the true size.
CloneStands ==
    /\ stage = "idle"
    /\ TypeOK /\ WellFormed /\ NoLeak
    /\ IsFiniteSet(Linked(buckets)) /\ IsFiniteSet(Linked(new_buckets))
    /\ moved_count = Cardinality(Linked(new_buckets))
    /\ resize_threshold = ThresholdFor(capacity)
    /\ backup \in Tables
    /\ backup.buckets = buckets /\ backup.capacity = capacity
    /\ backup.resize_threshold = resize_threshold
    /\ backup.next_entry_id = next_entry_id /\ backup.live_blocks = live_blocks
    /\ backup.size = Cardinality(Linked(buckets)) /\ backup.size <= resize_threshold
    /\ size = backup.size + 1

\* The inductive invariant of the tables: outside of quarantine there is one of them, and
\* it is a table as HashTable has it.
TInv ==
    /\ StageTellsPlace
    /\ ArraysSized
    /\ quarantined \in BOOLEAN
    /\ ~ quarantined => IInv /\ backup = NULL
    /\ quarantined => CloneStands

LEMMA SizedStays == ASSUME ArraysSized, UNCHANGED state PROVE ArraysSized'
BY DEF ArraysSized, state, table, rehash

\* A step of the table, or one that leaves it alone.
LEMMA TableKept ==
    ASSUME IInv, ArraysSized, Next \/ UNCHANGED state
    PROVE  IInv' /\ ArraysSized'
<1>1. CASE Next
  BY <1>1, NextStep, SizedStep
<1>2. CASE UNCHANGED state
  BY <1>2, Unchanged, SizedStays
<1> QED
  BY <1>1, <1>2

LEMMA StaysKeeps == ASSUME TableStays PROVE UNCHANGED state
BY DEF TableStays, state

\* What there is in quarantine: chains in one array, as many entries as the backup says.
LEMMA CloneFacts ==
    ASSUME CloneStands, StageTellsPlace
    PROVE  /\ pc = "ready" /\ entry = NULL /\ Linked(new_buckets) = {}
           /\ new_buckets \in [{} -> Seq(Entry)] /\ new_capacity = 0 /\ moved_count = 0
           /\ Contents = Linked(buckets) /\ Cardinality(Linked(buckets)) \in Nat
           /\ live_blocks = 2 + Cardinality(Linked(buckets))
           /\ capacity \in Nat \ {0} /\ next_entry_id \in Nat \ {0}
<1>1. pc = "ready"
  BY DEF CloneStands, StageTellsPlace
<1>2. /\ entry = NULL /\ new_buckets \in [{} -> Seq(Entry)] /\ new_capacity = 0
      /\ capacity \in Nat \ {0}
  BY <1>1 DEF CloneStands, TypeOK
<1>3. next_entry_id \in Nat \ {0}
  BY <1>1, LimitAssumption DEF CloneStands, TypeOK, Alive
<1>4. Linked(new_buckets) = {}
  BY <1>2, NoArrayFacts
<1>5. Cardinality({}) = 0 /\ Cardinality(Linked(buckets)) \in Nat
  BY FS_EmptySet, FS_CardinalityType DEF CloneStands
<1>6. live_blocks = 2 + Cardinality(Linked(buckets))
  BY <1>1, <1>2, <1>4, <1>5 DEF CloneStands, NoLeak
<1>7. moved_count = 0 /\ Contents = Linked(buckets)
  BY <1>4, <1>5 DEF CloneStands, Contents
<1> QED
  BY <1>1, <1>2, <1>3, <1>4, <1>5, <1>6, <1>7

\* The corrupted clone is destroyed with the entries that it has, not with as many as it says.
LEMMA CloneDestroyed ==
    ASSUME CloneStands, StageTellsPlace, Destroy PROVE IInv' /\ ArraysSized'
<1>1. /\ pc = "ready" /\ pc' = "absent" /\ buckets' = EmptyBuckets(0)
      /\ size' = 0 /\ capacity' = 0 /\ resize_threshold' = 0 /\ revision' = 0 /\ next_entry_id' = 0
      /\ live_blocks' = live_blocks - (Cardinality(Linked(buckets)) + 2)
      /\ UNCHANGED <<new_buckets, new_capacity, moved_count, entry>>
  BY DEF Destroy, rehash
<1>2. /\ new_buckets' \in [{} -> Seq(Entry)] /\ moved_count = 0 /\ entry = NULL
      /\ new_capacity = 0 /\ live_blocks' = 0
  BY <1>1, CloneFacts
<1>3. TypeOK'
  BY <1>1, <1>2, EmptyFacts, LimitAssumption DEF TypeOK, PCs, Alive
<1>4. /\ Linked(buckets') = {} /\ Linked(new_buckets') = {}
      /\ Placed(buckets', capacity') /\ Placed(new_buckets', new_capacity')
      /\ Distinct(buckets') /\ Distinct(new_buckets')
  BY <1>1, <1>2, EmptyFacts, NoArrayFacts
<1>5. WellFormed'
  BY <1>1, <1>2, <1>4 DEF WellFormed, Contents
<1>6. Counted'
  <2>1. Cardinality(Linked(buckets')) = 0 /\ Cardinality(Linked(new_buckets')) = 0
        /\ IsFiniteSet(Linked(buckets')) /\ IsFiniteSet(Linked(new_buckets'))
    BY <1>4, FS_EmptySet
  <2>2. SizeCounts' /\ NoLeak'
    BY <1>1, <1>2, <2>1 DEF SizeCounts, NoLeak
  <2> QED
    BY <2>1, <2>2 DEF Counted
<1>7. LoadBounded'
  BY <1>1 DEF LoadBounded, ThresholdFor
<1>8. ArraysSized'
  BY <1>1 DEF ArraysSized
<1> QED
  BY <1>3, <1>5, <1>6, <1>7, <1>8 DEF IInv

\* A table that a caller can use is a table that a pointer points to.
LEMMA SavedIsTable ==
    ASSUME IInv, ArraysSized, pc = "ready"
    PROVE  /\ Saved \in Tables /\ Saved # NULL
           /\ live_blocks = 2 + Cardinality(Linked(buckets))
           /\ size = Cardinality(Linked(buckets)) /\ size <= resize_threshold
           /\ Linked(new_buckets) = {} /\ entry = NULL
<1>1. /\ capacity \in Nat \ {0} /\ buckets \in [0..(capacity - 1) -> Seq(Entry)]
      /\ size \in Nat /\ resize_threshold \in Nat /\ entry = NULL
      /\ revision \in 0..U64Max /\ next_entry_id \in 0..U64Max
  BY ReadyFacts DEF IInv, TypeOK
<1>2. capacity \in 1..SizeMax
  <2>1. capacity * PointerSize <= SizeMax
    BY <1>1 DEF ArraysSized, Sized
  <2>2. capacity <= capacity * PointerSize /\ capacity * PointerSize \in Nat
    <3>1. PointerSize \in Nat /\ PointerSize > 0
      BY LimitAssumption
    <3>2. capacity * PointerSize = capacity + capacity * (PointerSize - 1)
          /\ capacity * (PointerSize - 1) \in Nat
      BY <1>1, <3>1
    <3> QED
      BY <1>1, <3>2
  <2> DEFINE bytes == capacity * PointerSize
  <2>3. bytes \in Nat /\ capacity <= bytes /\ bytes <= SizeMax /\ SizeMax \in Nat
    BY <2>1, <2>2, LimitAssumption
  <2> HIDE DEF bytes
  <2> QED
    BY <1>1, <2>3
<1>3. buckets \in BucketArrays
  BY <1>1, <1>2 DEF BucketArrays
<1>4. Linked(new_buckets) = {} /\ size = Cardinality(Linked(buckets))
  BY OneArray
<1>5. live_blocks = 2 + Cardinality(Linked(buckets))
  <2>1. Cardinality(Linked(new_buckets)) = 0
    BY <1>4, FS_EmptySet
  <2> QED
    BY <1>1, <1>4, <2>1 DEF IInv, Counted, NoLeak
<1>6. live_blocks \in Nat
  BY <1>1, <1>4, <1>5
<1>7. Saved \in Tables
  BY <1>1, <1>3, <1>6 DEF Saved, Tables
<1> QED
  BY <1>1, <1>4, <1>5, <1>7, NoNullAssumption DEF IInv, LoadBounded

LEMMA CorruptStep == ASSUME TInv, CorruptSize PROVE CloneStands' /\ StageTellsPlace' /\ ArraysSized'
<1>1. /\ ~ quarantined /\ stage = "idle"
      /\ backup' = Saved /\ size' = size + 1 /\ Bump
      /\ live_blocks' = 2 + Cardinality(Linked(buckets))
      /\ UNCHANGED <<buckets, capacity, resize_threshold, next_entry_id,
                     new_buckets, new_capacity, moved_count, pc, entry>>
  BY DEF CorruptSize, Accepts, Begins, rehash
<1>2. stage' = "idle"
  BY DEF CorruptSize, FinishesWith, Finishes
<1>3. IInv /\ ArraysSized /\ pc = "ready"
  BY <1>1 DEF TInv, StageTellsPlace
<1>4. /\ Saved \in Tables /\ live_blocks' = live_blocks
      /\ size = Cardinality(Linked(buckets)) /\ size <= resize_threshold
      /\ Linked(new_buckets) = {} /\ entry = NULL
  BY <1>1, <1>3, SavedIsTable
<1>5. /\ Saved.buckets = buckets /\ Saved.size = size /\ Saved.capacity = capacity
      /\ Saved.resize_threshold = resize_threshold /\ Saved.next_entry_id = next_entry_id
      /\ Saved.live_blocks = live_blocks
  BY DEF Saved
<1>6. TypeOK'
  <2>1. revision' \in 0..U64Max
    BY <1>1, <1>3, BumpStep
  <2> QED
    BY <1>1, <1>3, <2>1 DEF IInv, TypeOK, Alive
<1>7. Linked(buckets') = Linked(buckets) /\ Linked(new_buckets') = Linked(new_buckets)
      /\ Contents' = Contents
  BY <1>1 DEF Contents
<1>8. WellFormed'
  <2>1. /\ Placed(buckets', capacity') /\ Placed(new_buckets', new_capacity')
        /\ Distinct(buckets') /\ Distinct(new_buckets')
    BY <1>1, <1>3 DEF IInv, WellFormed
  <2> QED
    BY <1>1, <1>3, <1>7, <2>1 DEF IInv, WellFormed
<1>9. NoLeak'
  BY <1>1, <1>3, <1>4, <1>7 DEF IInv, Counted, NoLeak
<1>10. /\ IsFiniteSet(Linked(buckets')) /\ IsFiniteSet(Linked(new_buckets'))
       /\ moved_count' = Cardinality(Linked(new_buckets'))
  BY <1>1, <1>3, <1>7 DEF IInv, Counted, SizeCounts
<1>11. resize_threshold' = ThresholdFor(capacity')
  BY <1>1, <1>3 DEF IInv, LoadBounded
<1>12. CloneStands'
  BY <1>1, <1>2, <1>4, <1>5, <1>6, <1>7, <1>8, <1>9, <1>10, <1>11 DEF CloneStands
<1>13. StageTellsPlace'
  BY <1>1, <1>2, <1>3 DEF StageTellsPlace, Stages
<1>14. ArraysSized'
  BY <1>1, <1>3 DEF ArraysSized
<1> QED
  BY <1>12, <1>13, <1>14

LEMMA RestoreStep == ASSUME TInv, Restore PROVE IInv' /\ StageTellsPlace' /\ ArraysSized'
<1>1. /\ quarantined /\ stage = "idle"
      /\ buckets' = backup.buckets /\ size' = backup.size /\ capacity' = backup.capacity
      /\ resize_threshold' = backup.resize_threshold /\ revision' = backup.revision
      /\ next_entry_id' = backup.next_entry_id /\ live_blocks' = backup.live_blocks
      /\ UNCHANGED <<new_buckets, new_capacity, moved_count, pc, entry>>
  BY DEF Restore, Restored, Begins, rehash
<1>2. stage' = "idle"
  BY DEF Restore, FinishesWith, Finishes
<1>3. CloneStands /\ StageTellsPlace /\ ArraysSized
  BY <1>1 DEF TInv
<1>4. /\ pc = "ready" /\ entry = NULL /\ Linked(new_buckets) = {}
      /\ new_capacity = 0 /\ moved_count = 0
      /\ Cardinality(Linked(buckets)) \in Nat
  BY <1>3, CloneFacts
<1>5. /\ buckets' = buckets /\ capacity' = capacity /\ resize_threshold' = resize_threshold
      /\ next_entry_id' = next_entry_id /\ live_blocks' = live_blocks
      /\ size' = Cardinality(Linked(buckets)) /\ size' <= resize_threshold
      /\ resize_threshold = ThresholdFor(capacity)
      /\ revision' \in 0..U64Max
  BY <1>1, <1>3 DEF CloneStands, Tables
<1>6. TypeOK'
  BY <1>1, <1>3, <1>4, <1>5 DEF CloneStands, TypeOK, Alive
<1>7. Linked(buckets') = Linked(buckets) /\ Linked(new_buckets') = Linked(new_buckets)
      /\ Contents' = Contents
  BY <1>1, <1>5 DEF Contents
<1>8. WellFormed'
  <2>1. /\ Placed(buckets', capacity') /\ Placed(new_buckets', new_capacity')
        /\ Distinct(buckets') /\ Distinct(new_buckets')
    BY <1>1, <1>3, <1>5 DEF CloneStands, WellFormed
  <2> QED
    BY <1>1, <1>3, <1>5, <1>7, <2>1 DEF CloneStands, WellFormed
<1>9. Counted'
  <2>1. IsFiniteSet(Linked(buckets')) /\ IsFiniteSet(Linked(new_buckets'))
    BY <1>3, <1>7 DEF CloneStands
  <2>2. NoLeak'
    BY <1>1, <1>3, <1>5, <1>7 DEF CloneStands, NoLeak
  <2>3. Cardinality(Linked(new_buckets')) = 0
    BY <1>4, <1>7, FS_EmptySet
  <2>4. SizeCounts'
    BY <1>1, <1>4, <1>5, <1>7, <2>3 DEF SizeCounts
  <2> QED
    BY <2>1, <2>2, <2>4 DEF Counted
<1>10. LoadBounded'
  BY <1>1, <1>4, <1>5 DEF LoadBounded
<1>11. StageTellsPlace'
  BY <1>1, <1>2, <1>4 DEF StageTellsPlace, Stages
<1>12. ArraysSized'
  BY <1>1, <1>3, <1>4, <1>5 DEF ArraysSized
<1> QED
  BY <1>6, <1>8, <1>9, <1>10, <1>11, <1>12 DEF IInv

\* The steps of the table in a call of the session.
CallBegins ==
    \/ \E k \in Keys, v \in Values : PutUpdates(k, v) \/ PutAllocates(k, v)
    \/ \E k \in Keys :
          \/ PutRefused(k) \/ GetHits(k) \/ RemoveHits(k)
          \/ Misses("get", "LOOKUP_MISS", k) \/ Misses("remove", "DELETE_MISS", k)

\* A call that begins and one that goes on, with the result that the sink writes into.
SessionStarts ==
    /\ Accepts /\ Begins /\ CallBegins
    /\ \E op \in {"put", "lookup", "delete"} : TableSteps(Begun(op), "OK")

LEMMA StartsAre ==
    ASSUME NEW k \in Keys,
           SessionLookup(k) \/ SessionDelete(k) \/ \E v \in Values : SessionPut(k, v)
    PROVE  SessionStarts
BY DEF SessionLookup, SessionDelete, SessionPut, SessionStarts, CallBegins

\* A call that begins, and every step of one but the last, which returns.
LEMMA StartsPlace ==
    ASSUME IInv, CallBegins
    PROVE  /\ Next /\ pc = "ready"
           /\ pc' = "ready" \/ (pc' \in {"grow", "link"} /\ entry' # NULL)
<1>1. Next
  BY DEF CallBegins, Next, Calls
<1>2. CASE \E k \in Keys, v \in Values : PutAllocates(k, v)
  <2>1. PICK k \in Keys, v \in Values : PutAllocates(k, v)
    BY <1>2
  <2>2. IInv'
    BY <1>1, NextStep
  <2> QED
    BY <1>1, <2>1, <2>2 DEF PutAllocates, IInv, TypeOK
<1>3. CASE ~ \E k \in Keys, v \in Values : PutAllocates(k, v)
  <2>1. pc = "ready" /\ pc' = pc
    BY <1>3 DEF CallBegins, PutUpdates, PutRefused, GetHits, RemoveHits, Misses, ReadOnly, Idle
  <2> QED
    BY <1>1, <2>1
<1> QED
  BY <1>2, <1>3

LEMMA ContinuesPlace ==
    ASSUME IInv, Continue, entry # NULL
    PROVE  /\ Next
           /\ pc' = "ready" \/ (pc' \in {"grow", "relink", "link"} /\ entry' # NULL)
<1>1. Next
  BY DEF Next
<1>2. CASE GrowFails \/ LinkEntry
  BY <1>1, <1>2 DEF GrowFails, GrowthRefused, LinkEntry
<1>3. CASE Grow \/ Relink \/ EndRehash
  BY <1>1, <1>3 DEF Grow, BeginRehash, Relink, EndRehash
<1> QED
  BY <1>2, <1>3 DEF Continue

LEMMA CloneKept ==
    ASSUME CloneStands, UNCHANGED state, backup' = backup, stage' = stage
    PROVE  CloneStands'
<1>1. /\ buckets' = buckets /\ size' = size /\ capacity' = capacity
      /\ resize_threshold' = resize_threshold /\ revision' = revision
      /\ next_entry_id' = next_entry_id /\ new_buckets' = new_buckets
      /\ new_capacity' = new_capacity /\ moved_count' = moved_count /\ pc' = pc
      /\ entry' = entry /\ live_blocks' = live_blocks
  BY DEF state, table, rehash
<1>2. Linked(buckets)' = Linked(buckets) /\ Linked(new_buckets)' = Linked(new_buckets)
      /\ Contents' = Contents
  BY <1>1 DEF Contents
<1>3. TypeOK'
  BY <1>1 DEF CloneStands, TypeOK, Alive
<1>4. /\ Placed(buckets, capacity)' /\ Placed(new_buckets, new_capacity)'
      /\ Distinct(buckets)' /\ Distinct(new_buckets)'
  BY <1>1 DEF CloneStands, WellFormed
<1>5. WellFormed'
  BY <1>1, <1>2, <1>4 DEF CloneStands, WellFormed
<1>6. NoLeak'
  BY <1>1, <1>2 DEF CloneStands, NoLeak
<1> QED
  BY <1>1, <1>2, <1>3, <1>5, <1>6 DEF CloneStands

\* The end of a session, or of an attempt to create one.
SessionEnds == SessionRefused \/ SessionHasNoTable \/ SessionNotCaptured \/ SessionDestroy

LEMMA EndsTable == ASSUME TInv, SessionEnds PROVE TInv'
<1>1. stage' = "none" /\ quarantined' = FALSE /\ backup' = NULL
  BY DEF SessionEnds, SessionRefused, SessionHasNoTable, SessionNotCaptured, SessionDestroy, Gone
<1>2. pc' = "absent"
  BY DEF SessionEnds, SessionRefused, SessionHasNoTable, SessionNotCaptured, SessionDestroy,
         TableStays, CreateRefused, CreateFails, Destroy, TInv, StageTellsPlace
<1>3. IInv' /\ ArraysSized'
  <2>1. CASE quarantined
    <3>1. stage = "idle" /\ CloneStands /\ StageTellsPlace
      BY <2>1 DEF TInv, CloneStands
    <3>2. Destroy
      BY <3>1 DEF SessionEnds, SessionRefused, SessionHasNoTable, SessionNotCaptured, SessionDestroy
    <3> QED
      BY <3>1, <3>2, CloneDestroyed
  <2>2. CASE ~ quarantined
    <3>1. Next \/ UNCHANGED state
      <4>1. CASE SessionRefused
        BY <4>1, StaysKeeps DEF SessionRefused
      <4>2. CASE SessionHasNoTable \/ SessionNotCaptured \/ SessionDestroy
        BY <4>2 DEF SessionHasNoTable, SessionNotCaptured, SessionDestroy, Next, Lifecycle
      <4> QED
        BY <4>1, <4>2 DEF SessionEnds
    <3> QED
      BY <2>2, <3>1, TableKept DEF TInv
  <2> QED
    BY <2>1, <2>2 DEF TInv
<1>4. StageTellsPlace'
  BY <1>1, <1>2 DEF StageTellsPlace, Stages
<1> QED
  BY <1>1, <1>3, <1>4 DEF TInv

LEMMA BuildsTable ==
    ASSUME TInv, SessionBegins \/ SessionMakesTable \/ SessionCreated PROVE TInv'
<1>1. ~ quarantined /\ IInv /\ backup = NULL /\ ArraysSized
  BY DEF SessionBegins, SessionMakesTable, SessionCreated, TInv, CloneStands
<1>2. quarantined' = quarantined /\ backup' = backup
  BY DEF SessionBegins, SessionMakesTable, SessionCreated, session
<1>3. Next \/ UNCHANGED state
  BY StaysKeeps DEF SessionBegins, SessionMakesTable, SessionCreated, Next, Lifecycle
<1>4. IInv' /\ ArraysSized'
  BY <1>1, <1>3, TableKept
<1>5. StageTellsPlace'
  <2>1. CASE SessionBegins
    BY <2>1 DEF SessionBegins, TableStays, TInv, StageTellsPlace, Stages
  <2>2. CASE SessionCreated
    BY <2>2 DEF SessionCreated, TableStays, StageTellsPlace, Stages
  <2>3. CASE SessionMakesTable
    <3>1. stage' = "creating" /\ pc' \in {"create", "ready"}
      BY <2>3 DEF SessionMakesTable, session, CreateTable, CreateBuckets
    <3> QED
      BY <3>1 DEF StageTellsPlace, Stages
  <2> QED
    BY <2>1, <2>2, <2>3
<1> QED
  BY <1>1, <1>2, <1>4, <1>5 DEF TInv

LEMMA CallsTable == ASSUME TInv, SessionStarts \/ SessionContinues PROVE TInv'
<1>1. /\ ~ quarantined /\ IInv /\ backup = NULL /\ ArraysSized
      /\ stage = "call" => entry # NULL
  BY DEF SessionStarts, SessionContinues, Accepts, TInv, CloneStands, StageTellsPlace
<1>2. /\ quarantined' = quarantined /\ backup' = backup
      /\ stage' = IF pc' = "ready" THEN "return" ELSE "call"
  BY DEF SessionStarts, SessionContinues, TableSteps
<1>3. Next /\ (pc' = "ready" \/ (pc' \in {"grow", "relink", "link"} /\ entry' # NULL))
  <2>1. CASE SessionStarts
    BY <2>1, <1>1, StartsPlace DEF SessionStarts
  <2>2. CASE SessionContinues
    BY <2>2, <1>1, ContinuesPlace DEF SessionContinues
  <2> QED
    BY <2>1, <2>2
<1>4. IInv' /\ ArraysSized'
  BY <1>1, <1>3, TableKept
<1>5. StageTellsPlace'
  BY <1>2, <1>3 DEF StageTellsPlace, Stages
<1> QED
  BY <1>1, <1>2, <1>4, <1>5 DEF TInv

\* What leaves the table alone.
SessionReads ==
    SessionReturns \/ SessionValidate \/ CorruptFails \/ SessionRejects \/ UNCHANGED allvars

LEMMA ReadsStay ==
    ASSUME SessionReads
    PROVE  /\ UNCHANGED state /\ backup' = backup /\ quarantined' = quarantined
           /\ stage' = stage \/ (stage \in {"idle", "return"} /\ stage' = "idle")
<1>1. CASE SessionReturns
  BY <1>1, StaysKeeps DEF SessionReturns, FinishesWith, Finishes
<1>2. CASE SessionValidate
  BY <1>2, StaysKeeps DEF SessionValidate, Begins, FinishesWith, Finishes
<1>3. CASE CorruptFails
  BY <1>3, StaysKeeps DEF CorruptFails, Begins, FinishesWith, Finishes
<1>4. CASE SessionRejects
  BY <1>4, StaysKeeps DEF SessionRejects, Rejects
<1>5. CASE UNCHANGED allvars
  BY <1>5 DEF allvars, vars, session, state
<1> QED
  BY <1>1, <1>2, <1>3, <1>4, <1>5 DEF SessionReads

LEMMA ReadsTable == ASSUME TInv, SessionReads PROVE TInv'
<1>1. /\ UNCHANGED state /\ backup' = backup /\ quarantined' = quarantined
      /\ stage' = stage \/ (stage \in {"idle", "return"} /\ stage' = "idle")
  BY ReadsStay
<1>2. pc' = pc /\ entry' = entry
  BY <1>1 DEF state
<1>3. StageTellsPlace'
  BY <1>1, <1>2 DEF TInv, StageTellsPlace, Stages
<1>4. CASE quarantined
  <2>1. CloneStands /\ ArraysSized /\ stage = "idle"
    BY <1>4 DEF TInv, CloneStands
  <2>2. CloneStands' /\ ArraysSized'
    BY <1>1, <2>1, CloneKept, SizedStays
  <2> QED
    BY <1>1, <1>3, <1>4, <2>2 DEF TInv
<1>5. CASE ~ quarantined
  <2>1. IInv' /\ ArraysSized'
    BY <1>1, <1>5, TableKept DEF TInv
  <2> QED
    BY <1>1, <1>3, <1>5, <2>1 DEF TInv
<1> QED
  BY <1>4, <1>5

\* The steps of a session.
LEMMA SessionSteps ==
    ASSUME [SessionNext]_allvars
    PROVE  \/ SessionEnds \/ SessionBegins \/ SessionMakesTable \/ SessionCreated
           \/ SessionStarts \/ SessionContinues \/ SessionReads \/ CorruptSize \/ Restore
BY StartsAre DEF SessionNext, SessionCalls, SessionProceeds, SessionEnds, SessionReads

LEMMA SessionTableStep == ASSUME TInv, [SessionNext]_allvars PROVE TInv'
<1>1. CASE CorruptSize
  <2>1. quarantined' = TRUE
    BY <1>1 DEF CorruptSize
  <2> QED
    BY <1>1, <2>1, CorruptStep DEF TInv
<1>2. CASE Restore
  <2>1. quarantined' = FALSE /\ backup' = NULL
    BY <1>2 DEF Restore
  <2> QED
    BY <1>2, <2>1, RestoreStep DEF TInv
<1> QED
  BY <1>1, <1>2, SessionSteps, EndsTable, BuildsTable, CallsTable, ReadsTable

\* A session has one table at most outside of quarantine, and in quarantine a clone and the
\* table it was made of.
THEOREM SessionHasItsTable == SessionSpec => []TInv
<1>1. ASSUME SessionInit PROVE TInv
  <2>1. Init /\ stage = "none" /\ backup = NULL /\ quarantined = FALSE
    BY <1>1 DEF SessionInit
  <2>2. IInv
    BY <2>1, InitStep
  <2>3. pc = "absent" /\ capacity = 0
    BY <2>1 DEF Init
  <2>4. StageTellsPlace /\ ArraysSized
    BY <2>1, <2>3 DEF StageTellsPlace, Stages, ArraysSized
  <2> QED
    BY <2>1, <2>2, <2>4 DEF TInv
<1>2. TInv /\ [SessionNext]_allvars => TInv'
  BY SessionTableStep
<1> QED
  BY <1>1, <1>2, PTL DEF SessionSpec

\* The invariant of a table is what the validator is to find out.
LEMMA SoundTable ==
    ASSUME IInv, Linked(new_buckets) = {}
    PROVE  Sound(SnapshotOf(buckets, size, capacity, resize_threshold, revision), next_entry_id)
<1>1. Contents = Linked(buckets)
  BY DEF Contents
<1>2. size = Cardinality(Linked(buckets))
  <2>1. Cardinality(Linked(new_buckets)) = 0 /\ Cardinality(Linked(buckets)) \in Nat
    BY FS_EmptySet, FS_CardinalityType DEF IInv, Counted
  <2> QED
    BY <2>1 DEF IInv, Counted, SizeCounts
<1> QED
  BY <1>1, <1>2 DEF IInv, WellFormed, LoadBounded, Sound, SnapshotOf

\* hash_inspector.c, hti_session_corrupt_size and hti_session_restore: in quarantine the backup is a
\* sound table, the clone differs from it in its size and its revision only, and there is a
\* backup only then.
THEOREM CleanTableKept == SessionSpec => []QuarantineKeepsCleanTable
<1>1. ASSUME TInv, quarantined
      PROVE  /\ backup # NULL
             /\ Sound(SnapshotOf(backup.buckets, backup.size, backup.capacity,
                                 backup.resize_threshold, backup.revision), backup.next_entry_id)
             /\ [Saved EXCEPT !.size = backup.size, !.revision = backup.revision] = backup
             /\ size = backup.size + 1
  <2>1. CloneStands /\ StageTellsPlace
    BY <1>1 DEF TInv
  <2>2. Linked(new_buckets) = {} /\ Contents = Linked(buckets)
    BY <2>1, CloneFacts
  <2>3. backup # NULL
    BY <2>1, NoNullAssumption DEF CloneStands
  <2>4. [Saved EXCEPT !.size = backup.size, !.revision = backup.revision] = backup
    <3> DEFINE t == [Saved EXCEPT !.size = backup.size, !.revision = backup.revision]
    <3>1. DOMAIN Saved = {"buckets", "size", "capacity", "resize_threshold", "revision",
                          "next_entry_id", "live_blocks"}
      BY DEF Saved
    <3>2. DOMAIN t = DOMAIN Saved /\ t.size = backup.size /\ t.revision = backup.revision
          /\ t = [f \in DOMAIN Saved |-> t[f]]
      BY <3>1
    <3>3. /\ t.buckets = buckets /\ t.capacity = capacity /\ t.resize_threshold = resize_threshold
          /\ t.next_entry_id = next_entry_id /\ t.live_blocks = live_blocks
      BY DEF Saved
    <3> HIDE DEF t
    <3>4. t = [buckets |-> buckets, size |-> backup.size,
                capacity |-> capacity, resize_threshold |-> resize_threshold,
                revision |-> backup.revision, next_entry_id |-> next_entry_id,
                live_blocks |-> live_blocks]
      BY <3>1, <3>2, <3>3
    <3>5. backup = [buckets |-> backup.buckets, size |-> backup.size,
                    capacity |-> backup.capacity, resize_threshold |-> backup.resize_threshold,
                    revision |-> backup.revision, next_entry_id |-> backup.next_entry_id,
                    live_blocks |-> backup.live_blocks]
      BY <2>1 DEF CloneStands, Tables
    <3> QED
      BY <2>1, <3>4, <3>5 DEF CloneStands, t
  <2>5. Sound(SnapshotOf(backup.buckets, backup.size, backup.capacity,
                         backup.resize_threshold, backup.revision), backup.next_entry_id)
    BY <2>1, <2>2 DEF CloneStands, WellFormed, Sound, SnapshotOf
  <2> QED
    BY <2>1, <2>3, <2>4, <2>5 DEF CloneStands
<1>2. TInv => QuarantineKeepsCleanTable
  BY <1>1 DEF TInv, QuarantineKeepsCleanTable
<1> QED
  BY <1>2, SessionHasItsTable, PTL

-----------------------------------------------------------------------------
(* Results and captures. *)

CaptureStatuses == {"OK", "NO_MEMORY", "OVERFLOW"}

\* The fields of a result that tell of its frames.
SameFrames(r, s) ==
    /\ r.operation_id = s.operation_id /\ r.first_frame_id = s.first_frame_id
    /\ r.frame_count = s.frame_count /\ r.event = s.event

\* A result with one frame more, for an id that the frame gets.
FrameMore(r, s, event) ==
    /\ r.operation_id = s.operation_id /\ r.frame_count = s.frame_count + 1
    /\ r.first_frame_id = IF s.frame_count = 0 THEN next_frame_id ELSE s.first_frame_id
    /\ r.event = event

LEMMA ResultTypes ==
    ASSUME NEW r \in Results
    PROVE  /\ r.op \in Operations /\ r.status \in Statuses /\ r.table_status \in TableStatuses
           /\ r.operation_id \in Nat /\ r.first_frame_id \in Nat /\ r.frame_count \in Nat
           /\ r.event \in Events \cup {"NONE"}
BY DEF Results

LEMMA NoResultFacts ==
    ASSUME NEW op \in Operations, NEW status \in Statuses, NEW table_status \in TableStatuses
    PROVE  /\ NoResult(op, status, table_status) \in Results
           /\ NoResult(op, status, table_status).status = status
           /\ NoResult(op, status, table_status).operation_id = 0
           /\ NoResult(op, status, table_status).frame_count = 0
BY DEF NoResult, Results, Events

LEMMA BegunFacts ==
    ASSUME NEW op \in Operations, next_operation_id \in Nat
    PROVE  /\ Begun(op) \in Results /\ Begun(op).status = "OK"
           /\ Begun(op).operation_id = next_operation_id
           /\ Begun(op).frame_count = 0
<1> DEFINE r == NoResult(op, "OK", "OK")
<1>1. r \in Results /\ r.status = "OK" /\ r.frame_count = 0
  BY NoResultFacts DEF Statuses, TableStatuses
<1>2. Begun(op) = [r EXCEPT !.operation_id = next_operation_id]
  BY DEF Begun
<1> HIDE DEF r
<1> QED
  BY <1>1, <1>2 DEF Results

LEMMA WithFrameFacts ==
    ASSUME NEW r \in Results, NEW event \in Events, next_frame_id \in Nat
    PROVE  /\ WithFrame(r, event) \in Results /\ FrameMore(WithFrame(r, event), r, event)
           /\ WithFrame(r, event).status = r.status
<1> DEFINE first == IF r.frame_count = 0 THEN next_frame_id ELSE r.first_frame_id
           r1 == [r EXCEPT !.first_frame_id = first]
           r2 == [r1 EXCEPT !.frame_count = r.frame_count + 1]
           r3 == [r2 EXCEPT !.event = event]
<1>1. first \in Nat /\ r.frame_count + 1 \in Nat
  BY DEF Results
<1>2. WithFrame(r, event) = r3
  BY DEF WithFrame, Results
<1> HIDE DEF first
<1>3. r1 \in Results /\ r1.first_frame_id = first /\ r1.operation_id = r.operation_id
      /\ r1.status = r.status
  BY <1>1 DEF Results
<1> HIDE DEF r1
<1>4. r2 \in Results /\ r2.first_frame_id = first /\ r2.operation_id = r.operation_id
      /\ r2.status = r.status /\ r2.frame_count = r.frame_count + 1
  BY <1>1, <1>3 DEF Results
<1> HIDE DEF r2
<1>5. r3 \in Results /\ r3.first_frame_id = first /\ r3.operation_id = r.operation_id
      /\ r3.status = r.status /\ r3.frame_count = r.frame_count + 1 /\ r3.event = event
  BY <1>4 DEF Results
<1> QED
  BY <1>2, <1>5 DEF FrameMore, first

\* What a call of the session changes in its result when it ends.
LEMMA StatusFacts ==
    ASSUME NEW r \in Results, NEW status \in Statuses
    PROVE  /\ [r EXCEPT !.status = status] \in Results
           /\ [r EXCEPT !.status = status].status = status
           /\ SameFrames([r EXCEPT !.status = status], r)
BY DEF Results, SameFrames

LEMMA TableStatusFacts ==
    ASSUME NEW r \in Results, NEW status \in TableStatuses
    PROVE  /\ [r EXCEPT !.table_status = status] \in Results
           /\ [r EXCEPT !.table_status = status].status = r.status
           /\ SameFrames([r EXCEPT !.table_status = status], r)
BY DEF Results, SameFrames

\* The events of the table, none of which tells of a corruption.
TableEvents ==
    {"PUT_INSERTED", "PUT_UPDATED", "LOOKUP_HIT", "LOOKUP_MISS", "DELETE_HIT", "DELETE_MISS",
     "REHASH_BEGIN", "REHASH_END", "REHASH_FAILED"}

\* The sink is told of a step when one array holds all the entries.
LEMMA EventsOfTable ==
    ASSUME IInv, CallBegins \/ Continue, trace' # NoTrace
    PROVE  trace'.kind \in TableEvents /\ Linked(new_buckets') = {}
<1>1. IInv'
  BY NextStep DEF CallBegins, Next, Calls
<1>2. pc' # "relink" => Linked(new_buckets') = {}
  <2>1. pc' # "relink" => new_buckets' \in [{} -> Seq(Entry)]
    BY <1>1 DEF IInv, TypeOK
  <2> QED
    BY <2>1, NoArrayFacts
<1>3. CASE CallBegins
  <2>1. trace'.kind \in TableEvents
    <3>1. \A k \in Keys, v \in Values : ~ PutAllocates(k, v) /\ ~ PutRefused(k)
      BY DEF PutAllocates, PutRefused, Silent
    <3>2. ASSUME NEW k \in Keys, NEW v \in Values, PutUpdates(k, v)
          PROVE  trace'.kind = "PUT_UPDATED"
      BY <3>2 DEF PutUpdates, Emit
    <3>3. ASSUME NEW k \in Keys, GetHits(k) PROVE trace'.kind = "LOOKUP_HIT"
      BY <3>3 DEF GetHits, Emit
    <3>4. ASSUME NEW k \in Keys, RemoveHits(k) PROVE trace'.kind = "DELETE_HIT"
      BY <3>4 DEF RemoveHits, Emit
    <3>5. ASSUME NEW k \in Keys, NEW op, NEW kind, Misses(op, kind, k) PROVE trace'.kind = kind
      BY <3>5 DEF Misses, Emit
    <3>6. \A k \in Keys : ~ PutRefused(k)
      BY DEF PutRefused, Silent
    <3> QED
      BY <1>3, <3>1, <3>2, <3>3, <3>4, <3>5, <3>6 DEF CallBegins, TableEvents
  <2>2. pc' # "relink"
    BY <1>3, StartsPlace
  <2> QED
    BY <1>2, <2>1, <2>2
<1>4. CASE Grow
  <2>1. pc = "grow" /\ BeginRehash(2 * capacity)
    BY <1>4 DEF Grow
  <2>2. Linked(new_buckets') = {}
    BY <2>1, RehashCapacities, BeginRehashEffect
  <2>3. trace'.kind \in TableEvents
    BY <2>1 DEF BeginRehash, Emit, TableEvents
  <2> QED
    BY <2>2, <2>3
<1>5. CASE GrowFails \/ EndRehash \/ LinkEntry
  <2>1. trace'.kind \in TableEvents
    BY <1>5 DEF GrowFails, GrowthRefused, EndRehash, LinkEntry, Silent, Emit, TableEvents
  <2>2. pc' # "relink"
    BY <1>5 DEF GrowFails, GrowthRefused, EndRehash, LinkEntry
  <2> QED
    BY <1>2, <2>1, <2>2
<1>6. ~ Relink
  BY DEF Relink, Silent
<1> QED
  BY <1>3, <1>4, <1>5, <1>6 DEF Continue

\* The status that a call of the table returns.
LEMMA ReturnedStatus ==
    ASSUME ret.status \in TableStatuses, [Next]_vars PROVE ret'.status \in TableStatuses
<1>1. CASE Lifecycle
  BY <1>1 DEF Lifecycle, CreateRefused, CreateTable, CreateFails, CreateBuckets, Destroy,
              BucketAllocation, Return, TableStatuses
<1>2. CASE Calls
  BY <1>2 DEF Calls, PutUpdates, PutAllocates, PutRefused, GetHits, Misses, RemoveHits,
              ReserveReturns, ReserveFails, ReserveBegins, BeginRehash, BucketAllocation, Return,
              TableStatuses
<1>3. CASE Continue
  BY <1>3 DEF Continue, GrowFails, GrowthRefused, Grow, BeginRehash, Growth, BucketAllocation,
              Relink, EndRehash, LinkEntry, Return, TableStatuses
<1> QED
  BY <1>1, <1>2, <1>3 DEF Next, vars

\* What a step of the table in a call of the session does to the timeline.
Sunk(res, status) ==
    \/ /\ UNCHANGED capturing
       /\ active_result' = res
       /\ active_capture_status' \in CaptureStatuses
       /\ status # "OK" => active_capture_status' = status
       /\ trace' # NoTrace => active_capture_status' # "OK"
       /\ trace' = NoTrace => active_capture_status' = status
    \/ /\ status = "OK" /\ active_capture_status' = "OK" /\ trace' # NoTrace
       /\ Appends(res.operation_id, trace'.kind)
       /\ active_result' = WithFrame(res, trace'.kind)

LEMMA SinkCases ==
    ASSUME NEW res, NEW status \in CaptureStatuses, Sinks(res, status)
    PROVE  Sunk(res, status)
BY DEF Sinks, Captures, CaptureFailures, IgnoresTraces, Sunk, CaptureStatuses

\* What the end of a call that captures a frame does to it.
Finished(res, event) ==
    /\ active_result' = NULL /\ active_capture_status' = "OK" /\ stage' = "idle"
    /\ \/ /\ UNCHANGED capturing
          /\ result' = [res EXCEPT !.status = "CAPTURE_FAILED"]
       \/ /\ Appends(res.operation_id, event)
          /\ result' = [WithFrame(res, event) EXCEPT !.status = "OK"]

LEMMA FinishCases ==
    ASSUME NEW res, NEW event, FinishesWith(res, event) PROVE Finished(res, event)
<1>1. PICK status \in CaptureFailures \cup {"OK"}, after \in {res, WithFrame(res, event)} :
          Captures(res, event, after, status) /\ Finishes(after, status)
  BY DEF FinishesWith
<1>2. CASE status = "OK"
  BY <1>1, <1>2 DEF Captures, CaptureFailures, Finishes, Finished
<1>3. CASE status # "OK"
  BY <1>1, <1>3 DEF Captures, Finishes, Finished
<1> QED
  BY <1>2, <1>3

\* What the validator says of the active table: that it is sound, or in quarantine that its
\* size is wrong.
Judged ==
    /\ quarantined => /\ "SIZE_MISMATCH" \in Shows.violations
                      /\ Shows.violations \subseteq {"SIZE_MISMATCH", "LOAD_EXCEEDED"}
    /\ ~ quarantined /\ Linked(new_buckets) = {} => Shows.violations = {}

LEMMA TableTypes ==
    ASSUME TInv
    PROVE  /\ size \in Nat /\ capacity \in Nat /\ resize_threshold \in Nat /\ revision \in Nat
           /\ next_entry_id \in Nat /\ buckets \in ChainsOf(capacity)
<1>1. TypeOK
  BY DEF TInv, IInv, CloneStands
<1> QED
  BY <1>1, LimitAssumption DEF TypeOK, ChainsOf

LEMMA JudgeNow == TInv => Judged
<1> SUFFICES ASSUME TInv PROVE Judged
  OBVIOUS
<1> DEFINE t == SnapshotOf(buckets, size, capacity, resize_threshold, revision)
<1>1. /\ IsSnapshot(t) /\ t.reported_size = size /\ t.resize_threshold = resize_threshold
      /\ t.chains = buckets /\ t.capacity = capacity
  BY TableTypes DEF IsSnapshot, SnapshotOf
<1>2. Shows.violations = Violations(t, next_entry_id)
  BY DEF Shows
<1> HIDE DEF t
<1>3. ASSUME ~ quarantined, Linked(new_buckets) = {} PROVE Shows.violations = {}
  <2>1. Sound(t, next_entry_id)
    BY <1>3, SoundTable DEF TInv, t
  <2>2. t.reported_size \in Nat /\ t.resize_threshold \in Nat /\ next_entry_id \in Nat
    BY <1>1, TableTypes
  <2> QED
    BY <1>1, <1>2, <2>1, <2>2, ValidatorExact
<1>4. ASSUME quarantined
      PROVE  /\ "SIZE_MISMATCH" \in Shows.violations
             /\ Shows.violations \subseteq {"SIZE_MISMATCH", "LOAD_EXCEEDED"}
  <2> DEFINE s == SnapshotOf(buckets, backup.size, capacity, resize_threshold, revision)
  <2>1. CloneStands /\ StageTellsPlace
    BY <1>4 DEF TInv
  <2>2. Contents = Linked(buckets) /\ Cardinality(Linked(buckets)) \in Nat
    BY <2>1, CloneFacts
  <2>3. /\ IsSnapshot(s) /\ s.reported_size = backup.size /\ s.resize_threshold = resize_threshold
        /\ s.chains = buckets /\ s.capacity = capacity
    BY TableTypes DEF IsSnapshot, SnapshotOf
  <2>4. Sound(s, next_entry_id)
    BY <2>1, <2>2 DEF CloneStands, WellFormed, Sound, SnapshotOf
  <2> HIDE DEF s
  <2>5. /\ s.reported_size \in Nat /\ s.resize_threshold \in Nat /\ next_entry_id \in Nat
        /\ size = backup.size + 1
    BY <2>1, <2>2, <2>3, TableTypes DEF CloneStands
  <2> QED
    BY <1>1, <1>2, <2>3, <2>4, <2>5, OneTooMany
<1> QED
  BY <1>3, <1>4 DEF Judged

\* The same after a step.
LEMMA JudgeThen == (TInv => Judged)'
BY JudgeNow, PTL

\* The frames: what a snapshot shows, and what a frame carries.
Codes ==
    {"SIZE_MISMATCH", "RESIZE_THRESHOLD", "LOAD_EXCEEDED", "HASH_MISMATCH", "WRONG_BUCKET",
     "ZERO_ENTRY_ID", "NEXT_ENTRY_ID", "DUPLICATE_ENTRY_ID", "DUPLICATE_KEY"}

Views ==
    [held : SUBSET (Keys \X Values), reported_size : Nat, capacity : Nat, revision : Nat,
     violations : SUBSET Codes]

Frames ==
    [frame_id : Nat, payload : [operation_id : Nat, event : Events, shows : Views]]

LEMMA CodesFound ==
    ASSUME NEW s, NEW next_id PROVE Violations(s, next_id) \subseteq Codes
<1>1. HeaderViolations(s) \subseteq Codes
  BY DEF HeaderViolations, Codes
<1>2. \A p : EntryViolations(s, next_id, p) \subseteq Codes
  BY DEF EntryViolations, Codes
<1>3. \A p, q : PairViolations(s, p, q) \subseteq Codes
  BY DEF PairViolations, Codes
<1>4. RecordViolations(s, next_id) \subseteq Codes
  BY <1>2 DEF RecordViolations
<1>5. RepeatedRecords(s) \subseteq Codes
  BY <1>3 DEF RepeatedRecords
<1> QED
  BY <1>1, <1>4, <1>5 DEF Violations

ShowsTyped == Shows \in Views

LEMMA ShowsType == TInv => ShowsTyped
<1> SUFFICES ASSUME TInv PROVE ShowsTyped
  OBVIOUS
<1>1. Held(buckets) \subseteq Keys \X Values
  <2>1. Linked(buckets) \subseteq Entry
    BY TableTypes, LinkedType DEF ChainsOf
  <2> QED
    BY <2>1 DEF Held, Entry
<1> DEFINE found == Violations(SnapshotOf(buckets, size, capacity, resize_threshold, revision),
                               next_entry_id)
<1>2. found \subseteq Codes
  BY CodesFound
<1>3. Shows = [held |-> Held(buckets), reported_size |-> size, capacity |-> capacity,
               revision |-> revision, violations |-> found]
  BY DEF Shows
<1> HIDE DEF found
<1> QED
  BY <1>1, <1>2, <1>3, TableTypes DEF ShowsTyped, Views

LEMMA ShowsTypeThen == (TInv => ShowsTyped)'
BY ShowsType, PTL

LEMMA PayloadType ==
    ASSUME TInv', NEW id \in Nat, NEW event \in Events, next_frame_id \in Nat
    PROVE  /\ [frame_id |-> next_frame_id, payload |-> Payload(id, event)] \in Frames
           /\ Payload(id, event).operation_id = id /\ Payload(id, event).event = event
           /\ Payload(id, event).shows = Shows'
<1>1. Shows' \in Views
  BY ShowsTypeThen DEF ShowsTyped
<1> QED
  BY <1>1 DEF Payload, Frames

-----------------------------------------------------------------------------
(* The results of a session. *)

\* A result is filled in while a call runs, and only then.
RInv ==
    /\ active_result # NULL <=> stage \in {"call", "return"}
    /\ active_result \in Results \cup {NULL}
    /\ active_capture_status \in CaptureStatuses
    /\ stage \notin {"call", "return"} => active_capture_status = "OK"
    /\ result \in Results
    /\ ret.status \in TableStatuses
    /\ next_frame_id \in Nat /\ next_operation_id \in Nat

\* The calls that make one step of the session: a validation, and both ends of a quarantine.
SessionWhole == SessionValidate \/ CorruptFails \/ CorruptSize \/ Restore

\* The events of frames that show a corrupted table.
BadEvents == {"SIZE_CORRUPTION_APPLIED", "VALIDATION_FAILED"}

LEMMA WholeShape ==
    ASSUME TInv, RInv, SessionWhole
    PROVE  /\ stage = "idle" /\ next_operation_id' = next_operation_id + 1 /\ ret' = ret
           /\ pc' = pc /\ pc = "ready"
           /\ \E r \in Results, event \in Events :
                 /\ r.operation_id = next_operation_id /\ r.frame_count = 0
                 /\ Finished(r, event)
                 /\ event \in BadEvents <=> quarantined'
                 /\ event \notin TableEvents
<1>1. \A op \in Operations :
         /\ Begun(op) \in Results /\ Begun(op).operation_id = next_operation_id
         /\ Begun(op).frame_count = 0
  BY BegunFacts DEF RInv
<1>2. stage = "idle" /\ next_operation_id' = next_operation_id + 1
  BY DEF SessionWhole, SessionValidate, CorruptFails, CorruptSize, Restore, Begins
<1>3. pc = "ready" /\ pc' = pc /\ ret' = ret
  BY <1>2 DEF SessionWhole, SessionValidate, CorruptFails, CorruptSize, Restore, TableStays,
              TInv, StageTellsPlace
<1> DEFINE Good(r, event) ==
               /\ r \in Results /\ event \in Events
               /\ r.operation_id = next_operation_id /\ r.frame_count = 0
               /\ Finished(r, event)
               /\ event \in BadEvents <=> quarantined'
               /\ event \notin TableEvents
<1>4. CASE SessionValidate
  <2> DEFINE event == IF Shows.violations = {} THEN "VALIDATION_PASSED" ELSE "VALIDATION_FAILED"
  <2>1. FinishesWith(Begun("validate"), event) /\ quarantined' = quarantined
    BY <1>4 DEF SessionValidate
  <2>2. Shows.violations = {} <=> ~ quarantined
    <3>1. Judged
      BY JudgeNow
    <3>2. ~ quarantined => Linked(new_buckets) = {}
      BY <1>3, OneArray DEF TInv
    <3> QED
      BY <3>1, <3>2 DEF Judged
  <2>3. event \in Events /\ event \notin TableEvents /\ (event \in BadEvents <=> quarantined)
    BY <2>2 DEF Events, TableEvents, BadEvents
  <2> HIDE DEF event
  <2>4. Finished(Begun("validate"), event)
    BY <2>1, FinishCases
  <2>5. Good(Begun("validate"), event)
    BY <1>1, <2>1, <2>3, <2>4 DEF Operations
  <2> QED
    BY <1>2, <1>3, <2>5
<1>5. CASE CorruptFails
  <2> DEFINE r == [Begun("corrupt") EXCEPT !.table_status = "NO_MEMORY"]
  <2>1. FinishesWith(r, "OPERATION_FAILED") /\ ~ quarantined'
    BY <1>5 DEF CorruptFails, Accepts
  <2>2. r \in Results /\ r.operation_id = next_operation_id /\ r.frame_count = 0
    BY <1>1, TableStatusFacts DEF Operations, TableStatuses, SameFrames
  <2> HIDE DEF r
  <2>3. Finished(r, "OPERATION_FAILED")
    BY <2>1, FinishCases
  <2>4. Good(r, "OPERATION_FAILED")
    BY <2>1, <2>2, <2>3 DEF Events, TableEvents, BadEvents
  <2> QED
    BY <1>2, <1>3, <2>4
<1>6. CASE CorruptSize
  <2>1. FinishesWith(Begun("corrupt"), "SIZE_CORRUPTION_APPLIED") /\ quarantined' = TRUE
    BY <1>6 DEF CorruptSize
  <2>2. Finished(Begun("corrupt"), "SIZE_CORRUPTION_APPLIED")
    BY <2>1, FinishCases
  <2>3. Good(Begun("corrupt"), "SIZE_CORRUPTION_APPLIED")
    BY <1>1, <2>1, <2>2 DEF Operations, Events, TableEvents, BadEvents
  <2> QED
    BY <1>2, <1>3, <2>3
<1>7. CASE Restore
  <2>1. FinishesWith(Begun("restore"), "CLEAN_STATE_RESTORED") /\ quarantined' = FALSE
    BY <1>7 DEF Restore
  <2>2. Finished(Begun("restore"), "CLEAN_STATE_RESTORED")
    BY <2>1, FinishCases
  <2>3. Good(Begun("restore"), "CLEAN_STATE_RESTORED")
    BY <1>1, <2>1, <2>2 DEF Operations, Events, TableEvents, BadEvents
  <2> QED
    BY <1>2, <1>3, <2>3
<1> QED
  BY <1>4, <1>5, <1>6, <1>7 DEF SessionWhole

\* A call of the table that begins, and one that goes on.
LEMMA StartShape ==
    ASSUME TInv, RInv, SessionStarts
    PROVE  /\ stage = "idle" /\ next_operation_id' = next_operation_id + 1
           /\ ret'.status \in TableStatuses
           /\ ~ quarantined /\ ~ quarantined' /\ result' = result
           /\ stage' = IF pc' = "ready" THEN "return" ELSE "call"
           /\ trace' # NoTrace => trace'.kind \in TableEvents /\ Linked(new_buckets') = {}
           /\ \E r \in Results : /\ r.operation_id = next_operation_id /\ r.frame_count = 0
                                 /\ Sunk(r, "OK")
<1>1. /\ stage = "idle" /\ next_operation_id' = next_operation_id + 1 /\ CallBegins
      /\ ~ quarantined /\ quarantined' = quarantined /\ result' = result
      /\ stage' = IF pc' = "ready" THEN "return" ELSE "call"
  BY DEF SessionStarts, Begins, Accepts, TableSteps
<1>2. PICK op \in {"put", "lookup", "delete"} : Sinks(Begun(op), "OK")
  BY DEF SessionStarts, TableSteps
<1>3. /\ Begun(op) \in Results /\ Begun(op).operation_id = next_operation_id
      /\ Begun(op).frame_count = 0
  BY BegunFacts DEF RInv, Operations
<1>4. Sunk(Begun(op), "OK")
  BY <1>2, SinkCases DEF CaptureStatuses
<1>5. IInv
  BY <1>1 DEF TInv
<1>6. ret'.status \in TableStatuses
  BY <1>1, <1>5, StartsPlace, ReturnedStatus DEF RInv
<1>7. trace' # NoTrace => trace'.kind \in TableEvents /\ Linked(new_buckets') = {}
  BY <1>1, <1>5, EventsOfTable
<1> QED
  BY <1>1, <1>3, <1>4, <1>6, <1>7

LEMMA ContinueShape ==
    ASSUME TInv, RInv, SessionContinues
    PROVE  /\ stage = "call" /\ next_operation_id' = next_operation_id /\ ret'.status \in TableStatuses
           /\ ~ quarantined /\ ~ quarantined' /\ result' = result
           /\ stage' = IF pc' = "ready" THEN "return" ELSE "call"
           /\ trace' # NoTrace => trace'.kind \in TableEvents /\ Linked(new_buckets') = {}
           /\ active_result \in Results
           /\ Sunk(active_result, active_capture_status)
<1>1. /\ stage = "call" /\ next_operation_id' = next_operation_id /\ Continue
      /\ quarantined' = quarantined /\ result' = result
      /\ stage' = IF pc' = "ready" THEN "return" ELSE "call"
      /\ Sinks(active_result, active_capture_status)
  BY DEF SessionContinues, TableSteps
<1>2. ~ quarantined /\ IInv
  BY <1>1 DEF TInv, CloneStands
<1>3. active_result \in Results
  BY <1>1 DEF RInv
<1>4. Sunk(active_result, active_capture_status)
  BY <1>1, SinkCases DEF RInv
<1>5. ret'.status \in TableStatuses
  BY <1>1, <1>2, ReturnedStatus DEF RInv, Next
<1>6. trace' # NoTrace => trace'.kind \in TableEvents /\ Linked(new_buckets') = {}
  BY <1>1, <1>2, EventsOfTable
<1> QED
  BY <1>1, <1>2, <1>3, <1>4, <1>5, <1>6

\* The return of a call: of which nothing was told, and of which something was, or could not be.
LEMMA ReturnShape ==
    ASSUME TInv, RInv, SessionReturns
    PROVE  /\ stage = "return" /\ next_operation_id' = next_operation_id /\ ret' = ret
           /\ ~ quarantined /\ ~ quarantined' /\ UNCHANGED state
           /\ \E r \in Results :
                 /\ SameFrames(r, active_result)
                 /\ \/ /\ r.frame_count = 0 /\ active_capture_status = "OK"
                       /\ Finished(r, "OPERATION_FAILED")
                    \/ /\ r.frame_count > 0 \/ active_capture_status # "OK"
                       /\ UNCHANGED capturing
                       /\ active_result' = NULL /\ active_capture_status' = "OK" /\ stage' = "idle"
                       /\ result' = [r EXCEPT !.status = IF active_capture_status = "OK" THEN "OK"
                                                         ELSE "CAPTURE_FAILED"]
<1> DEFINE r == [active_result EXCEPT !.table_status = ret.status]
<1>1. /\ stage = "return" /\ next_operation_id' = next_operation_id
      /\ quarantined' = quarantined
      /\ IF r.frame_count = 0 /\ active_capture_status = "OK"
         THEN FinishesWith(r, "OPERATION_FAILED")
         ELSE Finishes(r, active_capture_status) /\ UNCHANGED capturing
      /\ TableStays
  BY DEF SessionReturns
<1>2. UNCHANGED state /\ ret' = ret
  BY <1>1, StaysKeeps DEF TableStays
<1>3. ~ quarantined
  BY <1>1 DEF TInv, CloneStands
<1>4. active_result \in Results
  BY <1>1 DEF RInv
<1>5. r \in Results /\ SameFrames(r, active_result)
  BY <1>4, TableStatusFacts DEF RInv
<1>6. r.frame_count \in Nat
  BY <1>5, ResultTypes
<1> HIDE DEF r
<1>7. CASE r.frame_count = 0 /\ active_capture_status = "OK"
  <2>1. Finished(r, "OPERATION_FAILED")
    BY <1>1, <1>7, FinishCases
  <2> QED
    BY <1>1, <1>2, <1>3, <1>5, <1>7, <2>1
<1>8. CASE ~ (r.frame_count = 0 /\ active_capture_status = "OK")
  <2>1. r.frame_count > 0 \/ active_capture_status # "OK"
    BY <1>6, <1>8
  <2>2. Finishes(r, active_capture_status) /\ UNCHANGED capturing
    BY <1>1, <1>8
  <2> QED
    BY <1>1, <1>2, <1>3, <1>5, <2>1, <2>2 DEF Finishes
<1> QED
  BY <1>7, <1>8

\* The result that frames are counted in: that of the running call, or of the last one.
Cur == IF active_result # NULL THEN active_result ELSE result

HasTimeline == stage \notin {"none", "creating"}

\* A frame is added that shows a table at rest, and tells of the corruption if there is one.
Adds(id, event) ==
    /\ Appends(id, event)
    /\ event \in Events
    /\ event \in BadEvents <=> quarantined'
    /\ ~ quarantined' => Linked(new_buckets') = {}

\* What a step does to the timeline and to the result.
Cleared ==
    /\ ~ HasTimeline' /\ timeline' = <<>> /\ next_frame_id' = 0 /\ next_operation_id' = 0
    /\ Cur'.operation_id = 0 /\ Cur'.frame_count = 0

Opened ==
    /\ ~ HasTimeline /\ ~ HasTimeline' /\ timeline' = timeline /\ next_frame_id' = 1
    /\ next_operation_id' = next_operation_id /\ Cur' = Cur

CreatedFrame ==
    /\ ~ HasTimeline /\ HasTimeline' /\ next_operation_id' = 1
    /\ Adds(0, "SESSION_CREATED")
    /\ Cur'.operation_id = 0 /\ Cur'.frame_count = 0 /\ active_result' = NULL

Quiet ==
    /\ HasTimeline' = HasTimeline
    /\ UNCHANGED capturing /\ next_operation_id' = next_operation_id
    /\ \/ SameFrames(Cur', Cur) /\ (active_result' # NULL => active_result # NULL)
       \/ Cur'.operation_id = 0 /\ Cur'.frame_count = 0 /\ active_result' = NULL

NewCall ==
    /\ HasTimeline /\ HasTimeline'
    /\ next_operation_id' = next_operation_id + 1 /\ UNCHANGED capturing
    /\ Cur'.operation_id = next_operation_id /\ Cur'.frame_count = 0

NewFrame ==
    /\ HasTimeline /\ HasTimeline'
    /\ next_operation_id' = next_operation_id + 1
    /\ \E event : /\ Adds(next_operation_id, event)
                  /\ Cur'.operation_id = next_operation_id /\ Cur'.frame_count = 1
                  /\ Cur'.first_frame_id = next_frame_id /\ Cur'.event = event

MoreFrame ==
    /\ HasTimeline /\ HasTimeline' /\ active_result # NULL
    /\ next_operation_id' = next_operation_id
    /\ \E event : Adds(Cur.operation_id, event) /\ FrameMore(Cur', Cur, event)

Recorded ==
    Cleared \/ Opened \/ CreatedFrame \/ Quiet \/ NewCall \/ NewFrame \/ MoreFrame

\* A frame is appended to an operation that has none, or to one that has some.
LEMMA FrameOfCall ==
    ASSUME NEW r \in Results, NEW s \in Results, NEW event \in Events, next_frame_id \in Nat,
           SameFrames(s, WithFrame(r, event))
    PROVE  /\ FrameMore(s, r, event)
           /\ r.frame_count = 0 => s.frame_count = 1 /\ s.first_frame_id = next_frame_id
BY WithFrameFacts DEF SameFrames, FrameMore

LEMMA FinishedShape ==
    ASSUME NEW r \in Results, NEW event \in Events, next_frame_id \in Nat, Finished(r, event)
    PROVE  /\ stage' = "idle" /\ active_result' = NULL /\ active_capture_status' = "OK"
           /\ result' \in Results /\ Cur' = result'
           /\ \/ /\ UNCHANGED capturing /\ SameFrames(Cur', r)
                 /\ result'.status = "CAPTURE_FAILED"
              \/ /\ Appends(r.operation_id, event) /\ FrameMore(Cur', r, event)
                 /\ r.frame_count = 0 => Cur'.frame_count = 1 /\ Cur'.first_frame_id = next_frame_id
                 /\ result'.status = "OK"
           /\ next_frame_id' \in Nat
<1>1. stage' = "idle" /\ active_result' = NULL /\ active_capture_status' = "OK"
  BY DEF Finished
<1>2. Cur' = result'
  BY <1>1 DEF Cur
<1>3. CASE UNCHANGED capturing /\ result' = [r EXCEPT !.status = "CAPTURE_FAILED"]
  <2>1. result' \in Results /\ SameFrames(result', r) /\ result'.status = "CAPTURE_FAILED"
    BY <1>3, StatusFacts DEF Statuses
  <2>2. next_frame_id' \in Nat
    BY <1>3 DEF capturing
  <2> QED
    BY <1>1, <1>2, <1>3, <2>1, <2>2
<1>4. CASE /\ Appends(r.operation_id, event)
           /\ result' = [WithFrame(r, event) EXCEPT !.status = "OK"]
  <2>1. WithFrame(r, event) \in Results
    BY WithFrameFacts
  <2>2. /\ result' \in Results /\ SameFrames(result', WithFrame(r, event))
        /\ result'.status = "OK"
    BY <1>4, <2>1, StatusFacts DEF Statuses, TableStatuses
  <2>3. /\ FrameMore(result', r, event)
        /\ r.frame_count = 0 => result'.frame_count = 1 /\ result'.first_frame_id = next_frame_id
    BY <2>2, FrameOfCall
  <2>4. next_frame_id' \in Nat
    BY <1>4 DEF Appends
  <2> QED
    BY <1>1, <1>2, <1>4, <2>2, <2>3, <2>4
<1> QED
  BY <1>1, <1>3, <1>4 DEF Finished

\* An active result is there in a call, and none is there outside of one.
LEMMA ActiveFacts ==
    ASSUME RInv
    PROVE  /\ stage \in {"call", "return"} => active_result \in Results /\ Cur = active_result
           /\ stage \notin {"call", "return"} => active_result = NULL /\ Cur = result
           /\ Cur \in Results
BY DEF RInv, Cur

LEMMA EndsRecorded == ASSUME TInv, RInv, SessionEnds PROVE RInv' /\ Recorded
<1>1. /\ stage' = "none" /\ timeline' = <<>> /\ next_frame_id' = 0 /\ next_operation_id' = 0
      /\ active_result' = active_result /\ active_capture_status' = active_capture_status
      /\ \E op \in Operations, status \in Statuses : result' = NoResult(op, status, "OK")
  BY DEF SessionEnds, SessionRefused, SessionHasNoTable, SessionNotCaptured, SessionDestroy,
         Gone, Operations, Statuses, TableStatuses, CaptureFailures
<1>2. stage \notin {"call", "return"}
  BY DEF SessionEnds, SessionRefused, SessionHasNoTable, SessionNotCaptured, SessionDestroy
<1>3. /\ result' \in Results /\ result'.operation_id = 0 /\ result'.frame_count = 0
  BY <1>1, NoResultFacts DEF TableStatuses
<1>4. active_result' = NULL /\ active_capture_status' = "OK"
  BY <1>1, <1>2 DEF RInv
<1>5. ret'.status \in TableStatuses
  <2>1. CASE SessionRefused
    BY <2>1 DEF SessionRefused, TableStays, RInv
  <2>2. CASE SessionHasNoTable \/ SessionNotCaptured \/ SessionDestroy
    <3>1. Next
      BY <2>2 DEF SessionHasNoTable, SessionNotCaptured, SessionDestroy, Next, Lifecycle
    <3> QED
      BY <3>1, ReturnedStatus DEF RInv
  <2> QED
    BY <2>1, <2>2 DEF SessionEnds
<1>6. RInv'
  BY <1>1, <1>3, <1>4, <1>5 DEF RInv, CaptureStatuses
<1>7. Cleared
  BY <1>1, <1>3, <1>4 DEF Cleared, Cur, HasTimeline
<1> QED
  BY <1>6, <1>7 DEF Recorded

LEMMA BuildsRecorded ==
    ASSUME TInv, TInv', RInv, SessionBegins \/ SessionMakesTable \/ SessionCreated
    PROVE  RInv' /\ Recorded
<1>1. /\ stage \in {"none", "creating"} /\ stage' \notin {"call", "return"}
      /\ active_result' = active_result /\ active_capture_status' = active_capture_status
  BY DEF SessionBegins, SessionMakesTable, SessionCreated, session
<1>2. active_result = NULL /\ Cur = result /\ Cur' = result'
  BY <1>1 DEF RInv, Cur
<1>3. ret'.status \in TableStatuses
  <2>1. CASE SessionMakesTable
    BY <2>1, ReturnedStatus DEF SessionMakesTable, Next, Lifecycle, RInv
  <2>2. CASE SessionBegins \/ SessionCreated
    BY <2>2 DEF SessionBegins, SessionCreated, TableStays, RInv
  <2> QED
    BY <2>1, <2>2
<1>4. CASE SessionBegins
  <2>1. /\ stage = "none" /\ stage' = "creating" /\ next_frame_id' = 1 /\ timeline' = timeline
        /\ next_operation_id' = next_operation_id /\ result' = result
    BY <1>4 DEF SessionBegins
  <2>2. Opened
    BY <2>1, <1>2 DEF Opened, HasTimeline
  <2> QED
    BY <1>1, <1>2, <1>3, <2>1, <2>2 DEF RInv, Recorded
<1>5. CASE SessionMakesTable
  <2>1. /\ stage' = stage /\ result' = result /\ UNCHANGED capturing
        /\ next_operation_id' = next_operation_id
    BY <1>5 DEF SessionMakesTable, session
  <2>2. Quiet
    BY <2>1, <1>1, <1>2 DEF Quiet, HasTimeline, SameFrames
  <2> QED
    BY <1>1, <1>2, <1>3, <2>1, <2>2 DEF RInv, Recorded, capturing
<1>6. CASE SessionCreated
  <2>1. /\ stage = "creating" /\ stage' = "idle" /\ Appends(0, "SESSION_CREATED")
        /\ next_operation_id' = 1 /\ result' = NoResult("create", "OK", "OK")
        /\ quarantined' = quarantined /\ pc = "ready" /\ TableStays
    BY <1>6 DEF SessionCreated
  <2>2. result' \in Results /\ result'.operation_id = 0 /\ result'.frame_count = 0
    BY <2>1, NoResultFacts DEF Operations, Statuses, TableStatuses
  <2>3. ~ quarantined' /\ Linked(new_buckets') = {}
    <3>1. ~ quarantined
      BY <2>1 DEF TInv, CloneStands
    <3>2. Linked(new_buckets) = {} /\ new_buckets' = new_buckets
      BY <2>1, <3>1, OneArray DEF TInv, TableStays, rehash
    <3> QED
      BY <2>1, <3>1, <3>2
  <2>4. "SESSION_CREATED" \in Events /\ "SESSION_CREATED" \notin BadEvents
    BY DEF Events, BadEvents
  <2>5. Adds(0, "SESSION_CREATED")
    BY <2>1, <2>3, <2>4 DEF Adds
  <2>6. CreatedFrame
    BY <2>1, <2>2, <2>5, <1>1, <1>2 DEF CreatedFrame, HasTimeline
  <2>7. next_frame_id' \in Nat
    BY <2>1 DEF Appends, RInv
  <2> QED
    BY <1>1, <1>2, <1>3, <2>1, <2>2, <2>6, <2>7 DEF RInv, Recorded
<1> QED
  BY <1>4, <1>5, <1>6

\* A step of a call of the table, after which the call runs on or returns.
LEMMA SunkRecorded ==
    ASSUME RInv, NEW r \in Results, NEW status \in CaptureStatuses, Sunk(r, status),
           ret'.status \in TableStatuses, result' = result, next_operation_id' \in Nat,
           stage' \in {"call", "return"}, ~ quarantined',
           trace' # NoTrace => trace'.kind \in TableEvents /\ Linked(new_buckets') = {}
    PROVE  /\ RInv'
           /\ \/ UNCHANGED capturing /\ Cur' = r
              \/ /\ Adds(r.operation_id, trace'.kind) /\ FrameMore(Cur', r, trace'.kind)
                 /\ r.frame_count = 0 => Cur'.frame_count = 1 /\ Cur'.first_frame_id = next_frame_id
<1>1. \A event \in TableEvents : event \in Events /\ event \notin BadEvents
  BY DEF TableEvents, Events, BadEvents
<1>2. CASE UNCHANGED capturing /\ active_result' = r /\ active_capture_status' \in CaptureStatuses
  <2>1. r # NULL
    BY NoNullAssumption
  <2>2. Cur' = r
    BY <1>2, <2>1 DEF Cur
  <2>3. RInv'
    BY <1>2, <2>1 DEF RInv, capturing
  <2> QED
    BY <1>2, <2>2, <2>3
<1>3. CASE /\ active_capture_status' = "OK" /\ trace' # NoTrace
           /\ Appends(r.operation_id, trace'.kind) /\ active_result' = WithFrame(r, trace'.kind)
  <2> DEFINE event == trace'.kind
  <2>1. event \in Events /\ event \notin BadEvents /\ Linked(new_buckets') = {}
    BY <1>1, <1>3
  <2>2. Adds(r.operation_id, event)
    BY <1>3, <2>1 DEF Adds
  <2>3. next_frame_id \in Nat /\ next_frame_id' \in Nat
    BY <1>3 DEF Appends, RInv
  <2>4. active_result' \in Results /\ FrameMore(active_result', r, event)
    BY <1>3, <2>1, <2>3, WithFrameFacts
  <2>5. r.frame_count = 0 =>
           active_result'.frame_count = 1 /\ active_result'.first_frame_id = next_frame_id
    BY <2>4 DEF FrameMore
  <2>6. active_result' # NULL
    BY <2>4, NoNullAssumption
  <2>7. Cur' = active_result'
    BY <2>6 DEF Cur
  <2>8. RInv'
    BY <1>3, <2>3, <2>4, <2>6 DEF RInv, CaptureStatuses
  <2> QED
    BY <2>2, <2>4, <2>5, <2>7, <2>8
<1> QED
  BY <1>2, <1>3 DEF Sunk

LEMMA CallsRecorded ==
    ASSUME TInv, RInv, SessionStarts \/ SessionContinues
    PROVE  RInv' /\ Recorded
<1>1. stage' \in {"call", "return"}
  BY DEF SessionStarts, SessionContinues, TableSteps
<1>2. next_operation_id \in Nat
  BY DEF RInv
<1>3. CASE SessionStarts
  <2>1. /\ stage = "idle" /\ next_operation_id' = next_operation_id + 1
        /\ ret'.status \in TableStatuses /\ ~ quarantined' /\ result' = result
        /\ trace' # NoTrace => trace'.kind \in TableEvents /\ Linked(new_buckets') = {}
    BY <1>3, StartShape
  <2>2. PICK r \in Results : /\ r.operation_id = next_operation_id /\ r.frame_count = 0
                             /\ Sunk(r, "OK")
    BY <1>3, StartShape
  <2>3. /\ RInv'
        /\ \/ UNCHANGED capturing /\ Cur' = r
           \/ /\ Adds(r.operation_id, trace'.kind) /\ FrameMore(Cur', r, trace'.kind)
              /\ r.frame_count = 0 => Cur'.frame_count = 1 /\ Cur'.first_frame_id = next_frame_id
    BY <1>1, <1>2, <2>1, <2>2, SunkRecorded DEF CaptureStatuses
  <2>4. HasTimeline /\ HasTimeline'
    BY <1>1, <2>1 DEF HasTimeline
  <2>5. NewCall \/ NewFrame
    BY <2>1, <2>2, <2>3, <2>4 DEF NewCall, NewFrame, FrameMore
  <2> QED
    BY <2>3, <2>5 DEF Recorded
<1>4. CASE SessionContinues
  <2>1. /\ stage = "call" /\ next_operation_id' = next_operation_id
        /\ ret'.status \in TableStatuses /\ ~ quarantined' /\ result' = result
        /\ trace' # NoTrace => trace'.kind \in TableEvents /\ Linked(new_buckets') = {}
        /\ active_result \in Results /\ Sunk(active_result, active_capture_status)
    BY <1>4, ContinueShape
  <2>2. Cur = active_result /\ active_capture_status \in CaptureStatuses /\ active_result # NULL
    BY <2>1, ActiveFacts, NoNullAssumption DEF RInv
  <2>3. /\ RInv'
        /\ \/ UNCHANGED capturing /\ Cur' = Cur
           \/ Adds(Cur.operation_id, trace'.kind) /\ FrameMore(Cur', Cur, trace'.kind)
    BY <1>1, <1>2, <2>1, <2>2, SunkRecorded
  <2>4. HasTimeline /\ HasTimeline'
    BY <1>1, <2>1 DEF HasTimeline
  <2>5. Quiet \/ MoreFrame
    BY <2>1, <2>2, <2>3, <2>4 DEF Quiet, MoreFrame, SameFrames
  <2> QED
    BY <2>3, <2>5 DEF Recorded
<1> QED
  BY <1>3, <1>4

LEMMA WholeRecorded == ASSUME TInv, TInv', RInv, SessionWhole PROVE RInv' /\ Recorded
<1>1. /\ stage = "idle" /\ next_operation_id' = next_operation_id + 1 /\ ret' = ret
      /\ pc' = "ready"
  BY WholeShape
<1>2. PICK r \in Results, event \in Events :
          /\ r.operation_id = next_operation_id /\ r.frame_count = 0
          /\ Finished(r, event)
          /\ event \in BadEvents <=> quarantined'
  BY WholeShape
<1>3. next_frame_id \in Nat /\ next_operation_id \in Nat
  BY DEF RInv
<1>4. /\ stage' = "idle" /\ active_result' = NULL /\ active_capture_status' = "OK"
      /\ result' \in Results /\ next_frame_id' \in Nat
      /\ \/ UNCHANGED capturing /\ SameFrames(Cur', r)
         \/ /\ Appends(r.operation_id, event) /\ FrameMore(Cur', r, event)
            /\ r.frame_count = 0 => Cur'.frame_count = 1 /\ Cur'.first_frame_id = next_frame_id
  BY <1>2, <1>3, FinishedShape
<1>5. RInv'
  BY <1>1, <1>3, <1>4 DEF RInv, CaptureStatuses
<1>6. ~ quarantined' => Linked(new_buckets') = {}
  <2>1. ~ quarantined' => new_buckets' \in [{} -> Seq(Entry)]
    BY <1>1 DEF TInv, IInv, TypeOK
  <2> QED
    BY <2>1, NoArrayFacts
<1>7. HasTimeline /\ HasTimeline'
  BY <1>1, <1>4 DEF HasTimeline
<1>8. NewCall \/ NewFrame
  <2>1. CASE UNCHANGED capturing /\ SameFrames(Cur', r)
    BY <1>1, <1>2, <1>7, <2>1 DEF NewCall, SameFrames
  <2>2. CASE /\ Appends(r.operation_id, event) /\ FrameMore(Cur', r, event)
             /\ r.frame_count = 0 => Cur'.frame_count = 1 /\ Cur'.first_frame_id = next_frame_id
    <3>1. Adds(next_operation_id, event)
      BY <1>2, <1>6, <2>2 DEF Adds
    <3> QED
      BY <1>1, <1>2, <1>7, <2>2, <3>1 DEF NewFrame, FrameMore
  <2> QED
    BY <1>4, <2>1, <2>2
<1> QED
  BY <1>5, <1>8 DEF Recorded

LEMMA ReturnsRecorded == ASSUME TInv, RInv, SessionReturns PROVE RInv' /\ Recorded
<1>1. /\ stage = "return" /\ next_operation_id' = next_operation_id /\ ret' = ret
      /\ ~ quarantined' /\ UNCHANGED state
  BY ReturnShape
<1>2. PICK r \in Results :
          /\ SameFrames(r, active_result)
          /\ \/ /\ r.frame_count = 0 /\ active_capture_status = "OK"
                /\ Finished(r, "OPERATION_FAILED")
             \/ /\ r.frame_count > 0 \/ active_capture_status # "OK"
                /\ UNCHANGED capturing
                /\ active_result' = NULL /\ active_capture_status' = "OK" /\ stage' = "idle"
                /\ result' = [r EXCEPT !.status = IF active_capture_status = "OK" THEN "OK"
                                                  ELSE "CAPTURE_FAILED"]
  BY ReturnShape
<1>3. next_frame_id \in Nat /\ next_operation_id \in Nat /\ Cur = active_result
      /\ active_result # NULL
  BY <1>1, ActiveFacts DEF RInv
<1>4. CASE r.frame_count = 0 /\ Finished(r, "OPERATION_FAILED")
  <2>1. "OPERATION_FAILED" \in Events /\ "OPERATION_FAILED" \notin BadEvents
    BY DEF Events, BadEvents
  <2>2. /\ stage' = "idle" /\ active_result' = NULL /\ active_capture_status' = "OK"
        /\ result' \in Results /\ next_frame_id' \in Nat
        /\ \/ UNCHANGED capturing /\ SameFrames(Cur', r)
           \/ Appends(r.operation_id, "OPERATION_FAILED") /\ FrameMore(Cur', r, "OPERATION_FAILED")
    BY <1>3, <1>4, <2>1, FinishedShape
  <2>3. RInv'
    BY <1>1, <1>3, <2>2 DEF RInv, CaptureStatuses
  <2>4. Linked(new_buckets') = {}
    <3>1. Linked(new_buckets) = {}
      BY <1>1, OneArray DEF TInv, StageTellsPlace, CloneStands
    <3>2. new_buckets' = new_buckets
      BY <1>1 DEF state, rehash
    <3> QED
      BY <3>1, <3>2
  <2>5. HasTimeline /\ HasTimeline'
    BY <1>1, <2>2 DEF HasTimeline
  <2>6. CASE UNCHANGED capturing /\ SameFrames(Cur', r)
    <3>1. Quiet
      BY <1>1, <1>2, <1>3, <2>5, <2>6 DEF Quiet, SameFrames
    <3> QED
      BY <2>3, <3>1 DEF Recorded
  <2>7. CASE Appends(r.operation_id, "OPERATION_FAILED") /\ FrameMore(Cur', r, "OPERATION_FAILED")
    <3>1. r.operation_id = Cur.operation_id /\ r.frame_count = Cur.frame_count
          /\ r.first_frame_id = Cur.first_frame_id
      BY <1>2, <1>3 DEF SameFrames
    <3>2. Adds(Cur.operation_id, "OPERATION_FAILED")
      BY <1>1, <2>1, <2>4, <2>7, <3>1 DEF Adds
    <3>3. FrameMore(Cur', Cur, "OPERATION_FAILED")
      BY <2>7, <3>1 DEF FrameMore
    <3>4. MoreFrame
      BY <1>1, <1>3, <2>5, <3>2, <3>3 DEF MoreFrame
    <3> QED
      BY <2>3, <3>4 DEF Recorded
  <2> QED
    BY <2>2, <2>6, <2>7
<1>5. CASE /\ UNCHANGED capturing
           /\ active_result' = NULL /\ active_capture_status' = "OK" /\ stage' = "idle"
           /\ result' = [r EXCEPT !.status = IF active_capture_status = "OK" THEN "OK"
                                             ELSE "CAPTURE_FAILED"]
  <2>1. result' \in Results /\ SameFrames(result', r)
    BY <1>5, StatusFacts DEF Statuses, TableStatuses
  <2>2. Cur' = result'
    BY <1>5 DEF Cur
  <2>3. RInv'
    BY <1>1, <1>3, <1>5, <2>1 DEF RInv, CaptureStatuses, capturing
  <2>4. Quiet
    BY <1>1, <1>2, <1>3, <1>5, <2>1, <2>2 DEF Quiet, SameFrames, HasTimeline
  <2> QED
    BY <2>3, <2>4 DEF Recorded
<1> QED
  BY <1>2, <1>4, <1>5

LEMMA RejectsRecorded ==
    ASSUME RInv, SessionRejects \/ UNCHANGED allvars PROVE RInv' /\ Recorded
<1>1. CASE SessionRejects
  <2>1. PICK op \in Operations, status \in Statuses, table_status \in TableStatuses :
            Rejects(op, status, table_status)
    BY <1>1 DEF SessionRejects, TableCalls, Operations, Statuses, TableStatuses
  <2>2. /\ stage = "idle" /\ result' = NoResult(op, status, table_status)
        /\ stage' = stage /\ UNCHANGED capturing /\ next_operation_id' = next_operation_id
        /\ active_result' = active_result /\ active_capture_status' = active_capture_status
        /\ ret' = ret
    BY <2>1 DEF Rejects, TableStays
  <2>3. result' \in Results /\ result'.operation_id = 0 /\ result'.frame_count = 0
    BY <2>2, NoResultFacts
  <2>4. active_result' = NULL /\ Cur' = result'
    BY <2>2 DEF RInv, Cur
  <2>5. RInv'
    BY <2>2, <2>3, <2>4 DEF RInv, capturing
  <2>6. Quiet
    BY <2>2, <2>3, <2>4 DEF Quiet, HasTimeline
  <2> QED
    BY <2>5, <2>6 DEF Recorded
<1>2. CASE UNCHANGED allvars
  <2>1. /\ UNCHANGED capturing /\ stage' = stage /\ result' = result
        /\ active_result' = active_result /\ active_capture_status' = active_capture_status
        /\ next_operation_id' = next_operation_id /\ ret' = ret
    BY <1>2 DEF allvars, session, vars
  <2>2. RInv'
    BY <2>1 DEF RInv, capturing
  <2>3. Quiet
    BY <2>1 DEF Quiet, HasTimeline, Cur, SameFrames
  <2> QED
    BY <2>2, <2>3 DEF Recorded
<1> QED
  BY <1>1, <1>2

\* Every step of a session does one of these things to its timeline and its results.
LEMMA SessionRecords ==
    ASSUME TInv, TInv', RInv, [SessionNext]_allvars PROVE RInv' /\ Recorded
<1>1. \/ SessionEnds \/ SessionBegins \/ SessionMakesTable \/ SessionCreated
      \/ SessionStarts \/ SessionContinues
      \/ SessionWhole \/ SessionReturns \/ SessionRejects \/ UNCHANGED allvars
  BY SessionSteps DEF SessionReads, SessionWhole
<1> QED
  BY <1>1, EndsRecorded, BuildsRecorded, CallsRecorded, WholeRecorded, ReturnsRecorded,
     RejectsRecorded

LEMMA ResultsKept == SessionSpec => [](TInv /\ RInv)
<1>1. SessionInit => RInv
  <2> SUFFICES ASSUME SessionInit PROVE RInv
    OBVIOUS
  <2>1. NoResult("none", "OK", "OK") \in Results
    BY NoResultFacts DEF Operations, Statuses, TableStatuses
  <2> QED
    BY <2>1 DEF SessionInit, Init, RInv, CaptureStatuses, TableStatuses
<1>2. TInv /\ TInv' /\ RInv /\ [SessionNext]_allvars => RInv'
  BY SessionRecords
<1> QED
  BY <1>1, <1>2, SessionHasItsTable, PTL DEF SessionSpec

-----------------------------------------------------------------------------
(* The frames. *)

\* A log of frames that has room for one or drops the oldest.
IsLog(f) == f \in Seq(Frames) /\ Len(f) <= MaxFrames

\* g is f with a frame more, the d oldest ones dropped.
Grown(f, g, d) ==
    /\ Len(g) = Len(f) + 1 - d /\ Len(g) > 0
    /\ \A i \in 1..(Len(g) - 1) : g[i] = f[i + d]

LEMMA AppendedFacts ==
    ASSUME NEW f, IsLog(f), NEW id, NEW p, [frame_id |-> id, payload |-> p] \in Frames
    PROVE  /\ IsLog(Log!Appended(f, id, p))
           /\ \E d \in {0, 1} : Grown(f, Log!Appended(f, id, p), d) /\ d <= Len(f)
           /\ LET g == Log!Appended(f, id, p) IN g[Len(g)] = [frame_id |-> id, payload |-> p]
<1> DEFINE x == [frame_id |-> id, payload |-> p]
           h == Append(f, x)
           g == Log!Appended(f, id, p)
<1>1. /\ f \in Seq(Frames) /\ Len(f) \in Nat /\ Len(f) <= MaxFrames
      /\ MaxFrames \in Nat /\ MaxFrames > 0
  BY SessionAssumption DEF IsLog
<1>2. g = IF Len(h) <= MaxFrames THEN h ELSE SubSeq(h, Len(h) - MaxFrames + 1, Len(h))
  BY DEF Log!Appended, Log!Newest
<1>3. /\ h \in Seq(Frames) /\ Len(h) = Len(f) + 1 /\ h[Len(f) + 1] = x
      /\ \A i \in 1..Len(f) : h[i] = f[i]
  BY <1>1
<1> HIDE DEF x, h, g
<1>4. CASE Len(f) < MaxFrames
  <2>1. g = h
    BY <1>1, <1>2, <1>3, <1>4
  <2>2. Grown(f, g, 0)
    BY <1>1, <1>3, <2>1 DEF Grown
  <2> QED
    BY <1>1, <1>3, <1>4, <2>1, <2>2 DEF IsLog, x, g
<1>5. CASE Len(f) = MaxFrames
  <2>1. g = SubSeq(h, 2, Len(f) + 1)
    BY <1>1, <1>2, <1>3, <1>5
  <2>2. /\ g \in Seq(Frames) /\ Len(g) = Len(f)
        /\ \A i \in 1..Len(f) : g[i] = h[i + 1]
    BY <1>1, <1>3, <2>1
  <2>3. g[Len(g)] = x
    BY <1>1, <1>3, <1>5, <2>2
  <2>4. Grown(f, g, 1)
    BY <1>1, <1>3, <1>5, <2>2 DEF Grown
  <2> QED
    BY <1>1, <1>5, <2>2, <2>3, <2>4 DEF IsLog, x, g
<1> QED
  BY <1>1, <1>4, <1>5

\* The timeline after a frame was added: the new frame shows the table that the step leaves.
GrowsBy(d, id, event) ==
    /\ next_frame_id' = next_frame_id + 1
    /\ Grown(timeline, timeline', d) /\ d <= Len(timeline)
    /\ timeline'[Len(timeline')].frame_id = next_frame_id
    /\ FrameAt(Len(timeline))'.operation_id = id
    /\ FrameAt(Len(timeline))'.event = event
    /\ FrameAt(Len(timeline))'.shows = Shows'

LEMMA AppendsFrame ==
    ASSUME TInv', IsLog(timeline), next_frame_id \in Nat, NEW id \in Nat, NEW event \in Events,
           Appends(id, event)
    PROVE  /\ IsLog(timeline')
           /\ \E d \in {0, 1} : GrowsBy(d, id, event)
<1> DEFINE p == Payload(id, event)
           x == [frame_id |-> next_frame_id, payload |-> p]
<1>1. /\ next_frame_id' = next_frame_id + 1
      /\ timeline' = Log!Appended(timeline, next_frame_id, p)
  BY DEF Appends
<1>2. x \in Frames /\ p.operation_id = id /\ p.event = event /\ p.shows = Shows'
  BY <1>1, PayloadType
<1> HIDE DEF p
<1>3. /\ IsLog(timeline') /\ timeline'[Len(timeline')] = x
      /\ \E d \in {0, 1} : Grown(timeline, timeline', d) /\ d <= Len(timeline)
  BY <1>1, <1>2, AppendedFacts
<1> QED
  BY <1>1, <1>2, <1>3 DEF GrowsBy, FrameAt

LEMMA GrownIndex ==
    ASSUME IsLog(timeline), IsLog(timeline'), NEW d \in {0, 1}, NEW id, NEW event,
           GrowsBy(d, id, event), NEW i \in DOMAIN timeline'
    PROVE  /\ Len(timeline) \in Nat /\ Len(timeline') = Len(timeline) + 1 - d /\ i \in 1..Len(timeline')
           /\ i < Len(timeline') =>
                 i + d \in DOMAIN timeline /\ timeline'[i] = timeline[i + d]
           /\ Len(timeline') \in DOMAIN timeline'
BY SMTT(30) DEF IsLog, GrowsBy, Grown

\* What the validator says of a frame that the timeline retains.
JudgedFrame(payload) ==
    IF payload.event \in BadEvents
    THEN /\ "SIZE_MISMATCH" \in payload.shows.violations
         /\ payload.shows.violations \subseteq {"SIZE_MISMATCH", "LOAD_EXCEEDED"}
    ELSE payload.shows.violations = {}

\* The retained frames are frames, each of them judged rightly.
LInv ==
    /\ IsLog(timeline)
    /\ ~ HasTimeline => timeline = <<>> /\ next_operation_id = 0 /\ Cur.operation_id = 0
    /\ \A i \in DOMAIN timeline : JudgedFrame(FrameAt(i))

LEMMA NoLog == IsLog(<<>>)
BY SessionAssumption DEF IsLog

LEMMA LogStep == ASSUME TInv', RInv, LInv, Recorded PROVE LInv'
<1>1. next_frame_id \in Nat /\ next_operation_id \in Nat /\ Cur.operation_id \in Nat
  BY ActiveFacts, ResultTypes DEF RInv
<1>2. IsLog(timeline)
  BY DEF LInv
<1>3. ASSUME NEW id \in Nat, NEW event, Adds(id, event), HasTimeline' PROVE LInv'
  <2>1. IsLog(timeline')
    BY <1>1, <1>2, <1>3, AppendsFrame DEF Adds
  <2>2. PICK d \in {0, 1} : GrowsBy(d, id, event)
    BY <1>1, <1>2, <1>3, AppendsFrame DEF Adds
  <2>3. ASSUME NEW i \in DOMAIN timeline' PROVE JudgedFrame(FrameAt(i)')
    <3>1. /\ Len(timeline) \in Nat /\ Len(timeline') = Len(timeline) + 1 - d /\ i \in 1..Len(timeline')
          /\ i < Len(timeline') =>
                i + d \in DOMAIN timeline /\ timeline'[i] = timeline[i + d]
      BY <1>2, <2>1, <2>2, <2>3, GrownIndex
    <3>2. CASE i < Len(timeline')
      BY <3>1, <3>2 DEF LInv, FrameAt
    <3>3. CASE i = Len(timeline')
      <4>1. Judged'
        BY JudgeThen
      <4>2. FrameAt(i)'.event = event /\ FrameAt(i)'.shows = Shows'
        BY <2>2, <3>3 DEF GrowsBy, FrameAt
      <4>3. (event \in BadEvents <=> quarantined') /\ (~ quarantined' => Linked(new_buckets') = {})
        BY <1>3 DEF Adds
      <4> QED
        BY <4>1, <4>2, <4>3 DEF Judged, JudgedFrame
    <3> QED
      BY <3>1, <3>2, <3>3
  <2> QED
    BY <1>3, <2>1, <2>3 DEF LInv
<1>4. ASSUME timeline' = timeline
      PROVE  IsLog(timeline') /\ \A i \in DOMAIN timeline' : JudgedFrame(FrameAt(i)')
  BY <1>4 DEF LInv, FrameAt
<1>5. CASE Cleared
  BY <1>5, NoLog DEF Cleared, LInv
<1>6. CASE Opened
  BY <1>4, <1>6 DEF Opened, LInv
<1>7. CASE CreatedFrame
  BY <1>3, <1>7 DEF CreatedFrame
<1>8. CASE Quiet
  BY <1>4, <1>8 DEF Quiet, LInv, capturing, SameFrames
<1>9. CASE NewCall
  BY <1>4, <1>9 DEF NewCall, LInv, capturing
<1>10. CASE NewFrame
  BY <1>1, <1>3, <1>10 DEF NewFrame
<1>11. CASE MoreFrame
  BY <1>1, <1>3, <1>11 DEF MoreFrame
<1> QED
  BY <1>5, <1>6, <1>7, <1>8, <1>9, <1>10, <1>11 DEF Recorded

LEMMA LogKept == SessionSpec => [](TInv /\ RInv /\ LInv)
<1>1. SessionInit => LInv
  <2> SUFFICES ASSUME SessionInit PROVE LInv
    OBVIOUS
  <2>1. /\ stage = "none" /\ timeline = <<>> /\ next_operation_id = 0
        /\ Cur = NoResult("none", "OK", "OK")
    BY DEF SessionInit, Cur
  <2> QED
    BY <2>1, NoLog DEF LInv, HasTimeline, NoResult
<1>2. TInv /\ TInv' /\ RInv /\ LInv /\ [SessionNext]_allvars => LInv'
  BY SessionRecords, LogStep
<1> QED
  BY <1>1, <1>2, ResultsKept, PTL DEF SessionSpec

\* hash_inspector.c, hti_append_owned_snapshot and its callers, with hash_snapshot.c: no frame
\* taken inside a call, in the middle of a growth, after a failure or after the restoration shows
\* a table that the validator objects to, and no frame taken in quarantine passes for a good one.
THEOREM FramesJudged == SessionSpec => []FramesJudgeTheTable
<1>1. LInv => FramesJudgeTheTable
  BY DEF LInv, FramesJudgeTheTable, JudgedFrame, BadEvents
<1> QED
  BY <1>1, LogKept, PTL

-----------------------------------------------------------------------------
(* The frames of an operation. *)

\* The id of the first frame of the running or the last operation, its next one if it has none.
First == IF Cur.frame_count = 0 THEN next_frame_id ELSE Cur.first_frame_id

\* Frames are numbered one after the other, and operations too.
Numbered ==
    /\ \A i \in DOMAIN timeline : timeline[i].frame_id + Len(timeline) + 1 = next_frame_id + i
    /\ \A i, j \in DOMAIN timeline :
          i <= j => FrameAt(i).operation_id <= FrameAt(j).operation_id
    /\ \A i \in DOMAIN timeline : FrameAt(i).operation_id < next_operation_id
    /\ HasTimeline => next_operation_id > 0

\* The result in hand is that of the last operation, and its frames are the last ones.
Named ==
    /\ active_result # NULL => Cur.operation_id > 0
    /\ Cur.operation_id > 0 => Cur.operation_id + 1 = next_operation_id
    /\ Cur.operation_id = 0 => Cur.frame_count = 0
    /\ First + Cur.frame_count = next_frame_id
    /\ Cur.operation_id > 0 =>
          \A i \in DOMAIN timeline :
             First <= timeline[i].frame_id <=> FrameAt(i).operation_id = Cur.operation_id
    /\ Cur.frame_count > 0 =>
          /\ timeline # <<>>
          /\ FrameAt(Len(timeline)).operation_id = Cur.operation_id
          /\ FrameAt(Len(timeline)).event = Cur.event

NInv == Numbered /\ Named

LEMMA FrameTypes ==
    ASSUME IsLog(timeline), NEW i \in DOMAIN timeline
    PROVE  /\ timeline[i].frame_id \in Nat /\ FrameAt(i).operation_id \in Nat
           /\ FrameAt(i).event \in Events /\ FrameAt(i).shows \in Views
           /\ Len(timeline) \in Nat /\ i \in 1..Len(timeline)
<1>1. timeline[i] \in Frames /\ Len(timeline) \in Nat /\ i \in 1..Len(timeline)
  BY DEF IsLog
<1> QED
  BY <1>1 DEF Frames, FrameAt

LEMMA FrameTypesThen ==
    (IsLog(timeline) =>
        \A i \in DOMAIN timeline : timeline[i].frame_id \in Nat /\ FrameAt(i).operation_id \in Nat)'
<1>1. IsLog(timeline) =>
        \A i \in DOMAIN timeline : timeline[i].frame_id \in Nat /\ FrameAt(i).operation_id \in Nat
  BY FrameTypes
<1> QED
  BY <1>1, PTL

\* The ids of the frames after one more.
LEMMA NumbersGrow ==
    ASSUME IsLog(timeline), IsLog(timeline'), next_frame_id \in Nat, NInv,
           NEW d \in {0, 1}, NEW id \in Nat, NEW event, GrowsBy(d, id, event),
           \A i \in DOMAIN timeline : FrameAt(i).operation_id <= id
    PROVE  /\ \A i \in DOMAIN timeline' :
                 timeline'[i].frame_id + Len(timeline') + 1 = next_frame_id' + i
           /\ \A i, j \in DOMAIN timeline' :
                 i <= j => FrameAt(i)'.operation_id <= FrameAt(j)'.operation_id
           /\ \A i \in DOMAIN timeline' : FrameAt(i)'.operation_id <= id
           /\ timeline' # <<>>
           /\ FrameAt(Len(timeline))'.operation_id = id
           /\ FrameAt(Len(timeline))'.event = event
<1> DEFINE n == Len(timeline')
<1>1. \A i \in DOMAIN timeline' :
        /\ Len(timeline) \in Nat /\ n = Len(timeline) + 1 - d /\ i \in 1..n
        /\ i < n => i + d \in DOMAIN timeline /\ timeline'[i] = timeline[i + d]
        /\ n \in DOMAIN timeline'
  BY GrownIndex
<1>2. /\ next_frame_id' = next_frame_id + 1 /\ timeline'[n].frame_id = next_frame_id
      /\ FrameAt(Len(timeline))'.operation_id = id /\ FrameAt(Len(timeline))'.event = event
      /\ n > 0 /\ n \in Nat
  BY DEF GrowsBy, Grown, IsLog
<1>3. timeline'[n].payload.operation_id = id
  BY <1>2 DEF FrameAt
<1>4. timeline' # <<>>
  BY <1>2
<1>5. \A i \in DOMAIN timeline : /\ timeline[i].frame_id \in Nat /\ FrameAt(i).operation_id \in Nat
                                 /\ i \in 1..Len(timeline)
  BY FrameTypes
<1>6. ASSUME NEW i \in DOMAIN timeline'
      PROVE  /\ timeline'[i].frame_id + n + 1 = next_frame_id' + i
             /\ timeline'[i].payload.operation_id <= id
  <2>1. CASE i < n
    <3>1. i + d \in DOMAIN timeline /\ timeline'[i] = timeline[i + d]
      BY <1>1, <1>6, <2>1
    <3>2. timeline[i + d].frame_id + Len(timeline) + 1 = next_frame_id + (i + d)
      BY <3>1 DEF NInv, Numbered, Named
    <3>3. /\ timeline[i + d].frame_id \in Nat /\ FrameAt(i + d).operation_id <= id
          /\ n = Len(timeline) + 1 - d /\ Len(timeline) \in Nat /\ i \in Nat
      BY <1>1, <1>5, <1>6, <3>1
    <3> DEFINE q == timeline[i + d].frame_id
               L == Len(timeline)
    <3>4. timeline'[i].frame_id = q
      BY <3>1
    <3>5. q + L + 1 = next_frame_id + (i + d)
      BY <3>2
    <3>6. q \in Nat /\ L \in Nat /\ i \in Nat /\ d \in Nat /\ n = L + 1 - d
      BY <3>3
    <3> HIDE DEF q, L, n
    <3>7. q + n + 1 = next_frame_id + 1 + i
      BY <3>5, <3>6
    <3>8. timeline'[i].frame_id + n + 1 = next_frame_id' + i
      BY <1>2, <3>4, <3>7
    <3> QED
      BY <3>1, <3>3, <3>8 DEF FrameAt
  <2>2. CASE i = n
    BY <1>2, <1>3, <2>2
  <2> QED
    BY <1>1, <1>6, <2>1, <2>2
<1>7. ASSUME NEW i \in DOMAIN timeline', NEW j \in DOMAIN timeline', i <= j
      PROVE  timeline'[i].payload.operation_id <= timeline'[j].payload.operation_id
  <2>1. CASE j = n
    BY <1>3, <1>6, <2>1
  <2>2. CASE j < n
    <3>1. /\ i + d \in DOMAIN timeline /\ timeline'[i] = timeline[i + d]
          /\ j + d \in DOMAIN timeline /\ timeline'[j] = timeline[j + d]
          /\ i + d <= j + d
      BY <1>1, <1>7, <2>2
    <3>2. FrameAt(i + d).operation_id <= FrameAt(j + d).operation_id
      BY <3>1 DEF NInv, Numbered, Named
    <3> QED
      BY <3>1, <3>2 DEF FrameAt
  <2> QED
    BY <1>1, <1>7, <2>1, <2>2
<1> QED
  BY <1>2, <1>4, <1>6, <1>7 DEF FrameAt

LEMMA CurTypes ==
    ASSUME RInv
    PROVE  /\ Cur.operation_id \in Nat /\ Cur.frame_count \in Nat /\ Cur.first_frame_id \in Nat
           /\ next_frame_id \in Nat /\ next_operation_id \in Nat /\ First \in Nat
BY ActiveFacts, ResultTypes DEF RInv, First

LEMMA NoneMore == \A n \in Nat : \A m : m = 0 => n + m = n
OBVIOUS

LEMMA CurTypesThen ==
    (RInv => /\ Cur.operation_id \in Nat /\ Cur.frame_count \in Nat /\ Cur.first_frame_id \in Nat
             /\ next_frame_id \in Nat /\ next_operation_id \in Nat /\ First \in Nat)'
<1>1. RInv => /\ Cur.operation_id \in Nat /\ Cur.frame_count \in Nat /\ Cur.first_frame_id \in Nat
              /\ next_frame_id \in Nat /\ next_operation_id \in Nat /\ First \in Nat
  BY CurTypes
<1> QED
  BY <1>1, PTL

\* The end of a session and the beginning of one.
LEMMA NoFramesNumbered ==
    ASSUME RInv', timeline' = <<>>, ~ HasTimeline',
           Cur'.operation_id = 0, Cur'.frame_count = 0
    PROVE  NInv'
<1>1. active_result' = NULL
  BY DEF RInv, HasTimeline
<1>2. next_frame_id' \in Nat /\ First' = next_frame_id'
  BY CurTypesThen DEF First
<1>3. Numbered'
  BY DEF Numbered
<1>4. First' + Cur'.frame_count = next_frame_id'
  BY <1>2, NoneMore
<1>5. Named'
  BY <1>1, <1>4 DEF Named
<1> QED
  BY <1>3, <1>5 DEF NInv

\* The ids of the retained frames are behind the next ones.
LEMMA OlderFrames ==
    ASSUME RInv, IsLog(timeline), Numbered, NEW i \in DOMAIN timeline
    PROVE  /\ timeline[i].frame_id \in Nat /\ timeline[i].frame_id < next_frame_id
           /\ ~ (next_frame_id <= timeline[i].frame_id)
           /\ FrameAt(i).operation_id \in Nat /\ FrameAt(i).operation_id < next_operation_id
           /\ FrameAt(i).operation_id # next_operation_id
<1> DEFINE q == timeline[i].frame_id
           L == Len(timeline)
<1>1. q + L + 1 = next_frame_id + i /\ FrameAt(i).operation_id < next_operation_id
  BY DEF Numbered
<1>2. q \in Nat /\ L \in Nat /\ i \in Nat /\ i <= L /\ FrameAt(i).operation_id \in Nat
  BY FrameTypes
<1>3. next_frame_id \in Nat /\ next_operation_id \in Nat
  BY CurTypes
<1>4. FrameAt(i).operation_id # next_operation_id
  BY <1>1, <1>2, <1>3
<1> HIDE DEF q, L
<1>5. q < next_frame_id /\ ~ (next_frame_id <= q)
  BY <1>1, <1>2, <1>3
<1> QED
  BY <1>1, <1>2, <1>4, <1>5 DEF q

\* A step that takes no frame.
LEMMA QuietNumbered ==
    ASSUME RInv, RInv', LInv, NInv, Quiet \/ NewCall PROVE NInv'
<1>1. /\ timeline' = timeline /\ next_frame_id' = next_frame_id
      /\ next_operation_id' \in {next_operation_id, next_operation_id + 1}
      /\ HasTimeline' => HasTimeline
  BY DEF Quiet, NewCall, capturing
<1>2. /\ next_frame_id \in Nat /\ next_operation_id \in Nat
      /\ Cur'.operation_id \in Nat /\ Cur'.frame_count \in Nat
  BY CurTypes, CurTypesThen
<1>3. \A i \in DOMAIN timeline :
         /\ timeline[i].frame_id \in Nat /\ FrameAt(i).operation_id \in Nat
         /\ Len(timeline) \in Nat /\ i \in 1..Len(timeline)
  BY FrameTypes DEF LInv
<1>4. /\ \A i \in DOMAIN timeline' : timeline'[i].frame_id + Len(timeline') + 1 = next_frame_id' + i
      /\ \A i, j \in DOMAIN timeline' :
            i <= j => FrameAt(i)'.operation_id <= FrameAt(j)'.operation_id
      /\ \A i \in DOMAIN timeline' : FrameAt(i)'.operation_id < next_operation_id'
      /\ HasTimeline' => next_operation_id' > 0
  <2>1. \A i \in DOMAIN timeline : FrameAt(i).operation_id < next_operation_id'
    BY <1>1, <1>2, <1>3 DEF NInv, Numbered, Named
  <2>2. HasTimeline' => next_operation_id' > 0
    BY <1>1, <1>2 DEF NInv, Numbered, Named
  <2> QED
    BY <1>1, <2>1, <2>2 DEF NInv, Numbered, Named, FrameAt
<1>5. CASE Quiet /\ SameFrames(Cur', Cur) /\ (active_result' # NULL => active_result # NULL)
  <2>1. /\ Cur'.operation_id = Cur.operation_id /\ Cur'.frame_count = Cur.frame_count
        /\ Cur'.event = Cur.event /\ First' = First
        /\ next_operation_id' = next_operation_id
    BY <1>1, <1>5 DEF SameFrames, First, Quiet
  <2> QED
    BY <1>1, <1>4, <1>5, <2>1 DEF NInv, Numbered, Named, FrameAt
<1>6. CASE Cur'.frame_count = 0 /\ Cur'.operation_id = 0 /\ active_result' = NULL
  <2>1. First' = next_frame_id'
    BY <1>6 DEF First
  <2> QED
    BY <1>1, <1>2, <1>4, <1>6, <2>1 DEF NInv, Numbered, Named
<1>7. CASE NewCall
  <2>1. /\ Cur'.operation_id = next_operation_id /\ Cur'.frame_count = 0
        /\ next_operation_id' = next_operation_id + 1 /\ HasTimeline
    BY <1>7 DEF NewCall
  <2>2. First' = next_frame_id'
    BY <2>1 DEF First
  <2>3. next_operation_id > 0
    BY <2>1 DEF NInv, Numbered, Named
  <2>4. ASSUME NEW i \in DOMAIN timeline
        PROVE ~ (next_frame_id <= timeline[i].frame_id) /\ FrameAt(i).operation_id # next_operation_id
    BY <1>2, <2>4, OlderFrames DEF LInv, NInv
  <2> QED
    BY <1>1, <1>2, <1>4, <2>1, <2>2, <2>3, <2>4 DEF NInv, Numbered, Named, FrameAt
<1> QED
  BY <1>5, <1>6, <1>7 DEF Quiet

\* A frame of an operation that has none yet, or has the last ones.
LEMMA FrameNumbered ==
    ASSUME TInv', RInv, RInv', LInv, LInv', NInv, HasTimeline', NEW id \in Nat, NEW event,
           Adds(id, event), \A i \in DOMAIN timeline : FrameAt(i).operation_id <= id,
           next_operation_id' = id + 1,
           \/ /\ Cur'.operation_id = 0 /\ Cur'.frame_count = 0 /\ active_result' = NULL
           \/ /\ Cur'.operation_id = id /\ id > 0 /\ Cur'.event = event /\ Cur'.frame_count > 0
              /\ First' + Cur'.frame_count = next_frame_id'
              /\ First' <= next_frame_id
              /\ \A i \in DOMAIN timeline :
                    First' <= timeline[i].frame_id <=> FrameAt(i).operation_id = id
    PROVE  NInv'
<1>1. /\ IsLog(timeline) /\ IsLog(timeline') /\ next_frame_id \in Nat
  BY CurTypes DEF LInv
<1>2. PICK d \in {0, 1} : GrowsBy(d, id, event)
  BY <1>1, AppendsFrame DEF Adds
<1>3. /\ \A i \in DOMAIN timeline' : timeline'[i].frame_id + Len(timeline') + 1 = next_frame_id' + i
      /\ \A i, j \in DOMAIN timeline' :
            i <= j => FrameAt(i)'.operation_id <= FrameAt(j)'.operation_id
      /\ \A i \in DOMAIN timeline' : FrameAt(i)'.operation_id <= id
      /\ timeline' # <<>>
      /\ FrameAt(Len(timeline))'.operation_id = id
      /\ FrameAt(Len(timeline))'.event = event
  BY <1>1, <1>2, NumbersGrow
<1>4. /\ Cur'.operation_id \in Nat /\ Cur'.frame_count \in Nat /\ First' \in Nat
      /\ next_frame_id' \in Nat /\ next_operation_id' \in Nat
  BY CurTypesThen
<1>5. /\ \A i \in DOMAIN timeline' : FrameAt(i)'.operation_id < next_operation_id'
      /\ next_operation_id' > 0
  <2>1. \A i \in DOMAIN timeline' : FrameAt(i)'.operation_id \in Nat
    BY <1>1, FrameTypesThen
  <2> QED
    BY <1>3, <2>1
<1>6. CASE Cur'.operation_id = 0 /\ Cur'.frame_count = 0 /\ active_result' = NULL
  <2>0. First' = next_frame_id'
    BY <1>6 DEF First
  <2>1. First' + Cur'.frame_count = next_frame_id'
    BY <1>4, <1>6, <2>0, NoneMore
  <2>2. Numbered'
    BY <1>3, <1>5 DEF Numbered
  <2>3. Named'
    BY <1>6, <2>1 DEF Named
  <2> QED
    BY <2>2, <2>3 DEF NInv
<1>7. CASE /\ Cur'.operation_id = id /\ id > 0 /\ Cur'.event = event /\ Cur'.frame_count > 0
           /\ First' + Cur'.frame_count = next_frame_id'
           /\ First' <= next_frame_id
           /\ \A i \in DOMAIN timeline :
                 First' <= timeline[i].frame_id <=> FrameAt(i).operation_id = id
  <2>1. ASSUME NEW i \in DOMAIN timeline'
        PROVE  First' <= timeline'[i].frame_id <=> FrameAt(i)'.operation_id = id
    <3>1. /\ Len(timeline') = Len(timeline) + 1 - d /\ i \in 1..Len(timeline')
          /\ i < Len(timeline') =>
                i + d \in DOMAIN timeline /\ timeline'[i] = timeline[i + d]
      BY <1>1, <1>2, <2>1, GrownIndex
    <3>2. CASE i < Len(timeline')
      BY <1>7, <3>1, <3>2 DEF FrameAt
    <3>3. CASE i = Len(timeline')
      <4>1. timeline'[i].frame_id = next_frame_id /\ FrameAt(i)'.operation_id = id
        BY <1>2, <3>3 DEF GrowsBy, FrameAt
      <4> QED
        BY <1>7, <4>1
    <3> QED
      BY <3>1, <3>2, <3>3
  <2> QED
    BY <1>3, <1>4, <1>5, <1>7, <2>1 DEF NInv, Numbered, Named
<1> QED
  BY <1>6, <1>7

LEMMA NumbersStep ==
    ASSUME TInv', RInv, RInv', LInv, LInv', NInv, Recorded PROVE NInv'
<1>1. /\ Cur.operation_id \in Nat /\ Cur.frame_count \in Nat /\ First \in Nat
      /\ next_frame_id \in Nat /\ next_operation_id \in Nat
  BY CurTypes
<1>2. \A i \in DOMAIN timeline :
         /\ timeline[i].frame_id \in Nat /\ timeline[i].frame_id < next_frame_id
         /\ FrameAt(i).operation_id \in Nat /\ FrameAt(i).operation_id < next_operation_id
  BY OlderFrames DEF LInv, NInv
<1>3. CASE Cleared
  BY <1>3, NoFramesNumbered DEF Cleared
<1>4. CASE Opened
  <2>1. timeline' = <<>> /\ ~ HasTimeline' /\ Cur'.operation_id = 0 /\ Cur'.frame_count = 0
    BY <1>4 DEF Opened, LInv, NInv, Named
  <2> QED
    BY <2>1, NoFramesNumbered
<1>5. CASE CreatedFrame
  <2>1. timeline = <<>> /\ HasTimeline' /\ next_operation_id' = 0 + 1
        /\ Adds(0, "SESSION_CREATED") /\ 0 \in Nat
        /\ Cur'.operation_id = 0 /\ Cur'.frame_count = 0 /\ active_result' = NULL
    BY <1>5 DEF CreatedFrame, LInv
  <2>2. \A i \in DOMAIN timeline : FrameAt(i).operation_id <= 0
    BY <2>1
  <2> QED
    BY <2>1, <2>2, FrameNumbered
<1>6. CASE Quiet \/ NewCall
  BY <1>6, QuietNumbered
<1>7. CASE NewFrame
  <2>1. PICK event :
          /\ Adds(next_operation_id, event)
          /\ Cur'.operation_id = next_operation_id /\ Cur'.frame_count = 1
          /\ Cur'.first_frame_id = next_frame_id /\ Cur'.event = event
    BY <1>7 DEF NewFrame
  <2>2. HasTimeline' /\ next_operation_id' = next_operation_id + 1 /\ next_operation_id > 0
    BY <1>7 DEF NewFrame, NInv, Numbered
  <2>3. First' = next_frame_id
    BY <2>1 DEF First
  <2>4. First' + Cur'.frame_count = next_frame_id'
    BY <2>1, <2>3 DEF Adds, Appends
  <2>5. \A i \in DOMAIN timeline : FrameAt(i).operation_id <= next_operation_id
    BY <1>1, <1>2
  <2>6. \A i \in DOMAIN timeline :
           First' <= timeline[i].frame_id <=> FrameAt(i).operation_id = next_operation_id
    BY <1>1, <1>2, <2>3
  <2>7. First' <= next_frame_id /\ Cur'.frame_count > 0
    BY <1>1, <2>1, <2>3
  <2> QED
    BY <1>1, <2>1, <2>2, <2>4, <2>5, <2>6, <2>7, FrameNumbered
<1>8. CASE MoreFrame
  <2> DEFINE id == Cur.operation_id
  <2>1. PICK event : Adds(id, event) /\ FrameMore(Cur', Cur, event)
    BY <1>8 DEF MoreFrame
  <2>2. /\ HasTimeline' /\ next_operation_id' = next_operation_id
        /\ id > 0 /\ id + 1 = next_operation_id
        /\ First + Cur.frame_count = next_frame_id
        /\ \A i \in DOMAIN timeline :
              First <= timeline[i].frame_id <=> FrameAt(i).operation_id = id
    BY <1>8 DEF MoreFrame, NInv, Named
  <2>3. /\ Cur'.operation_id = id /\ Cur'.frame_count = Cur.frame_count + 1
        /\ Cur'.event = event
        /\ Cur'.first_frame_id = IF Cur.frame_count = 0 THEN next_frame_id ELSE Cur.first_frame_id
    BY <2>1 DEF FrameMore
  <2>4. Cur'.frame_count > 0
    BY <1>1, <2>3
  <2>5. First' = First
    <3>1. First' = Cur'.first_frame_id
      BY <2>4, <1>1, <2>3 DEF First
    <3> QED
      BY <3>1, <2>3 DEF First
  <2>6. next_frame_id' = next_frame_id + 1
    BY <2>1 DEF Adds, Appends
  <2>7. First' + Cur'.frame_count = next_frame_id' /\ First' <= next_frame_id
    <3> DEFINE n == Cur.frame_count
               m == Cur'.frame_count
    <3>1. n \in Nat /\ m = n + 1 /\ First + n = next_frame_id
      BY <1>1, <2>2, <2>3
    <3> HIDE DEF n, m
    <3>2. First + m = next_frame_id + 1 /\ First <= next_frame_id
      BY <1>1, <3>1
    <3> QED
      BY <2>5, <2>6, <3>2 DEF m
  <2>8. \A i \in DOMAIN timeline : FrameAt(i).operation_id <= id
    BY <1>1, <1>2, <2>2
  <2>9. id \in Nat
    BY <1>1
  <2> HIDE DEF id
  <2> QED
    BY <2>1, <2>2, <2>3, <2>4, <2>5, <2>7, <2>8, <2>9, FrameNumbered
<1> QED
  BY <1>3, <1>4, <1>5, <1>6, <1>7, <1>8 DEF Recorded

LEMMA NumbersKept == SessionSpec => [](TInv /\ RInv /\ LInv /\ NInv)
<1>1. SessionInit => NInv
  <2> SUFFICES ASSUME SessionInit PROVE NInv
    OBVIOUS
  <2>1. /\ timeline = <<>> /\ next_frame_id = 0 /\ ~ HasTimeline /\ active_result = NULL
        /\ Cur = NoResult("none", "OK", "OK")
    BY DEF SessionInit, Cur, HasTimeline
  <2>2. Cur.operation_id = 0 /\ Cur.frame_count = 0
    BY <2>1 DEF NoResult
  <2>3. First + Cur.frame_count = next_frame_id
    BY <2>1, <2>2 DEF First
  <2> QED
    BY <2>1, <2>2, <2>3 DEF NInv, Numbered, Named
<1>2. TInv /\ TInv' /\ RInv /\ RInv' /\ LInv /\ LInv' /\ NInv /\ [SessionNext]_allvars => NInv'
  BY SessionRecords, NumbersStep
<1> QED
  BY <1>1, <1>2, LogKept, PTL DEF SessionSpec

\* hash_inspector.c, hti_capture_event, hti_begin_operation and hti_finish_operation: a result
\* names exactly the retained frames of its operation, which stand next to each other and are the
\* last ones, and it is filled in only while its call runs.
THEOREM ResultsNameFrames == SessionSpec => []ResultNamesItsFrames
<1>1. ASSUME RInv, LInv, NInv PROVE ResultNamesItsFrames
  <2>1. Cur = IF active_result # NULL THEN active_result ELSE result
    BY DEF Cur
  <2>2. /\ Cur.operation_id \in Nat /\ Cur.frame_count \in Nat /\ Cur.first_frame_id \in Nat
        /\ First \in Nat /\ next_frame_id \in Nat
    BY <1>1, CurTypes
  <2>3. ASSUME NEW i \in DOMAIN timeline, Cur.operation_id > 0
        PROVE  timeline[i].frame_id \in
                  Cur.first_frame_id..(Cur.first_frame_id + Cur.frame_count - 1)
               <=> FrameAt(i).operation_id = Cur.operation_id
    <3> DEFINE q == timeline[i].frame_id
               n == Cur.frame_count
               first == Cur.first_frame_id
    <3>1. q \in Nat /\ q < next_frame_id
      BY <1>1, <2>3, OlderFrames DEF LInv, NInv
    <3>2. First <= q <=> FrameAt(i).operation_id = Cur.operation_id
      BY <1>1, <2>3 DEF NInv, Named
    <3>3. First + n = next_frame_id /\ First = IF n = 0 THEN next_frame_id ELSE first
      BY <1>1 DEF NInv, Named, First
    <3>4. n \in Nat /\ first \in Nat
      BY <2>2
    <3> HIDE DEF q, n, first
    <3>5. q \in first..(first + n - 1) <=> First <= q
      BY <2>2, <3>1, <3>3, <3>4
    <3> QED
      BY <3>2, <3>5 DEF q, n, first
  <2>4. /\ active_result # NULL <=> stage \in {"call", "return"}
        /\ \A i, j \in DOMAIN timeline :
              i <= j => FrameAt(i).operation_id <= FrameAt(j).operation_id
        /\ Cur.frame_count > 0 => Cur.event = FrameAt(Len(timeline)).event
    BY <1>1 DEF RInv, NInv, Numbered, Named
  <2> QED
    BY <2>1, <2>3, <2>4 DEF ResultNamesItsFrames
<1>2. RInv /\ LInv /\ NInv => ResultNamesItsFrames
  BY <1>1
<1> QED
  BY <1>2, NumbersKept, PTL

-----------------------------------------------------------------------------
(* The newest frame. *)

\* The newest frame shows the active table.
Current == timeline # <<>> /\ FrameAt(Len(timeline)).shows = Shows

\* After a call that reports success, and before it returns if the last capture did not fail.
CInv ==
    /\ stage = "idle" /\ result.status = "OK" => Current
    /\ stage = "call" /\ pc = "grow" => active_result.frame_count = 0
    /\ stage = "return" /\ active_capture_status = "OK" /\ active_result.frame_count > 0
          => Current

LEMMA Speaks == ASSUME trace'.kind # "NONE" PROVE trace' # NoTrace
BY DEF NoTrace

LEMMA AppendsCurrent ==
    ASSUME TInv', RInv, LInv, NEW id \in Nat, NEW event \in Events, Appends(id, event)
    PROVE  Current'
<1>1. \E d \in {0, 1} : GrowsBy(d, id, event)
  BY AppendsFrame DEF RInv, LInv
<1>2. timeline' # <<>>
  BY <1>1 DEF GrowsBy, Grown
<1> QED
  BY <1>1, <1>2 DEF Current, GrowsBy

LEMMA StaysCurrent ==
    ASSUME Current, UNCHANGED state, UNCHANGED capturing PROVE Current'
BY DEF Current, FrameAt, Shows, state, table, capturing

\* What a call of the table does when it begins.
LEMMA StartCases ==
    ASSUME IInv, CallBegins
    PROVE  \/ trace' = NoTrace
           \/ trace'.kind # "REHASH_END" /\ trace' # NoTrace /\ pc' = "ready"
<1>1. CASE \E k \in Keys, v \in Values : PutAllocates(k, v)
  BY <1>1 DEF PutAllocates, Silent
<1>2. CASE \E k \in Keys : PutRefused(k)
  BY <1>2 DEF PutRefused, Silent
<1>3. ASSUME NEW k \in Keys, NEW v \in Values, PutUpdates(k, v)
      PROVE  pc' = "ready" /\ trace'.kind = "PUT_UPDATED"
  BY <1>3 DEF PutUpdates, Idle, Emit
<1>4. ASSUME NEW k \in Keys, GetHits(k) PROVE pc' = "ready" /\ trace'.kind = "LOOKUP_HIT"
  BY <1>4 DEF GetHits, ReadOnly, Idle, Emit
<1>5. ASSUME NEW k \in Keys, RemoveHits(k) PROVE pc' = "ready" /\ trace'.kind = "DELETE_HIT"
  BY <1>5 DEF RemoveHits, Idle, Emit
<1>6. ASSUME NEW k \in Keys, NEW op, NEW kind, Misses(op, kind, k)
      PROVE  pc' = "ready" /\ trace'.kind = kind
  BY <1>6 DEF Misses, ReadOnly, Idle, Emit
<1>7. CASE trace'.kind \in {"PUT_UPDATED", "LOOKUP_HIT", "DELETE_HIT", "LOOKUP_MISS", "DELETE_MISS"}
           /\ pc' = "ready"
  BY <1>7, Speaks
<1> QED
  BY <1>1, <1>2, <1>3, <1>4, <1>5, <1>6, <1>7 DEF CallBegins

\* What it does afterwards.
GoesOn ==
    \/ /\ pc = "grow" /\ pc' = "ready"
       /\ trace' = NoTrace \/ (trace' # NoTrace /\ trace'.kind = "REHASH_FAILED")
    \/ /\ pc = "grow" /\ pc' = "relink" /\ trace' # NoTrace /\ trace'.kind = "REHASH_BEGIN"
       /\ capacity' = capacity /\ new_capacity' = 2 * capacity
       /\ Linked(new_buckets') = {} /\ Contents' = Linked(buckets')
    \/ /\ pc = "relink" /\ pc' = "relink" /\ trace' = NoTrace
       /\ capacity' = capacity /\ new_capacity' = new_capacity /\ Contents' = Contents
    \/ /\ pc = "relink" /\ pc' = "link" /\ trace' # NoTrace /\ trace'.kind = "REHASH_END"
       /\ capacity' = new_capacity /\ Contents' = Contents /\ Contents' = Linked(buckets')
    \/ /\ pc = "link" /\ pc' = "ready" /\ trace' # NoTrace /\ trace'.kind = "PUT_INSERTED"

LEMMA ContinueCases ==
    ASSUME IInv, entry # NULL, Continue PROVE GoesOn
<1>1. CASE GrowFails
  <2>1. pc = "grow" /\ pc' = "ready"
    BY <1>1 DEF GrowFails, GrowthRefused
  <2>2. trace' = NoTrace \/ trace'.kind = "REHASH_FAILED"
    BY <1>1 DEF GrowFails, GrowthRefused, Silent, Emit
  <2> QED
    BY <2>1, <2>2, Speaks DEF GoesOn
<1>2. CASE Grow
  <2>1. pc = "grow" /\ BeginRehash(2 * capacity)
    BY <1>2 DEF Grow
  <2>2. /\ pc' = "relink" /\ trace'.kind = "REHASH_BEGIN"
        /\ capacity' = capacity /\ new_capacity' = 2 * capacity
    BY <2>1 DEF BeginRehash, Emit, table
  <2>3. Linked(new_buckets') = {}
    BY <2>1, RehashCapacities, BeginRehashEffect
  <2>4. Contents' = Linked(buckets')
    BY <2>3 DEF Contents
  <2> QED
    BY <2>1, <2>2, <2>3, <2>4, Speaks DEF GoesOn
<1>3. CASE Relink
  <2>1. Contents' = Contents
    BY <1>3, KeepsEffect DEF Keeps
  <2>2. /\ pc = "relink" /\ pc' = "relink" /\ trace' = NoTrace
        /\ capacity' = capacity /\ new_capacity' = new_capacity
    BY <1>3 DEF Relink, Silent
  <2> QED
    BY <2>1, <2>2 DEF GoesOn
<1>4. CASE EndRehash
  <2>1. Contents' = Contents
    BY <1>4, KeepsEffect DEF Keeps
  <2>2. /\ pc = "relink" /\ pc' = "link" /\ trace'.kind = "REHASH_END"
        /\ capacity' = new_capacity /\ new_buckets' = EmptyBuckets(0)
    BY <1>4 DEF EndRehash, Emit
  <2>3. Linked(new_buckets') = {}
    BY <2>2, EmptyFacts
  <2>4. Contents' = Linked(buckets')
    BY <2>3 DEF Contents
  <2> QED
    BY <2>1, <2>2, <2>4, Speaks DEF GoesOn
<1>5. CASE LinkEntry
  <2>1. pc = "link" /\ pc' = "ready" /\ trace'.kind = "PUT_INSERTED"
    BY <1>5 DEF LinkEntry, Emit
  <2> QED
    BY <2>1, Speaks DEF GoesOn
<1> QED
  BY <1>1, <1>2, <1>3, <1>4, <1>5 DEF Continue

LEMMA SessionGoesOn ==
    ASSUME TInv, SessionContinues PROVE GoesOn /\ stage = "call"
<1>1. Continue /\ stage = "call"
  BY DEF SessionContinues
<1>2. IInv /\ entry # NULL
  BY <1>1 DEF TInv, CloneStands, StageTellsPlace
<1> QED
  BY <1>1, <1>2, ContinueCases

LEMMA TableEventsTold == TableEvents \subseteq Events
BY DEF TableEvents, Events

\* A call that ends with a frame of its own.
LEMMA FinishedCurrent ==
    ASSUME TInv', RInv, LInv, NEW r \in Results, NEW event \in Events, Finished(r, event)
    PROVE  CInv'
<1>1. next_frame_id \in Nat /\ r.operation_id \in Nat
  BY CurTypes, ResultTypes
<1>2. /\ stage' = "idle"
      /\ \/ result'.status = "CAPTURE_FAILED"
         \/ Appends(r.operation_id, event)
  BY <1>1, FinishedShape
<1>3. Appends(r.operation_id, event) => Current'
  BY <1>1, AppendsCurrent
<1> QED
  BY <1>2, <1>3 DEF CInv

LEMMA StartsCurrent ==
    ASSUME TInv, TInv', RInv, LInv, SessionStarts PROVE CInv'
<1>1. /\ ~ quarantined /\ stage' = IF pc' = "ready" THEN "return" ELSE "call"
      /\ trace' # NoTrace => trace'.kind \in TableEvents
  BY StartShape
<1>2. PICK r \in Results : /\ r.operation_id = next_operation_id /\ r.frame_count = 0
                           /\ Sunk(r, "OK")
  BY StartShape
<1>3. next_operation_id \in Nat
  BY CurTypes
<1>4. trace' = NoTrace \/ pc' = "ready"
  <2>1. IInv /\ CallBegins
    BY <1>1 DEF TInv, SessionStarts
  <2> QED
    BY <2>1, StartCases
<1>5. CASE active_result' = r
  BY <1>1, <1>2, <1>5 DEF CInv
<1>6. CASE Appends(r.operation_id, trace'.kind) /\ trace' # NoTrace
  <2>1. trace'.kind \in Events
    BY <1>1, <1>6, TableEventsTold
  <2>2. Current'
    BY <1>2, <1>3, <1>6, <2>1, AppendsCurrent
  <2> QED
    BY <1>1, <1>4, <1>6, <2>2 DEF CInv
<1> QED
  BY <1>2, <1>5, <1>6 DEF Sunk

LEMMA ContinuesCurrent ==
    ASSUME TInv, TInv', RInv, LInv, CInv, SessionContinues PROVE CInv'
<1>1. /\ stage' = IF pc' = "ready" THEN "return" ELSE "call"
      /\ trace' # NoTrace => trace'.kind \in TableEvents
      /\ active_result \in Results /\ Sunk(active_result, active_capture_status)
  BY ContinueShape
<1>2. GoesOn /\ stage = "call"
  BY SessionGoesOn
<1>3. pc' # "grow" /\ (stage' = "return" <=> pc' = "ready") /\ stage' # "idle"
  BY <1>1, <1>2 DEF GoesOn
<1>4. trace' = NoTrace /\ pc' = "ready" => active_result.frame_count = 0
  BY <1>2 DEF GoesOn, CInv
<1>5. CASE /\ active_result' = active_result
           /\ trace' # NoTrace => active_capture_status' # "OK"
  <2>1. active_result.frame_count = 0 => ~ (active_result.frame_count > 0)
    OBVIOUS
  <2> QED
    BY <1>3, <1>4, <1>5, <2>1 DEF CInv
<1>6. CASE Appends(active_result.operation_id, trace'.kind) /\ trace' # NoTrace
  <2>1. trace'.kind \in Events
    BY <1>1, <1>6, TableEventsTold
  <2>2. active_result.operation_id \in Nat
    BY <1>1, ResultTypes
  <2>3. Current'
    BY <1>6, <2>1, <2>2, AppendsCurrent
  <2> QED
    BY <1>3, <2>3 DEF CInv
<1> QED
  BY <1>1, <1>5, <1>6 DEF Sunk

LEMMA ReturnsCurrent ==
    ASSUME TInv, TInv', RInv, LInv, CInv, SessionReturns PROVE CInv'
<1>1. stage = "return" /\ UNCHANGED state
  BY ReturnShape
<1>2. PICK r \in Results :
          /\ SameFrames(r, active_result)
          /\ \/ /\ r.frame_count = 0 /\ active_capture_status = "OK"
                /\ Finished(r, "OPERATION_FAILED")
             \/ /\ r.frame_count > 0 \/ active_capture_status # "OK"
                /\ UNCHANGED capturing
                /\ active_result' = NULL /\ active_capture_status' = "OK" /\ stage' = "idle"
                /\ result' = [r EXCEPT !.status = IF active_capture_status = "OK" THEN "OK"
                                                  ELSE "CAPTURE_FAILED"]
  BY ReturnShape
<1>3. CASE Finished(r, "OPERATION_FAILED")
  BY <1>3, FinishedCurrent DEF Events
<1>4. CASE /\ r.frame_count > 0 \/ active_capture_status # "OK"
           /\ UNCHANGED capturing /\ stage' = "idle"
           /\ result' = [r EXCEPT !.status = IF active_capture_status = "OK" THEN "OK"
                                             ELSE "CAPTURE_FAILED"]
  <2>1. CASE active_capture_status = "OK"
    <3>1. Current
      BY <1>1, <1>2, <1>4, <2>1 DEF CInv, SameFrames
    <3>2. Current'
      BY <1>1, <1>4, <3>1, StaysCurrent
    <3> QED
      BY <1>4, <3>2 DEF CInv
  <2>2. CASE active_capture_status # "OK"
    <3>1. result'.status = "CAPTURE_FAILED"
      BY <1>4, <2>2, StatusFacts DEF Statuses
    <3> QED
      BY <1>4, <3>1 DEF CInv
  <2> QED
    BY <2>1, <2>2
<1> QED
  BY <1>2, <1>3, <1>4

LEMMA RejectsCurrent ==
    ASSUME CInv, SessionRejects \/ UNCHANGED allvars PROVE CInv'
<1>1. CASE SessionRejects
  <2>1. ASSUME NEW op, NEW status, NEW table_status, Rejects(op, status, table_status)
        PROVE  stage' = "idle" /\ result'.status = status
    BY <2>1 DEF Rejects, NoResult
  <2>2. stage' = "idle" /\ result'.status \in {"QUARANTINED", "NOT_CORRUPTED", "OVERFLOW"}
    BY <1>1, <2>1 DEF SessionRejects
  <2> QED
    BY <2>2 DEF CInv
<1>2. CASE UNCHANGED allvars
  <2>1. /\ UNCHANGED capturing /\ stage' = stage /\ result' = result /\ pc' = pc
        /\ active_result' = active_result /\ active_capture_status' = active_capture_status
        /\ UNCHANGED state
    BY <1>2 DEF allvars, session, vars, state
  <2>2. Current => Current'
    BY <2>1, StaysCurrent
  <2> QED
    BY <2>1, <2>2 DEF CInv
<1> QED
  BY <1>1, <1>2

LEMMA CurrentStep ==
    ASSUME TInv, TInv', RInv, LInv, CInv, [SessionNext]_allvars PROVE CInv'
<1>1. \/ SessionEnds \/ SessionBegins \/ SessionMakesTable \/ SessionCreated
      \/ SessionStarts \/ SessionContinues
      \/ SessionWhole \/ SessionReturns \/ SessionRejects \/ UNCHANGED allvars
  BY SessionSteps DEF SessionReads, SessionWhole
<1>2. CASE SessionEnds \/ SessionBegins \/ SessionMakesTable
  <2>1. stage' \in {"none", "creating"}
    BY <1>2 DEF SessionEnds, SessionRefused, SessionHasNoTable, SessionNotCaptured,
                SessionDestroy, Gone, SessionBegins, SessionMakesTable, session
  <2> QED
    BY <2>1 DEF CInv
<1>3. CASE SessionCreated
  <2>1. Appends(0, "SESSION_CREATED") /\ stage' = "idle" /\ "SESSION_CREATED" \in Events
    BY <1>3 DEF SessionCreated, Events
  <2>2. Current'
    BY <2>1, AppendsCurrent
  <2> QED
    BY <2>1, <2>2 DEF CInv
<1>4. CASE SessionWhole
  <2>1. PICK r \in Results, event \in Events : Finished(r, event)
    BY <1>4, WholeShape
  <2> QED
    BY <2>1, FinishedCurrent
<1> QED
  BY <1>1, <1>2, <1>3, <1>4, StartsCurrent, ContinuesCurrent, ReturnsCurrent, RejectsCurrent

LEMMA CurrentKept == SessionSpec => [](TInv /\ RInv /\ LInv /\ NInv /\ CInv)
<1>1. SessionInit => CInv
  BY DEF SessionInit, CInv
<1>2. TInv /\ TInv' /\ RInv /\ LInv /\ CInv /\ [SessionNext]_allvars => CInv'
  BY CurrentStep
<1> QED
  BY <1>1, <1>2, NumbersKept, PTL DEF SessionSpec

\* hash_inspector.c, hti_session_put, hti_session_lookup, hti_session_delete and the rest: after a
\* call that reports HTI_OK the newest frame shows the active table as it is.
THEOREM NewestIsCurrent == SessionSpec => []NewestFrameIsCurrent
<1>1. CInv => NewestFrameIsCurrent
  BY DEF CInv, Current, NewestFrameIsCurrent
<1> QED
  BY <1>1, CurrentKept, PTL

-----------------------------------------------------------------------------
(* A growth is seen from its start. *)

Pairs(C) == {<<e.key, e.value>> : e \in C}

\* What a frame may follow.
Follows(before, after) ==
    /\ after.event = "REHASH_END" =>
          /\ before.event = "REHASH_BEGIN"
          /\ after.operation_id = before.operation_id
          /\ after.shows.held = before.shows.held
          /\ after.shows.capacity = 2 * before.shows.capacity
    /\ before.event = "REHASH_BEGIN" /\ after.operation_id = before.operation_id
          => after.event = "REHASH_END"
    /\ before.event = "REHASH_END" /\ after.operation_id = before.operation_id
          => after.event = "PUT_INSERTED"

\* In the middle of a growth the last frame shows its beginning, and the table still has the
\* contents and the capacity of then; between the growth and the insertion it shows the end.
GrowthShown ==
    /\ pc = "relink" =>
          /\ active_result.frame_count > 0 /\ active_result.event = "REHASH_BEGIN"
          /\ FrameAt(Len(timeline)).shows.held = Pairs(Contents)
          /\ FrameAt(Len(timeline)).shows.capacity = capacity
          /\ new_capacity = 2 * capacity
    /\ pc = "link" => active_result.frame_count = 0 \/ active_result.event = "REHASH_END"

WInv ==
    /\ \A i \in 2..Len(timeline) : Follows(FrameAt(i - 1), FrameAt(i))
    /\ stage = "call" /\ active_capture_status = "OK" => GrowthShown

LEMMA FollowsOther ==
    ASSUME NEW before, NEW after, before.operation_id # after.operation_id,
           after.event # "REHASH_END"
    PROVE  Follows(before, after)
BY DEF Follows

LEMMA FollowsGrow ==
    ASSUME IsLog(timeline), IsLog(timeline'), NEW d \in {0, 1}, NEW id, NEW event,
           GrowsBy(d, id, event),
           \A i \in 2..Len(timeline) : Follows(FrameAt(i - 1), FrameAt(i)),
           timeline # <<>> => Follows(FrameAt(Len(timeline)), FrameAt(Len(timeline))')
    PROVE  \A i \in 2..Len(timeline') : Follows(FrameAt(i - 1)', FrameAt(i)')
<1> SUFFICES ASSUME NEW i \in 2..Len(timeline') PROVE Follows(FrameAt(i - 1)', FrameAt(i)')
  OBVIOUS
<1>1. i \in DOMAIN timeline' /\ i - 1 \in DOMAIN timeline' /\ Len(timeline') \in Nat /\ i \in Nat
  BY DEF IsLog
<1>2. /\ Len(timeline) \in Nat /\ Len(timeline') = Len(timeline) + 1 - d
      /\ i < Len(timeline') => i + d \in DOMAIN timeline /\ timeline'[i] = timeline[i + d]
      /\ i - 1 < Len(timeline') =>
            (i - 1) + d \in DOMAIN timeline /\ timeline'[i - 1] = timeline[(i - 1) + d]
  BY <1>1, GrownIndex
<1>3. FrameAt(i - 1)' = FrameAt((i - 1) + d) /\ (i - 1) + d \in DOMAIN timeline
  BY <1>1, <1>2 DEF FrameAt
<1>4. CASE i < Len(timeline')
  <2>0. DOMAIN timeline = 1..Len(timeline) /\ i > 1 /\ d \in Nat
    BY DEF IsLog
  <2>1. FrameAt(i)' = FrameAt(i + d)
    BY <1>2, <1>4 DEF FrameAt
  <2>2. i + d \in 2..Len(timeline) /\ (i - 1) + d = (i + d) - 1
    BY <1>1, <1>2, <1>4, <2>0
  <2>3. Follows(FrameAt((i + d) - 1), FrameAt(i + d))
    BY <2>2
  <2> QED
    BY <1>3, <2>1, <2>2, <2>3
<1>5. CASE i = Len(timeline')
  <2>1. (i - 1) + d = Len(timeline)
    BY <1>1, <1>2, <1>5
  <2>2. timeline # <<>>
    BY <1>3
  <2>3. FrameAt(i - 1)' = FrameAt(Len(timeline)) /\ FrameAt(i)' = FrameAt(Len(timeline))'
    BY <1>3, <1>5, <2>1 DEF FrameAt
  <2>4. Follows(FrameAt(Len(timeline)), FrameAt(Len(timeline))')
    BY <2>2
  <2> QED
    BY <2>3, <2>4
<1> QED
  BY <1>1, <1>4, <1>5

\* A frame of an operation that has none follows one of another operation.
LEMMA FirstFollows ==
    ASSUME TInv', RInv, LInv, NInv, NEW id \in Nat, NEW event \in Events, Appends(id, event),
           event # "REHASH_END",
           \A i \in DOMAIN timeline : FrameAt(i).operation_id # id,
           \A i \in 2..Len(timeline) : Follows(FrameAt(i - 1), FrameAt(i))
    PROVE  \A i \in 2..Len(timeline') : Follows(FrameAt(i - 1)', FrameAt(i)')
<1>1. IsLog(timeline) /\ next_frame_id \in Nat
  BY DEF RInv, LInv
<1>2. IsLog(timeline') /\ \E d \in {0, 1} : GrowsBy(d, id, event)
  BY <1>1, AppendsFrame
<1>3. PICK d \in {0, 1} : GrowsBy(d, id, event)
  BY <1>2
<1>4. FrameAt(Len(timeline))'.operation_id = id /\ FrameAt(Len(timeline))'.event = event
  BY <1>3 DEF GrowsBy
<1>5. timeline # <<>> => Len(timeline) \in DOMAIN timeline
  BY <1>1 DEF IsLog
<1>6. timeline # <<>> => Follows(FrameAt(Len(timeline)), FrameAt(Len(timeline))')
  BY <1>4, <1>5, FollowsOther
<1> QED
  BY <1>1, <1>2, <1>3, <1>6, FollowsGrow

\* The operations before the next one and before one that has no frame yet.
LEMMA OthersBefore ==
    ASSUME RInv, LInv, NInv
    PROVE  /\ \A i \in DOMAIN timeline : FrameAt(i).operation_id # next_operation_id
           /\ Cur.operation_id > 0 /\ Cur.frame_count = 0 =>
                 \A i \in DOMAIN timeline : FrameAt(i).operation_id # Cur.operation_id
<1>1. \A i \in DOMAIN timeline :
         /\ FrameAt(i).operation_id # next_operation_id
         /\ ~ (next_frame_id <= timeline[i].frame_id)
  BY OlderFrames DEF LInv, NInv
<1>2. Cur.frame_count = 0 => First = next_frame_id
  BY DEF First
<1> QED
  BY <1>1, <1>2 DEF NInv, Named

\* A step that leaves the frames alone.
LEMMA FollowsKept ==
    ASSUME WInv, timeline' = timeline
    PROVE  \A i \in 2..Len(timeline') : Follows(FrameAt(i - 1)', FrameAt(i)')
BY DEF WInv, FrameAt

LEMMA StartsFollow ==
    ASSUME TInv, TInv', RInv, LInv, NInv, WInv, SessionStarts PROVE WInv'
<1>1. /\ ~ quarantined /\ stage' = IF pc' = "ready" THEN "return" ELSE "call"
      /\ trace' # NoTrace => trace'.kind \in TableEvents
  BY StartShape
<1>2. PICK r \in Results : /\ r.operation_id = next_operation_id /\ r.frame_count = 0
                           /\ Sunk(r, "OK")
  BY StartShape
<1>3. IInv /\ CallBegins
  BY <1>1 DEF TInv, SessionStarts
<1>4. pc' # "relink" /\ (trace' # NoTrace => pc' = "ready" /\ trace'.kind # "REHASH_END")
  BY <1>3, StartsPlace, StartCases
<1>5. CASE UNCHANGED capturing /\ active_result' = r
  <2>1. \A i \in 2..Len(timeline') : Follows(FrameAt(i - 1)', FrameAt(i)')
    BY <1>5, FollowsKept DEF capturing
  <2> QED
    BY <1>2, <1>4, <1>5, <2>1 DEF WInv, GrowthShown
<1>6. CASE Appends(r.operation_id, trace'.kind) /\ trace' # NoTrace
  <2>1. trace'.kind \in Events /\ trace'.kind # "REHASH_END" /\ stage' = "return"
    BY <1>1, <1>4, <1>6, TableEventsTold
  <2>2. next_operation_id \in Nat /\ Appends(next_operation_id, trace'.kind)
    BY <1>2, <1>6, CurTypes
  <2>3. \A i \in 2..Len(timeline') : Follows(FrameAt(i - 1)', FrameAt(i)')
    BY <2>1, <2>2, OthersBefore, FirstFollows DEF WInv
  <2> QED
    BY <2>1, <2>3 DEF WInv
<1> QED
  BY <1>2, <1>5, <1>6 DEF Sunk

\* What a growth shows at its two ends.
LEMMA ShowsContents ==
    ASSUME Contents' = Linked(buckets')
    PROVE  Shows'.held = Pairs(Contents') /\ Shows'.capacity = capacity'
BY DEF Shows, Held, Pairs

LEMMA ContinuesFollow ==
    ASSUME TInv, TInv', RInv, LInv, NInv, CInv, WInv, SessionContinues PROVE WInv'
<1> DEFINE id == active_result.operation_id
           event == trace'.kind
           last == FrameAt(Len(timeline))
<1>1. /\ stage' = IF pc' = "ready" THEN "return" ELSE "call"
      /\ trace' # NoTrace => trace'.kind \in TableEvents
      /\ active_result \in Results /\ Sunk(active_result, active_capture_status)
  BY ContinueShape
<1>2. GoesOn /\ stage = "call"
  BY SessionGoesOn
<1>3. active_result # NULL /\ Cur = active_result /\ id \in Nat /\ next_frame_id \in Nat
  BY <1>2, ActiveFacts, ResultTypes DEF RInv
<1>4. /\ id > 0
      /\ active_result.frame_count = 0 => \A i \in DOMAIN timeline : FrameAt(i).operation_id # id
      /\ active_result.frame_count > 0 =>
            timeline # <<>> /\ last.operation_id = id /\ last.event = active_result.event
  BY <1>3, OthersBefore DEF NInv, Named
<1>5. CASE /\ UNCHANGED capturing /\ active_result' = active_result
           /\ active_capture_status # "OK" => active_capture_status' = active_capture_status
           /\ trace' # NoTrace => active_capture_status' # "OK"
  <2>1. \A i \in 2..Len(timeline') : Follows(FrameAt(i - 1)', FrameAt(i)')
    BY <1>5, FollowsKept DEF capturing
  <2>2. ASSUME stage' = "call", active_capture_status' = "OK" PROVE GrowthShown'
    <3>1. trace' = NoTrace /\ active_capture_status = "OK"
      BY <1>5, <2>2
    <3>2. /\ pc = "relink" /\ pc' = "relink"
          /\ capacity' = capacity /\ new_capacity' = new_capacity /\ Contents' = Contents
      BY <1>1, <1>2, <2>2, <3>1 DEF GoesOn
    <3>3. GrowthShown
      BY <1>2, <3>1 DEF WInv
    <3> QED
      BY <1>5, <3>2, <3>3 DEF GrowthShown, capturing, FrameAt
  <2> QED
    BY <2>1, <2>2 DEF WInv
<1>6. CASE /\ active_capture_status = "OK" /\ trace' # NoTrace
           /\ Appends(id, event) /\ active_result' = WithFrame(active_result, event)
  <2>1. event \in Events
    BY <1>1, <1>6, TableEventsTold
  <2>2. GrowthShown /\ (pc = "grow" => active_result.frame_count = 0)
    BY <1>2, <1>6 DEF WInv, CInv
  <2>3. IsLog(timeline) /\ IsLog(timeline') /\ \E d \in {0, 1} : GrowsBy(d, id, event)
    BY <1>3, <1>6, <2>1, AppendsFrame DEF LInv
  <2>4. PICK d \in {0, 1} : GrowsBy(d, id, event)
    BY <2>3
  <2>5. /\ FrameAt(Len(timeline))'.operation_id = id /\ FrameAt(Len(timeline))'.event = event
        /\ FrameAt(Len(timeline))'.shows = Shows'
    BY <2>4 DEF GrowsBy
  <2>6. /\ active_result'.event = event /\ active_result'.frame_count > 0
    <3>1. FrameMore(active_result', active_result, event) /\ active_result.frame_count \in Nat
      BY <1>1, <1>3, <1>6, <2>1, WithFrameFacts, ResultTypes
    <3> QED
      BY <3>1 DEF FrameMore
  <2>7. ASSUME active_result.frame_count = 0, event # "REHASH_END"
        PROVE  \A i \in 2..Len(timeline') : Follows(FrameAt(i - 1)', FrameAt(i)')
    BY <1>3, <1>4, <1>6, <2>1, <2>7, FirstFollows DEF WInv
  <2>8. ASSUME timeline # <<>>, Follows(last, FrameAt(Len(timeline))')
        PROVE  \A i \in 2..Len(timeline') : Follows(FrameAt(i - 1)', FrameAt(i)')
    BY <2>3, <2>4, <2>8, FollowsGrow DEF WInv
  <2> HIDE DEF id, event, last
  <2>9. CASE pc = "grow" /\ pc' = "ready" /\ event = "REHASH_FAILED"
    BY <1>1, <2>2, <2>7, <2>9 DEF WInv
  <2>10. CASE /\ pc = "grow" /\ pc' = "relink" /\ event = "REHASH_BEGIN"
              /\ capacity' = capacity /\ new_capacity' = 2 * capacity
              /\ Contents' = Linked(buckets')
    <3>1. Shows'.held = Pairs(Contents') /\ Shows'.capacity = capacity'
      BY <2>10, ShowsContents
    <3>2. GrowthShown'
      BY <2>5, <2>6, <2>10, <3>1 DEF GrowthShown
    <3> QED
      BY <2>2, <2>7, <2>10, <3>2 DEF WInv
  <2>11. CASE /\ pc = "relink" /\ pc' = "link" /\ event = "REHASH_END"
              /\ capacity' = new_capacity /\ Contents' = Contents /\ Contents' = Linked(buckets')
    <3>1. Shows'.held = Pairs(Contents') /\ Shows'.capacity = capacity'
      BY <2>11, ShowsContents
    <3>2. /\ active_result.frame_count > 0 /\ active_result.event = "REHASH_BEGIN"
          /\ last.shows.held = Pairs(Contents) /\ last.shows.capacity = capacity
          /\ new_capacity = 2 * capacity
      BY <2>2, <2>11 DEF GrowthShown, last
    <3>3. timeline # <<>> /\ last.operation_id = id /\ last.event = "REHASH_BEGIN"
      BY <1>4, <3>2
    <3>4. Pairs(Contents') = Pairs(Contents)
      BY <2>11
    <3>5. Follows(last, FrameAt(Len(timeline))')
      BY <2>5, <2>11, <3>1, <3>2, <3>3, <3>4 DEF Follows
    <3>6. GrowthShown'
      BY <2>6, <2>11 DEF GrowthShown
    <3> QED
      BY <2>8, <3>3, <3>5, <3>6 DEF WInv
  <2>12. CASE pc = "link" /\ pc' = "ready" /\ event = "PUT_INSERTED"
    <3>1. CASE active_result.frame_count = 0
      BY <1>1, <2>7, <2>12, <3>1 DEF WInv
    <3>2. CASE active_result.frame_count # 0
      <4>1. active_result.frame_count > 0 /\ active_result.event = "REHASH_END"
        BY <1>1, <2>2, <2>12, <3>2, ResultTypes DEF GrowthShown
      <4>2. timeline # <<>> /\ last.operation_id = id /\ last.event = "REHASH_END"
        BY <1>4, <4>1
      <4>3. Follows(last, FrameAt(Len(timeline))')
        BY <2>5, <2>12, <4>2 DEF Follows
      <4> QED
        BY <1>1, <2>8, <2>12, <4>2, <4>3 DEF WInv
    <3> QED
      BY <3>1, <3>2
  <2> QED
    BY <1>2, <1>6, <2>9, <2>10, <2>11, <2>12 DEF GoesOn, event
<1> QED
  BY <1>1, <1>5, <1>6 DEF Sunk

LEMMA OthersFollow ==
    ASSUME TInv, TInv', RInv, LInv, NInv, WInv, SessionWhole \/ SessionReturns
    PROVE  WInv'
<1>1. /\ stage' = "idle"
      /\ \/ UNCHANGED capturing
         \/ \E id \in Nat, event \in Events :
               /\ Appends(id, event) /\ event # "REHASH_END"
               /\ \A i \in DOMAIN timeline : FrameAt(i).operation_id # id
  <2>1. CASE SessionWhole
    <3>1. PICK r \in Results, event \in Events :
              /\ r.operation_id = next_operation_id /\ Finished(r, event) /\ event \notin TableEvents
      BY <2>1, WholeShape
    <3>2. event # "REHASH_END" /\ next_operation_id \in Nat
      BY <3>1, CurTypes DEF TableEvents
    <3> QED
      BY <3>1, <3>2, OthersBefore DEF Finished
  <2>2. CASE SessionReturns
    <3>1. stage = "return"
      BY <2>2, ReturnShape
    <3>2. PICK r \in Results :
              /\ SameFrames(r, active_result)
              /\ \/ /\ r.frame_count = 0 /\ active_capture_status = "OK"
                    /\ Finished(r, "OPERATION_FAILED")
                 \/ UNCHANGED capturing /\ stage' = "idle"
      BY <2>2, ReturnShape
    <3>3. Cur = active_result /\ Cur.operation_id > 0 /\ Cur.operation_id \in Nat
      BY <3>1, ActiveFacts, CurTypes DEF RInv, NInv, Named
    <3>4. CASE r.frame_count = 0 /\ Finished(r, "OPERATION_FAILED")
      <4>1. r.operation_id = Cur.operation_id /\ Cur.frame_count = 0
        BY <3>2, <3>3, <3>4 DEF SameFrames
      <4>2. \A i \in DOMAIN timeline : FrameAt(i).operation_id # r.operation_id
        BY <3>3, <4>1, OthersBefore
      <4>3. "OPERATION_FAILED" \in Events /\ "OPERATION_FAILED" # "REHASH_END"
        BY DEF Events
      <4>4. r.operation_id \in Nat
        BY <3>3, <4>1
      <4> QED
        BY <3>4, <4>2, <4>3, <4>4 DEF Finished
    <3> QED
      BY <3>2, <3>4
  <2> QED
    BY <2>1, <2>2
<1>2. \A i \in 2..Len(timeline') : Follows(FrameAt(i - 1)', FrameAt(i)')
  <2>1. CASE UNCHANGED capturing
    BY <2>1, FollowsKept DEF capturing
  <2>2. ASSUME NEW id \in Nat, NEW event \in Events,
               Appends(id, event), event # "REHASH_END",
               \A i \in DOMAIN timeline : FrameAt(i).operation_id # id
        PROVE  \A i \in 2..Len(timeline') : Follows(FrameAt(i - 1)', FrameAt(i)')
    BY <2>2, FirstFollows DEF WInv
  <2> QED
    BY <1>1, <2>1, <2>2
<1> QED
  BY <1>1, <1>2 DEF WInv

LEMMA FollowsStep ==
    ASSUME TInv, TInv', RInv, LInv, NInv, CInv, WInv, [SessionNext]_allvars PROVE WInv'
<1>1. \/ SessionEnds \/ SessionBegins \/ SessionMakesTable \/ SessionCreated
      \/ SessionStarts \/ SessionContinues
      \/ SessionWhole \/ SessionReturns \/ SessionRejects \/ UNCHANGED allvars
  BY SessionSteps DEF SessionReads, SessionWhole
<1>2. CASE SessionEnds
  <2>1. stage' = "none" /\ timeline' = <<>>
    BY <1>2 DEF SessionEnds, SessionRefused, SessionHasNoTable, SessionNotCaptured,
                SessionDestroy, Gone
  <2>2. ~ \E i \in 2..Len(<<>>) : TRUE
    OBVIOUS
  <2> QED
    BY <2>1, <2>2 DEF WInv
<1>3. CASE SessionBegins \/ SessionMakesTable
  <2>1. stage' = "creating" /\ timeline' = timeline
    BY <1>3 DEF SessionBegins, SessionMakesTable, session, capturing
  <2>2. \A i \in 2..Len(timeline') : Follows(FrameAt(i - 1)', FrameAt(i)')
    BY <2>1, FollowsKept
  <2> QED
    BY <2>1, <2>2 DEF WInv
<1>4. CASE SessionCreated
  <2>1. stage' = "idle" /\ Appends(0, "SESSION_CREATED") /\ timeline = <<>>
    BY <1>4 DEF SessionCreated, LInv, HasTimeline
  <2>2. "SESSION_CREATED" \in Events /\ "SESSION_CREATED" # "REHASH_END" /\ 0 \in Nat
    BY DEF Events
  <2>3. \A i \in DOMAIN timeline : FrameAt(i).operation_id # 0
    BY <2>1
  <2>4. \A i \in 2..Len(timeline') : Follows(FrameAt(i - 1)', FrameAt(i)')
    BY <2>1, <2>2, <2>3, FirstFollows DEF WInv
  <2> QED
    BY <2>1, <2>4 DEF WInv
<1>5. CASE SessionRejects
  <2>1. stage' = "idle" /\ timeline' = timeline
    BY <1>5 DEF SessionRejects, Rejects, capturing
  <2>2. \A i \in 2..Len(timeline') : Follows(FrameAt(i - 1)', FrameAt(i)')
    BY <2>1, FollowsKept
  <2> QED
    BY <2>1, <2>2 DEF WInv
<1>6. CASE UNCHANGED allvars
  <2>1. /\ timeline' = timeline /\ stage' = stage /\ pc' = pc
        /\ active_result' = active_result /\ active_capture_status' = active_capture_status
        /\ buckets' = buckets /\ new_buckets' = new_buckets /\ capacity' = capacity
        /\ new_capacity' = new_capacity
    BY <1>6 DEF allvars, session, capturing, vars, table, rehash
  <2>2. \A i \in 2..Len(timeline') : Follows(FrameAt(i - 1)', FrameAt(i)')
    BY <2>1, FollowsKept
  <2>3. GrowthShown => GrowthShown'
    BY <2>1 DEF GrowthShown, FrameAt, Contents
  <2> QED
    BY <2>1, <2>2, <2>3 DEF WInv
<1> QED
  BY <1>1, <1>2, <1>3, <1>4, <1>5, <1>6, StartsFollow, ContinuesFollow, OthersFollow

\* hash_inspector.c, hti_trace_sink: a growth of which frames are seen is seen from its start, in
\* frames of one operation that show the same contents in half and in all of the buckets.
THEOREM RehashSeenWhole == SessionSpec => []RehashIsSeenWhole
<1>1. SessionInit => WInv
  <2> SUFFICES ASSUME SessionInit PROVE WInv
    OBVIOUS
  <2>1. timeline = <<>> /\ stage = "none"
    BY DEF SessionInit
  <2>2. ~ \E i \in 2..Len(<<>>) : TRUE
    OBVIOUS
  <2> QED
    BY <2>1, <2>2 DEF WInv
<1>2. /\ TInv /\ TInv' /\ RInv /\ LInv /\ NInv /\ CInv /\ WInv
      /\ [SessionNext]_allvars
      => WInv'
  BY FollowsStep
<1>3. WInv => RehashIsSeenWhole
  BY DEF WInv, Follows, RehashIsSeenWhole
<1> QED
  BY <1>1, <1>2, <1>3, CurrentKept, PTL DEF SessionSpec

-----------------------------------------------------------------------------
(* A session is one map. *)

\* What a caller would get back is what the active table holds, in quarantine too.
Recovered == Recoverable = Visible

LEMMA RecoveredNow == TInv => Recovered
<1> SUFFICES ASSUME TInv PROVE Recovered
  OBVIOUS
<1>1. CASE ~ quarantined
  <2>1. backup = NULL
    BY <1>1 DEF TInv
  <2>2. Visible = [k \in Keys |-> Visible[k]]
    BY DEF Visible
  <2> QED
    BY <2>1, <2>2 DEF Recovered, Recoverable
<1>2. CASE quarantined
  <2>1. CloneStands /\ StageTellsPlace
    BY <1>2 DEF TInv
  <2>2. Contents = Linked(buckets) /\ backup.buckets = buckets /\ backup # NULL
    BY <2>1, CloneFacts, NoNullAssumption DEF CloneStands
  <2>3. Contents \subseteq Entry /\ OneEach(Contents)
    BY <2>1, WellFormedContents DEF CloneStands
  <2>4. ASSUME NEW k \in Keys
        PROVE  (IF \E v \in Values : <<k, v>> \in Held(buckets)
                THEN CHOOSE v \in Values : <<k, v>> \in Held(buckets)
                ELSE NULL) = Visible[k]
    <3>1. Held(buckets) = {<<e.key, e.value>> : e \in Contents}
      BY <2>2 DEF Held
    <3>2. /\ \A e \in Contents : e.key = k => Visible[k] = e.value
          /\ (\A e \in Contents : e.key # k) => Visible[k] = NULL
      BY <2>3, <2>4, MapAt, VisibleIsMapOf
    <3>3. ASSUME NEW v, <<k, v>> \in Held(buckets) PROVE v = Visible[k]
      BY <3>1, <3>2, <3>3
    <3>4. CASE \E v \in Values : <<k, v>> \in Held(buckets)
      BY <3>3, <3>4
    <3>5. CASE ~ \E v \in Values : <<k, v>> \in Held(buckets)
      <4>1. \A e \in Contents : e.value \in Values /\ <<e.key, e.value>> \in Held(buckets)
        BY <2>3, <3>1 DEF Entry
      <4>2. \A e \in Contents : e.key # k
        BY <3>5, <4>1
      <4> QED
        BY <3>2, <3>5, <4>2
    <3> QED
      BY <3>4, <3>5
  <2>5. Visible = [k \in Keys |-> Visible[k]]
    BY DEF Visible
  <2>6. Recoverable = [k \in Keys |-> Visible[k]]
    BY <2>2, <2>4 DEF Recoverable
  <2> QED
    BY <2>5, <2>6 DEF Recovered
<1> QED
  BY <1>1, <1>2

LEMMA RecoveredThen == (TInv => Recovered)'
BY RecoveredNow, PTL

LEMMA MapOfSession ==
    ASSUME Recovered, Recovered'
    PROVE  /\ UNCHANGED Map!vars => UNCHANGED RecoverableMap!vars
           /\ Map!Next => RecoverableMap!Next
<1>1. Recoverable = Visible /\ Recoverable' = Visible'
  BY DEF Recovered
<1>2. RecoverableMap!EmptyMap = Map!EmptyMap
  BY DEF RecoverableMap!EmptyMap, Map!EmptyMap
<1>3. UNCHANGED Map!vars => UNCHANGED RecoverableMap!vars
  BY <1>1 DEF Map!vars, RecoverableMap!vars
<1>4. Map!Create => RecoverableMap!Create
  BY <1>1, <1>2 DEF Map!Create, RecoverableMap!Create, Map!Return, RecoverableMap!Return,
                    Map!Refused, RecoverableMap!Refused
<1>5. Map!Destroy => RecoverableMap!Destroy
  BY <1>1, <1>2 DEF Map!Destroy, RecoverableMap!Destroy, Map!Return, RecoverableMap!Return
<1>6. Map!Reserve => RecoverableMap!Reserve
  BY <1>1 DEF Map!Reserve, RecoverableMap!Reserve, Map!Return, RecoverableMap!Return,
              Map!Refused, RecoverableMap!Refused
<1>7. ASSUME NEW k \in Keys
      PROVE  /\ Map!PutRefused(k) => RecoverableMap!PutRefused(k)
             /\ Map!Get(k) => RecoverableMap!Get(k)
             /\ Map!Remove(k) => RecoverableMap!Remove(k)
             /\ \A v \in Values : Map!Put(k, v) => RecoverableMap!Put(k, v)
  BY <1>1 DEF Map!PutRefused, RecoverableMap!PutRefused, Map!Get, RecoverableMap!Get,
              Map!Remove, RecoverableMap!Remove, Map!Put, RecoverableMap!Put,
              Map!Return, RecoverableMap!Return, Map!Refused, RecoverableMap!Refused
<1> QED
  BY <1>3, <1>4, <1>5, <1>6, <1>7 DEF Map!Next, RecoverableMap!Next

\* The steps of a session that are not the table's own leave its contents alone, but for the end
\* of a session in quarantine.
LEMMA OwnStepsUnseen ==
    ASSUME TInv,
           \/ SessionRefused \/ SessionBegins \/ SessionCreated \/ SessionReads
           \/ CorruptSize \/ Restore
    PROVE  UNCHANGED Map!vars
<1>1. CASE SessionRefused \/ SessionBegins \/ SessionCreated
  <2>1. TableStays
    BY <1>1 DEF SessionRefused, SessionBegins, SessionCreated
  <2> QED
    BY <2>1, Unseen DEF TableStays, table, rehash, Contents, Alive
<1>2. CASE SessionReads
  <2>1. ret' = ret
    BY <1>2 DEF SessionReads, SessionReturns, SessionValidate, CorruptFails, SessionRejects, Rejects,
                TableStays, allvars, vars
  <2>2. UNCHANGED state
    BY <1>2, ReadsStay
  <2> QED
    BY <2>1, <2>2, Unseen DEF state, table, rehash, Contents, Alive
<1>3. CASE CorruptSize
  BY <1>3, Unseen DEF CorruptSize, rehash, Contents, Alive
<1>4. CASE Restore
  <2>1. CloneStands
    BY <1>4 DEF Restore, TInv
  <2>2. buckets' = buckets
    BY <1>4, <2>1 DEF Restore, Restored, CloneStands
  <2> QED
    BY <1>4, <2>2, Unseen DEF Restore, rehash, Contents, Alive
<1> QED
  BY <1>1, <1>2, <1>3, <1>4

LEMMA SessionMapStep ==
    ASSUME TInv, TInv', [SessionNext]_allvars PROVE [RecoverableMap!Next]_(RecoverableMap!vars)
<1>1. Recovered /\ Recovered'
  BY RecoveredNow, RecoveredThen
<1>2. [Map!Next]_(Map!vars)
  <2>1. CASE \/ SessionRefused \/ SessionBegins \/ SessionCreated \/ SessionReads
             \/ CorruptSize \/ Restore
    BY <2>1, OwnStepsUnseen
  <2>2. CASE SessionDestroy /\ quarantined
    <3>1. Destroy /\ StageTellsPlace /\ CloneStands
      BY <2>2 DEF SessionDestroy, TInv
    <3>2. IInv'
      BY <3>1, CloneDestroyed
    <3>3. Alive /\ ~ Alive' /\ ret' = [op |-> "destroy", key |-> NULL, status |-> "OK", out |-> NULL]
      BY <3>1 DEF Destroy, Alive, Return
    <3>4. Visible' = Map!EmptyMap
      BY <3>2, <3>3, NothingAfter, NoEntriesNoMap, VisibleIsMapOf
    <3>5. Alive' = FALSE
      BY <3>3 DEF Alive
    <3>6. Map!Destroy
      BY <3>3, <3>4, <3>5 DEF Map!Destroy, Map!Return
    <3> QED
      BY <3>6 DEF Map!Next
  <2>3. CASE /\ ~ quarantined
             /\ \/ SessionHasNoTable \/ SessionNotCaptured \/ SessionDestroy \/ SessionMakesTable
                \/ SessionStarts \/ SessionContinues
    <3>1. IInv
      BY <2>3 DEF TInv
    <3>2. Next
      BY <2>3, <3>1, StartsPlace DEF SessionHasNoTable, SessionNotCaptured, SessionDestroy, SessionMakesTable,
                  SessionStarts, SessionContinues, Next, Lifecycle
    <3>3. IInv'
      BY <3>1, <3>2, NextStep
    <3> QED
      BY <3>1, <3>2, <3>3, MapStep
  <2>4. quarantined =>
           ~ (SessionHasNoTable \/ SessionNotCaptured \/ SessionMakesTable \/ SessionStarts
              \/ SessionContinues)
    BY DEF TInv, CloneStands, SessionHasNoTable, SessionNotCaptured, SessionMakesTable,
           SessionStarts, SessionContinues, Accepts
  <2> QED
    BY <2>1, <2>2, <2>3, <2>4, SessionSteps DEF SessionEnds
<1> QED
  BY <1>1, <1>2, MapOfSession

\* hash_inspector.c as its callers see it: a session is one map.  A failed capture, a corruption, a
\* restoration and every rejected call leave its contents alone, and no result of the table
\* is given for a change that a restoration would take back.
THEOREM SessionImplementsMap == SessionSpec => SessionIsOneMap
<1>1. SessionInit => RecoverableMap!Init
  <2> SUFFICES ASSUME SessionInit PROVE RecoverableMap!Init
    OBVIOUS
  <2>1. Init /\ backup = NULL
    BY DEF SessionInit
  <2>2. Map!Init
    BY <2>1, MapInit
  <2>3. Visible = [k \in Keys |-> Visible[k]]
    BY DEF Visible
  <2>4. Recoverable = Visible
    BY <2>1, <2>3 DEF Recoverable
  <2> QED
    BY <2>2, <2>4 DEF Map!Init, RecoverableMap!Init, Map!EmptyMap, RecoverableMap!EmptyMap
<1>2. TInv /\ TInv' /\ [SessionNext]_allvars => [RecoverableMap!Next]_(RecoverableMap!vars)
  BY SessionMapStep
<1> QED
  BY <1>1, <1>2, SessionHasItsTable, PTL DEF SessionSpec, SessionIsOneMap, RecoverableMap!Spec

-----------------------------------------------------------------------------
(* What the code above a session relies on. *)

\* A frame as it appears there.
Appearing(f) == [frame_id |-> f.frame_id, payload |-> KindOf(f)]

AppearingLog(f) == [i \in DOMAIN f |-> Appearing(f[i])]

LEMMA AppearingEmpty == AppearingLog(<<>>) = <<>>
BY DEF AppearingLog

LEMMA AppearingFacts ==
    ASSUME NEW f \in Seq(Frames)
    PROVE  /\ AppearingLog(f) \in Seq({Appearing(x) : x \in Frames}) /\ Len(AppearingLog(f)) = Len(f)
           /\ DOMAIN AppearingLog(f) = 1..Len(f)
           /\ \A i \in 1..Len(f) : AppearingLog(f)[i] = Appearing(f[i])
<1>1. DOMAIN f = 1..Len(f) /\ Len(f) \in Nat /\ \A i \in 1..Len(f) : f[i] \in Frames
  OBVIOUS
<1>2. AppearingLog(f) = [i \in 1..Len(f) |-> Appearing(f[i])]
  BY <1>1 DEF AppearingLog
<1> DEFINE S == {Appearing(x) : x \in Frames}
<1>3. \A i \in 1..Len(f) : Appearing(f[i]) \in S
  BY <1>1
<1> HIDE DEF S
<1>4. AppearingLog(f) \in Seq(S)
  BY <1>1, <1>2, <1>3
<1> QED
  BY <1>1, <1>2, <1>4 DEF S

\* Two logs that have the same frames are equal.
LEMMA SameLog ==
    ASSUME NEW S, NEW f \in Seq(S), NEW g \in Seq(S), Len(f) = Len(g),
           \A i \in 1..Len(f) : f[i] = g[i]
    PROVE  f = g
OBVIOUS

\* Dropping the oldest frame and hiding what frames carry do not mind each other.
LEMMA AppearingAppended ==
    ASSUME NEW f, IsLog(f), NEW id, NEW p, [frame_id |-> id, payload |-> p] \in Frames
    PROVE  AppearingLog(Log!Appended(f, id, p))
           = Contract!Log!Appended(AppearingLog(f), id, KindOf([frame_id |-> id, payload |-> p]))
<1> DEFINE x == [frame_id |-> id, payload |-> p]
           S == {Appearing(y) : y \in Frames}
           h == Append(f, x)
           k == Append(AppearingLog(f), Appearing(x))
<1>1. /\ f \in Seq(Frames) /\ Len(f) \in Nat /\ Len(f) <= MaxFrames /\ x \in Frames
      /\ MaxFrames \in Nat /\ MaxFrames > 0
  BY SessionAssumption DEF IsLog
<1>2. /\ AppearingLog(f) \in Seq(S) /\ Len(AppearingLog(f)) = Len(f)
      /\ \A i \in 1..Len(f) : AppearingLog(f)[i] = Appearing(f[i])
  BY <1>1, AppearingFacts
<1>3. Appearing(x) \in S /\ Appearing(x) = [frame_id |-> id, payload |-> KindOf(x)]
  BY <1>1 DEF Appearing
<1>4. Log!Appended(f, id, p)
      = IF Len(h) <= MaxFrames THEN h ELSE SubSeq(h, Len(h) - MaxFrames + 1, Len(h))
  BY DEF Log!Appended, Log!Newest
<1>5. Contract!Log!Appended(AppearingLog(f), id, KindOf(x))
      = IF Len(k) <= MaxFrames THEN k ELSE SubSeq(k, Len(k) - MaxFrames + 1, Len(k))
  BY <1>3 DEF Contract!Log!Appended, Contract!Log!Newest
<1> HIDE DEF x, S
<1>6. /\ h \in Seq(Frames) /\ Len(h) = Len(f) + 1 /\ h[Len(f) + 1] = x
      /\ \A i \in 1..Len(f) : h[i] = f[i]
  BY <1>1
<1>7. /\ k \in Seq(S) /\ Len(k) = Len(f) + 1 /\ k[Len(f) + 1] = Appearing(x)
      /\ \A i \in 1..Len(f) : k[i] = Appearing(f[i])
  BY <1>1, <1>2, <1>3
<1> HIDE DEF h, k
<1>8. /\ AppearingLog(h) \in Seq(S) /\ Len(AppearingLog(h)) = Len(f) + 1
      /\ \A i \in 1..(Len(f) + 1) : AppearingLog(h)[i] = Appearing(h[i])
  BY <1>6, AppearingFacts DEF S
<1>9. AppearingLog(h) = k
  <2>1. \A i \in 1..Len(AppearingLog(h)) : AppearingLog(h)[i] = k[i]
    BY SMTT(30), <1>1, <1>6, <1>7, <1>8
  <2> QED
    BY <1>7, <1>8, <2>1, SameLog
<1>10. CASE Len(f) < MaxFrames
  BY <1>1, <1>4, <1>5, <1>6, <1>7, <1>9, <1>10 DEF x
<1>11. CASE Len(f) = MaxFrames
  <2> DEFINE g == SubSeq(h, 2, Len(f) + 1)
             q == SubSeq(k, 2, Len(f) + 1)
  <2>1. Log!Appended(f, id, p) = g /\ Contract!Log!Appended(AppearingLog(f), id, KindOf(x)) = q
    BY <1>1, <1>4, <1>5, <1>6, <1>7, <1>11
  <2>2. /\ g \in Seq(Frames) /\ Len(g) = Len(f) /\ \A i \in 1..Len(f) : g[i] = h[i + 1]
    BY <1>1, <1>6
  <2>3. /\ q \in Seq(S) /\ Len(q) = Len(f) /\ \A i \in 1..Len(f) : q[i] = k[i + 1]
    BY <1>1, <1>7
  <2> HIDE DEF g, q
  <2>4. /\ AppearingLog(g) \in Seq(S) /\ Len(AppearingLog(g)) = Len(f)
        /\ \A i \in 1..Len(f) : AppearingLog(g)[i] = Appearing(g[i])
    BY <2>2, AppearingFacts DEF S
  <2>5. \A i \in 1..Len(f) : AppearingLog(g)[i] = q[i]
    BY <1>1, <1>8, <1>9, <2>2, <2>3, <2>4
  <2>6. AppearingLog(g) = q
    BY <2>3, <2>4, <2>5, SameLog
  <2> QED
    BY <2>1, <2>6 DEF x
<1> QED
  BY <1>1, <1>10, <1>11

\* Frame ids stay below the last one, a session begins with the first, and a call has as many
\* frames at most as its place in the growth of the table allows.
KInv ==
    /\ next_frame_id <= FrameIdMax
    /\ stage = "creating" => next_frame_id = 1
    /\ stage = "call" =>
          /\ pc = "grow" => active_result.frame_count = 0
          /\ pc = "relink" => active_result.frame_count <= 1
          /\ pc = "link" => active_result.frame_count <= 2

LEMMA IdsBounded == ASSUME RInv, KInv, Recorded PROVE next_frame_id' <= FrameIdMax
<1>1. /\ next_frame_id \in Nat /\ next_frame_id <= FrameIdMax
      /\ FrameIdMax \in Nat /\ FrameIdMax > 1
  BY SessionAssumption DEF RInv, KInv
<1>2. \A id, event : Adds(id, event) => next_frame_id' = next_frame_id + 1 /\ next_frame_id # FrameIdMax
  BY DEF Adds, Appends
<1>3. next_frame_id' = next_frame_id + 1 /\ next_frame_id # FrameIdMax => next_frame_id' <= FrameIdMax
  BY <1>1
<1>4. next_frame_id' \in {0, 1, next_frame_id} => next_frame_id' <= FrameIdMax
  BY <1>1
<1> QED
  BY <1>2, <1>3, <1>4 DEF Recorded, Cleared, Opened, CreatedFrame, Quiet, NewCall, NewFrame,
                          MoreFrame, capturing

LEMMA FramesCounted ==
    ASSUME TInv, RInv, KInv, SessionStarts \/ SessionContinues
    PROVE  stage' = "call" =>
              /\ pc' = "grow" => active_result'.frame_count = 0
              /\ pc' = "relink" => active_result'.frame_count <= 1
              /\ pc' = "link" => active_result'.frame_count <= 2
<1>1. CASE SessionStarts
  <2>1. ~ quarantined /\ stage' = IF pc' = "ready" THEN "return" ELSE "call"
    BY <1>1, StartShape
  <2>2. PICK r \in Results : r.frame_count = 0 /\ Sunk(r, "OK")
    BY <1>1, StartShape
  <2>3. IInv /\ CallBegins
    BY <1>1, <2>1 DEF TInv, SessionStarts
  <2>4. trace' # NoTrace => pc' = "ready"
    BY <2>3, StartCases
  <2>5. stage' = "call" => active_result' = r
    BY <2>1, <2>2, <2>4 DEF Sunk
  <2> QED
    BY <2>2, <2>5
<1>2. CASE SessionContinues
  <2>1. /\ stage' = IF pc' = "ready" THEN "return" ELSE "call"
        /\ trace' # NoTrace => trace'.kind \in TableEvents
        /\ active_result \in Results /\ Sunk(active_result, active_capture_status)
    BY <1>2, ContinueShape
  <2>2. GoesOn /\ stage = "call"
    BY <1>2, SessionGoesOn
  <2> DEFINE n == active_result.frame_count
             m == active_result'.frame_count
  <2>3. n \in Nat /\ (m = n \/ (m = n + 1 /\ trace' # NoTrace))
    <3>1. n \in Nat
      BY <2>1, ResultTypes
    <3>2. ASSUME trace' # NoTrace, active_result' = WithFrame(active_result, trace'.kind)
          PROVE  m = n + 1
      <4>1. trace'.kind \in Events /\ next_frame_id \in Nat
        BY <2>1, <3>2, TableEventsTold DEF RInv
      <4>2. FrameMore(active_result', active_result, trace'.kind)
        BY <2>1, <3>2, <4>1, WithFrameFacts
      <4> QED
        BY <4>2 DEF FrameMore
    <3> QED
      BY <2>1, <3>1, <3>2 DEF Sunk
  <2>4. /\ pc = "grow" => n = 0
        /\ pc = "relink" => n <= 1
    BY <2>2 DEF KInv
  <2> HIDE DEF n, m
  <2>5. /\ pc' # "grow"
        /\ pc' = "relink" => pc = "grow" \/ (pc = "relink" /\ trace' = NoTrace)
        /\ pc' = "link" => pc = "relink"
    BY <2>2 DEF GoesOn
  <2>6. pc' = "relink" => m <= 1
    BY <2>3, <2>4, <2>5
  <2>7. pc' = "link" => m <= 2
    BY <2>3, <2>4, <2>5
  <2> QED
    BY <2>5, <2>6, <2>7 DEF m
<1> QED
  BY <1>1, <1>2

LEMMA CountsStep ==
    ASSUME TInv, TInv', RInv, KInv, [SessionNext]_allvars PROVE KInv'
<1>1. next_frame_id' <= FrameIdMax
  BY SessionRecords, IdsBounded
<1>2. \/ SessionEnds \/ SessionBegins \/ SessionMakesTable \/ SessionCreated
      \/ SessionStarts \/ SessionContinues
      \/ SessionWhole \/ SessionReturns \/ SessionRejects \/ UNCHANGED allvars
  BY SessionSteps DEF SessionReads, SessionWhole
<1>3. CASE SessionEnds \/ SessionCreated \/ SessionWhole \/ SessionReturns \/ SessionRejects
  <2>1. stage' \in {"none", "idle"}
    BY <1>3 DEF SessionEnds, SessionRefused, SessionHasNoTable, SessionNotCaptured, SessionDestroy,
                Gone, SessionCreated, SessionWhole, SessionValidate, CorruptFails, CorruptSize,
                Restore, SessionReturns, FinishesWith, Finishes, SessionRejects, Rejects
  <2> QED
    BY <1>1, <2>1 DEF KInv
<1>4. CASE SessionBegins
  <2>1. stage' = "creating" /\ next_frame_id' = 1
    BY <1>4 DEF SessionBegins
  <2> QED
    BY <1>1, <2>1 DEF KInv
<1>5. CASE SessionMakesTable
  <2>1. stage' = "creating" /\ stage = "creating" /\ next_frame_id' = next_frame_id
    BY <1>5 DEF SessionMakesTable, session, capturing
  <2> QED
    BY <1>1, <2>1 DEF KInv
<1>6. CASE SessionStarts \/ SessionContinues
  <2>1. stage' # "creating"
    BY <1>6 DEF SessionStarts, SessionContinues, TableSteps
  <2> QED
    BY <1>1, <1>6, <2>1, FramesCounted DEF KInv
<1>7. CASE UNCHANGED allvars
  <2>1. /\ stage' = stage /\ pc' = pc /\ active_result' = active_result
        /\ next_frame_id' = next_frame_id
    BY <1>7 DEF allvars, session, capturing, vars
  <2> QED
    BY <2>1 DEF KInv
<1> QED
  BY <1>2, <1>3, <1>4, <1>5, <1>6, <1>7

\* The kind of a frame is that of its event.
Kind(event) ==
    CASE event = "SESSION_CREATED"         -> "created"
      [] event = "SIZE_CORRUPTION_APPLIED" -> "corrupted"
      [] event = "CLEAN_STATE_RESTORED"    -> "restored"
      [] OTHER                             -> "other"

LEMMA TableKinds ==
    \A event \in TableEvents \cup {"OPERATION_FAILED", "VALIDATION_PASSED", "VALIDATION_FAILED"} :
        Kind(event) = "other"
BY DEF TableEvents, Kind

\* What the contract reads of a session.
StageSeen ==
    CASE stage \in {"none", "creating"} -> "none" [] stage = "idle" -> "idle" [] OTHER -> "busy"

IdSeen == IF stage \in {"none", "creating"} THEN 1 ELSE next_frame_id

LEMMA ContractVars ==
    ASSUME /\ StageSeen' = StageSeen /\ AppearingLog(timeline') = AppearingLog(timeline)
           /\ IdSeen' = IdSeen /\ quarantined' = quarantined
           /\ Cur'.frame_count = Cur.frame_count
    PROVE  UNCHANGED Contract!contractvars
<1>1. /\ Cur.frame_count = (IF active_result = NULL THEN result ELSE active_result).frame_count
      /\ Cur'.frame_count = (IF active_result' = NULL THEN result' ELSE active_result').frame_count
  BY DEF Cur
<1> QED
  BY <1>1 DEF Contract!contractvars, StageSeen, IdSeen, AppearingLog, Appearing

\* The steps of the contract, in the terms of a session.
SeenRecords(kind) ==
    /\ IdSeen < FrameIdMax
    /\ AppearingLog(timeline') = Contract!Log!Appended(AppearingLog(timeline), IdSeen, kind)
    /\ IdSeen' = IdSeen + 1

SeenStays == AppearingLog(timeline') = AppearingLog(timeline) /\ IdSeen' = IdSeen

SeenFirst(kind) ==
    \/ SeenRecords(kind) /\ Cur'.frame_count = 1
    \/ Cur'.frame_count = 0 /\ SeenStays

LEMMA ContractRecords == ASSUME NEW kind, SeenRecords(kind) PROVE Contract!Records(kind)
BY DEF SeenRecords, Contract!Records, IdSeen, AppearingLog, Appearing

LEMMA ContractFirst ==
    ASSUME NEW kind, SeenFirst(kind) PROVE Contract!RecordsFirst(kind)
<1>1. Cur'.frame_count = (IF active_result' = NULL THEN result' ELSE active_result').frame_count
  BY DEF Cur
<1>2. CASE SeenRecords(kind) /\ Cur'.frame_count = 1
  BY <1>1, <1>2, ContractRecords DEF Contract!RecordsFirst
<1>3. CASE Cur'.frame_count = 0 /\ SeenStays
  BY <1>1, <1>3 DEF Contract!RecordsFirst, SeenStays, IdSeen, AppearingLog, Appearing
<1> QED
  BY <1>2, <1>3 DEF SeenFirst

\* A frame of the session is a frame of the contract.
LEMMA AppendsSeen ==
    ASSUME TInv', RInv, LInv, KInv, NEW id \in Nat, NEW event \in Events, Appends(id, event),
           stage \notin {"none"}, HasTimeline'
    PROVE  SeenRecords(Kind(event))
<1> DEFINE p == Payload(id, event)
           x == [frame_id |-> next_frame_id, payload |-> p]
<1>1. /\ next_frame_id # FrameIdMax /\ next_frame_id' = next_frame_id + 1
      /\ timeline' = Log!Appended(timeline, next_frame_id, p)
  BY DEF Appends
<1>2. x \in Frames /\ p.event = event
  BY PayloadType DEF RInv
<1>3. next_frame_id \in Nat /\ next_frame_id < FrameIdMax
  BY <1>1, SessionAssumption DEF RInv, KInv
<1>4. IdSeen = next_frame_id /\ IdSeen' = next_frame_id'
  BY DEF IdSeen, KInv, HasTimeline
<1>5. x.payload.event = event
  BY <1>2
<1> HIDE DEF p
<1>6. AppearingLog(timeline')
      = Contract!Log!Appended(AppearingLog(timeline), next_frame_id, KindOf(x))
  BY <1>1, <1>2, AppearingAppended DEF LInv
<1>7. KindOf(x) = Kind(event)
  BY <1>5 DEF KindOf, Kind
<1> QED
  BY <1>1, <1>3, <1>4, <1>6, <1>7 DEF SeenRecords

\* Before a session is there, nothing is.
LEMMA NothingSeen ==
    TInv /\ RInv /\ LInv /\ NInv /\ ~ HasTimeline =>
        /\ timeline = <<>> /\ quarantined = FALSE /\ Cur.frame_count = 0 /\ Cur.operation_id = 0
        /\ StageSeen = "none" /\ IdSeen = 1 /\ AppearingLog(timeline) = <<>>
<1> SUFFICES ASSUME TInv, RInv, LInv, NInv, ~ HasTimeline
             PROVE  /\ timeline = <<>> /\ quarantined = FALSE /\ Cur.frame_count = 0
                    /\ Cur.operation_id = 0
                    /\ StageSeen = "none" /\ IdSeen = 1 /\ AppearingLog(timeline) = <<>>
  OBVIOUS
<1>1. stage \in {"none", "creating"} /\ timeline = <<>> /\ Cur.operation_id = 0
  BY DEF LInv, HasTimeline
<1>2. quarantined = FALSE
  BY <1>1 DEF TInv, CloneStands
<1>3. Cur.frame_count = 0
  BY <1>1 DEF NInv, Named
<1>4. AppearingLog(timeline) = <<>>
  BY <1>1, AppearingEmpty
<1> QED
  BY <1>1, <1>2, <1>3, <1>4 DEF StageSeen, IdSeen

LEMMA NothingSeenThen ==
    (TInv /\ RInv /\ LInv /\ NInv /\ ~ HasTimeline =>
        /\ timeline = <<>> /\ quarantined = FALSE /\ Cur.frame_count = 0 /\ Cur.operation_id = 0
        /\ StageSeen = "none" /\ IdSeen = 1 /\ AppearingLog(timeline) = <<>>)'
BY NothingSeen, PTL

LEMMA NothingChanges ==
    ASSUME TInv, TInv', RInv, RInv', LInv, LInv', NInv, NInv', ~ HasTimeline, ~ HasTimeline'
    PROVE  UNCHANGED Contract!contractvars
BY NothingSeen, NothingSeenThen, ContractVars

LEMMA StaysSeen ==
    ASSUME UNCHANGED capturing, HasTimeline, HasTimeline' PROVE SeenStays
<1>1. timeline' = timeline /\ next_frame_id' = next_frame_id
  BY DEF capturing
<1> QED
  BY <1>1 DEF SeenStays, IdSeen, HasTimeline

\* The end of a call that captures its frame now.
LEMMA FinishedSeen ==
    ASSUME TInv', RInv, LInv, KInv, NEW r \in Results, NEW event \in Events, Finished(r, event),
           r.frame_count = 0, HasTimeline
    PROVE  stage' = "idle" /\ StageSeen' = "idle" /\ SeenFirst(Kind(event))
<1>1. /\ stage' = "idle"
      /\ \/ UNCHANGED capturing /\ SameFrames(Cur', r)
         \/ Appends(r.operation_id, event) /\ Cur'.frame_count = 1
  BY FinishedShape DEF RInv
<1>2. HasTimeline' /\ StageSeen' = "idle"
  BY <1>1 DEF HasTimeline, StageSeen
<1>3. CASE UNCHANGED capturing /\ SameFrames(Cur', r)
  <2>1. SeenStays
    BY <1>2, <1>3, StaysSeen
  <2>2. Cur'.frame_count = 0
    BY <1>3 DEF SameFrames
  <2> QED
    BY <1>1, <1>2, <2>1, <2>2 DEF SeenFirst
<1>4. CASE Appends(r.operation_id, event) /\ Cur'.frame_count = 1
  <2>1. r.operation_id \in Nat /\ stage \notin {"none"}
    BY ResultTypes DEF HasTimeline
  <2>2. SeenRecords(Kind(event))
    BY <1>2, <1>4, <2>1, AppendsSeen
  <2> QED
    BY <1>1, <1>2, <1>4, <2>2 DEF SeenFirst
<1> QED
  BY <1>1, <1>3, <1>4

\* A step of the table in a call.
LEMMA SunkSeen ==
    ASSUME TInv', RInv, LInv, KInv, NEW r \in Results, NEW status, Sunk(r, status),
           trace' # NoTrace => trace'.kind \in TableEvents, HasTimeline, HasTimeline'
    PROVE  \/ SeenStays /\ Cur'.frame_count = r.frame_count
           \/ SeenRecords("other") /\ Cur'.frame_count = r.frame_count + 1
<1>1. CASE UNCHANGED capturing /\ active_result' = r
  <2>1. SeenStays
    BY <1>1, StaysSeen
  <2>2. Cur' = r
    BY <1>1, NoNullAssumption DEF Cur
  <2> QED
    BY <2>1, <2>2
<1>2. CASE /\ trace' # NoTrace /\ Appends(r.operation_id, trace'.kind)
           /\ active_result' = WithFrame(r, trace'.kind)
  <2> DEFINE event == trace'.kind
  <2>1. event \in TableEvents /\ event \in Events /\ Kind(event) = "other"
    BY <1>2, TableEventsTold, TableKinds
  <2>2. r.operation_id \in Nat /\ stage \notin {"none"}
    BY ResultTypes DEF HasTimeline
  <2>3. active_result' = WithFrame(r, event) /\ Appends(r.operation_id, event)
    BY <1>2
  <2> HIDE DEF event
  <2>4. SeenRecords("other")
    BY <2>1, <2>2, <2>3, AppendsSeen
  <2>5. active_result' \in Results /\ FrameMore(active_result', r, event)
    BY <2>1, <2>3, WithFrameFacts DEF RInv
  <2>6. Cur' = active_result'
    BY <2>5, NoNullAssumption DEF Cur
  <2> QED
    BY <2>4, <2>5, <2>6 DEF FrameMore
<1> QED
  BY <1>1, <1>2 DEF Sunk

LEMMA StartsKeep ==
    ASSUME TInv, TInv', RInv, LInv, KInv, SessionStarts PROVE Contract!Begin
<1>1. /\ stage = "idle" /\ ~ quarantined /\ quarantined' = FALSE
      /\ stage' \in {"return", "call"}
      /\ trace' # NoTrace => trace'.kind \in TableEvents
  BY StartShape DEF TInv
<1>2. PICK r \in Results : r.frame_count = 0 /\ Sunk(r, "OK")
  BY StartShape
<1>3. /\ HasTimeline /\ HasTimeline' /\ StageSeen = "idle" /\ StageSeen' = "busy"
      /\ quarantined = FALSE
  BY <1>1 DEF HasTimeline, StageSeen, TInv
<1>4. SeenFirst("other")
  BY <1>1, <1>2, <1>3, SunkSeen DEF SeenFirst
<1>5. Contract!RecordsFirst("other")
  BY <1>4, ContractFirst
<1> QED
  BY <1>1, <1>3, <1>5 DEF Contract!Begin, StageSeen

LEMMA ContinuesKeep ==
    ASSUME TInv, TInv', RInv, LInv, KInv, SessionContinues
    PROVE  Contract!GoOn \/ UNCHANGED Contract!contractvars
<1>1. /\ stage = "call" /\ stage' \in {"return", "call"} /\ ~ quarantined /\ ~ quarantined'
      /\ trace' # NoTrace => trace'.kind \in TableEvents
      /\ active_result \in Results /\ Sunk(active_result, active_capture_status)
  BY ContinueShape
<1>2. /\ HasTimeline /\ HasTimeline' /\ StageSeen = "busy" /\ StageSeen' = "busy"
      /\ quarantined' = quarantined
  BY <1>1 DEF HasTimeline, StageSeen, TInv
<1>3. Cur = active_result
  BY <1>1, NoNullAssumption DEF Cur
<1>4. Cur.frame_count \in Nat /\ Cur.frame_count <= 2
  <2>1. GoesOn
    BY SessionGoesOn
  <2>2. pc \in {"grow", "relink", "link"}
    BY <2>1 DEF GoesOn
  <2>3. Cur.frame_count \in Nat
    BY <1>1, <1>3, ResultTypes
  <2>4. Cur.frame_count = 0 \/ Cur.frame_count <= 1 \/ Cur.frame_count <= 2
    BY <1>1, <1>3, <2>2 DEF KInv
  <2> QED
    BY <2>3, <2>4
<1>5. CASE SeenStays /\ Cur'.frame_count = Cur.frame_count
  BY <1>2, <1>5, ContractVars DEF SeenStays
<1>6. CASE SeenRecords("other") /\ Cur'.frame_count = Cur.frame_count + 1
  <2>1. Contract!Records("other")
    BY <1>6, ContractRecords
  <2>2. /\ (IF active_result = NULL THEN result ELSE active_result).frame_count = Cur.frame_count
        /\ (IF active_result' = NULL THEN result' ELSE active_result').frame_count = Cur'.frame_count
    BY DEF Cur
  <2> DEFINE n == Cur.frame_count
  <2> HIDE DEF n
  <2>3. n < 3
    BY <1>4 DEF n
  <2> QED
    BY <1>2, <1>6, <2>1, <2>2, <2>3 DEF Contract!GoOn, Contract!MaxRecorded, StageSeen, n
<1> QED
  BY <1>1, <1>2, <1>3, <1>5, <1>6, SunkSeen

LEMMA ReturnsKeep ==
    ASSUME TInv, TInv', RInv, LInv, KInv, SessionReturns PROVE Contract!End
<1>1. stage = "return" /\ ~ quarantined /\ ~ quarantined'
  BY ReturnShape
<1>2. PICK r \in Results :
          /\ SameFrames(r, active_result)
          /\ \/ /\ r.frame_count = 0
                /\ Finished(r, "OPERATION_FAILED")
             \/ /\ UNCHANGED capturing
                /\ active_result' = NULL /\ stage' = "idle"
                /\ result' = [r EXCEPT !.status = IF active_capture_status = "OK" THEN "OK"
                                                  ELSE "CAPTURE_FAILED"]
  BY ReturnShape
<1>3. Cur = active_result /\ r.frame_count = Cur.frame_count
  BY <1>1, <1>2, ActiveFacts DEF SameFrames
<1>4. HasTimeline /\ StageSeen = "busy" /\ quarantined' = quarantined
  BY <1>1 DEF HasTimeline, StageSeen, TInv
<1>5. /\ (IF active_result = NULL THEN result ELSE active_result).frame_count = Cur.frame_count
      /\ (IF active_result' = NULL THEN result' ELSE active_result').frame_count = Cur'.frame_count
  BY DEF Cur
<1>6. CASE r.frame_count = 0 /\ Finished(r, "OPERATION_FAILED")
  <2>1. "OPERATION_FAILED" \in Events /\ Kind("OPERATION_FAILED") = "other"
    BY TableKinds DEF Events
  <2>2. StageSeen' = "idle" /\ SeenFirst("other")
    BY <1>4, <1>6, <2>1, FinishedSeen
  <2>3. Contract!RecordsFirst("other")
    BY <2>2, ContractFirst
  <2> QED
    BY <1>3, <1>4, <1>5, <1>6, <2>2, <2>3 DEF Contract!End, StageSeen
<1>7. CASE /\ UNCHANGED capturing
           /\ active_result' = NULL /\ stage' = "idle"
           /\ result' = [r EXCEPT !.status = IF active_capture_status = "OK" THEN "OK"
                                             ELSE "CAPTURE_FAILED"]
  <2>1. Cur' = result' /\ result'.frame_count = r.frame_count
    BY <1>7 DEF Cur, Results
  <2>2. HasTimeline' /\ StageSeen' = "idle"
    BY <1>7 DEF HasTimeline, StageSeen
  <2>3. SeenStays
    BY <1>4, <1>7, <2>2, StaysSeen
  <2>4. Cur'.frame_count = Cur.frame_count
    BY <1>3, <2>1
  <2> QED
    BY <1>4, <1>5, <2>2, <2>3, <2>4
    DEF Contract!End, StageSeen, SeenStays, IdSeen, AppearingLog, Appearing
<1> QED
  BY <1>2, <1>6, <1>7

LEMMA WholeKeeps ==
    ASSUME TInv, TInv', RInv, LInv, KInv, SessionWhole
    PROVE  Contract!Judge \/ Contract!Corrupt \/ Contract!Restore
<1>1. stage = "idle"
  BY DEF SessionWhole, SessionValidate, CorruptFails, CorruptSize, Restore, Begins
<1>2. HasTimeline /\ StageSeen = "idle"
  BY <1>1 DEF HasTimeline, StageSeen
<1>3. \A op \in Operations : Begun(op) \in Results /\ Begun(op).frame_count = 0
  BY BegunFacts DEF RInv
<1>4. ASSUME NEW r \in Results, NEW event \in Events, r.frame_count = 0, FinishesWith(r, event)
      PROVE  StageSeen' = "idle" /\ Contract!RecordsFirst(Kind(event))
  <2>1. Finished(r, event)
    BY <1>4, FinishCases
  <2>2. StageSeen' = "idle" /\ SeenFirst(Kind(event))
    BY <1>2, <1>4, <2>1, FinishedSeen
  <2> QED
    BY <2>2, ContractFirst
<1>5. CASE SessionValidate
  <2> DEFINE event == IF Shows.violations = {} THEN "VALIDATION_PASSED" ELSE "VALIDATION_FAILED"
  <2>1. FinishesWith(Begun("validate"), event) /\ quarantined' = quarantined
    BY <1>5 DEF SessionValidate
  <2>2. event \in {"VALIDATION_PASSED", "VALIDATION_FAILED"}
    OBVIOUS
  <2> HIDE DEF event
  <2>3. event \in Events /\ Kind(event) = "other"
    BY <2>2, TableKinds DEF Events
  <2>4. Begun("validate") \in Results /\ Begun("validate").frame_count = 0
    BY <1>3 DEF Operations
  <2>5. StageSeen' = "idle" /\ Contract!RecordsFirst("other")
    BY <1>4, <2>1, <2>3, <2>4
  <2> QED
    BY <1>2, <2>1, <2>5 DEF Contract!Judge, StageSeen
<1>6. CASE CorruptFails
  <2> DEFINE r == [Begun("corrupt") EXCEPT !.table_status = "NO_MEMORY"]
  <2>1. FinishesWith(r, "OPERATION_FAILED") /\ quarantined' = quarantined
    BY <1>6 DEF CorruptFails
  <2>2. r \in Results /\ r.frame_count = 0
    BY <1>3, TableStatusFacts DEF Operations, TableStatuses, SameFrames
  <2> HIDE DEF r
  <2>3. "OPERATION_FAILED" \in Events /\ Kind("OPERATION_FAILED") = "other"
    BY TableKinds DEF Events
  <2>4. StageSeen' = "idle" /\ Contract!RecordsFirst("other")
    BY <1>4, <2>1, <2>2, <2>3
  <2> QED
    BY <1>2, <2>1, <2>4 DEF Contract!Judge, StageSeen
<1>7. CASE CorruptSize
  <2>1. /\ FinishesWith(Begun("corrupt"), "SIZE_CORRUPTION_APPLIED")
        /\ ~ quarantined /\ quarantined' = TRUE
    BY <1>7 DEF CorruptSize, Accepts
  <2>2. /\ "SIZE_CORRUPTION_APPLIED" \in Events
        /\ Kind("SIZE_CORRUPTION_APPLIED") = "corrupted"
    BY DEF Events, Kind
  <2>3. Begun("corrupt") \in Results /\ Begun("corrupt").frame_count = 0
    BY <1>3 DEF Operations
  <2>4. StageSeen' = "idle" /\ Contract!RecordsFirst("corrupted")
    BY <1>4, <2>1, <2>2, <2>3
  <2> QED
    BY <1>2, <2>1, <2>4 DEF Contract!Corrupt, StageSeen
<1>8. CASE Restore
  <2>1. /\ FinishesWith(Begun("restore"), "CLEAN_STATE_RESTORED")
        /\ quarantined /\ quarantined' = FALSE
    BY <1>8 DEF Restore
  <2>2. "CLEAN_STATE_RESTORED" \in Events /\ Kind("CLEAN_STATE_RESTORED") = "restored"
    BY DEF Events, Kind
  <2>3. Begun("restore") \in Results /\ Begun("restore").frame_count = 0
    BY <1>3 DEF Operations
  <2>4. StageSeen' = "idle" /\ Contract!RecordsFirst("restored")
    BY <1>4, <2>1, <2>2, <2>3
  <2> QED
    BY <1>2, <2>1, <2>4 DEF Contract!Restore, StageSeen
<1> QED
  BY <1>5, <1>6, <1>7, <1>8 DEF SessionWhole

LEMMA RejectsKeep == ASSUME RInv, SessionRejects PROVE Contract!Reject
<1>1. PICK op, status, table_status : Rejects(op, status, table_status)
  BY DEF SessionRejects
<1>2. /\ stage = "idle" /\ stage' = "idle" /\ timeline' = timeline
      /\ next_frame_id' = next_frame_id /\ quarantined' = quarantined
      /\ active_result' = active_result /\ result' = NoResult(op, status, table_status)
  BY <1>1 DEF Rejects, capturing
<1>3. active_result' = NULL /\ result'.frame_count = 0
  BY <1>2 DEF RInv, NoResult
<1> QED
  BY <1>2, <1>3 DEF Contract!Reject

LEMMA CreatedKeeps ==
    ASSUME TInv, TInv', RInv, LInv, NInv, KInv, SessionCreated PROVE Contract!Create
<1>1. /\ stage = "creating" /\ stage' = "idle" /\ quarantined' = quarantined
      /\ Appends(0, "SESSION_CREATED") /\ active_result' = active_result
      /\ result' = NoResult("create", "OK", "OK")
  BY DEF SessionCreated
<1>2. active_result' = NULL /\ result'.frame_count = 0
  BY <1>1 DEF RInv, NoResult
<1>3. ~ HasTimeline /\ HasTimeline' /\ StageSeen = "none" /\ StageSeen' = "idle"
  BY <1>1 DEF HasTimeline, StageSeen
<1>4. Cur.frame_count = 0 /\ Cur'.frame_count = 0
  BY <1>2, <1>3, NothingSeen DEF Cur
<1>5. "SESSION_CREATED" \in Events /\ Kind("SESSION_CREATED") = "created"
  BY DEF Events, Kind
<1>6. SeenRecords("created")
  BY <1>1, <1>3, <1>5, AppendsSeen
<1>7. Contract!Records("created")
  BY <1>6, ContractRecords
<1>8. /\ (IF active_result = NULL THEN result ELSE active_result).frame_count = Cur.frame_count
      /\ (IF active_result' = NULL THEN result' ELSE active_result').frame_count = Cur'.frame_count
  BY DEF Cur
<1> QED
  BY <1>1, <1>3, <1>4, <1>7, <1>8 DEF Contract!Create, StageSeen

LEMMA DestroyKeeps ==
    ASSUME TInv', RInv', LInv', NInv', SessionDestroy PROVE Contract!Destroy
<1>1. stage = "idle" /\ stage' = "none"
  BY DEF SessionDestroy, Gone
<1>2. ~ HasTimeline' /\ StageSeen = "idle"
  BY <1>1 DEF HasTimeline, StageSeen
<1>3. /\ quarantined' = FALSE /\ Cur'.frame_count = 0 /\ StageSeen' = "none" /\ IdSeen' = 1
      /\ AppearingLog(timeline') = <<>>
  BY <1>2, NothingSeenThen
<1>4. (IF active_result' = NULL THEN result' ELSE active_result').frame_count = Cur'.frame_count
  BY DEF Cur
<1> QED
  BY <1>2, <1>3, <1>4
  DEF Contract!Destroy, Contract!Gone, StageSeen, IdSeen, AppearingLog, Appearing

LEMMA ContractStep ==
    ASSUME TInv, TInv', RInv, RInv', LInv, LInv', NInv, NInv', KInv, [SessionNext]_allvars
    PROVE  [Contract!ContractNext]_(Contract!contractvars)
<1>1. \/ SessionEnds \/ SessionBegins \/ SessionMakesTable \/ SessionCreated
      \/ SessionStarts \/ SessionContinues
      \/ SessionWhole \/ SessionReturns \/ SessionRejects \/ UNCHANGED allvars
  BY SessionSteps DEF SessionReads, SessionWhole
<1>2. CASE \/ SessionRefused \/ SessionHasNoTable \/ SessionNotCaptured
           \/ SessionBegins \/ SessionMakesTable
  <2>1. stage \in {"none", "creating"} /\ stage' \in {"none", "creating"}
    BY <1>2 DEF SessionRefused, SessionHasNoTable, SessionNotCaptured, Gone, SessionBegins,
                SessionMakesTable, session
  <2>2. ~ HasTimeline /\ ~ HasTimeline'
    BY <2>1 DEF HasTimeline
  <2> QED
    BY <2>2, NothingChanges
<1>3. CASE UNCHANGED allvars
  <2>1. /\ stage' = stage /\ timeline' = timeline /\ next_frame_id' = next_frame_id
        /\ quarantined' = quarantined /\ active_result' = active_result /\ result' = result
    BY <1>3 DEF allvars, session, capturing
  <2> QED
    BY <2>1 DEF Contract!contractvars
<1>4. \/ SessionDestroy \/ SessionCreated \/ SessionStarts \/ SessionContinues
      \/ SessionWhole \/ SessionReturns \/ SessionRejects
      => Contract!ContractNext \/ UNCHANGED Contract!contractvars
  BY DestroyKeeps, CreatedKeeps, StartsKeep, ContinuesKeep, WholeKeeps, ReturnsKeep, RejectsKeep
  DEF Contract!ContractNext
<1> QED
  BY <1>1, <1>2, <1>3, <1>4 DEF SessionEnds

LEMMA ContractKept == SessionSpec => [](TInv /\ RInv /\ LInv /\ NInv /\ KInv)
<1>1. SessionInit => KInv
  <2>1. 0 <= FrameIdMax
    BY SessionAssumption
  <2> QED
    BY <2>1 DEF SessionInit, KInv
<1>2. TInv /\ TInv' /\ RInv /\ KInv /\ [SessionNext]_allvars => KInv'
  BY CountsStep
<1> QED
  BY <1>1, <1>2, NumbersKept, PTL DEF SessionSpec

\* The safety part of KeepsContract.  hash_inspector.h as the code above it uses a session, whatever
\* fails inside: frames come one after the other without a gap in their ids, three at most of a
\* call, and only a corruption and a restoration, or the end of the session, change the flag of
\* the quarantine.
THEOREM SessionKeepsContract ==
    SessionSpec => Contract!ContractInit /\ [][Contract!ContractNext]_(Contract!contractvars)
<1>1. SessionInit => Contract!ContractInit
  <2> SUFFICES ASSUME SessionInit PROVE Contract!ContractInit
    OBVIOUS
  <2>1. /\ stage = "none" /\ timeline = <<>> /\ quarantined = FALSE
        /\ active_result = NULL /\ result = NoResult("none", "OK", "OK")
    BY DEF SessionInit
  <2>2. result.frame_count = 0
    BY <2>1 DEF NoResult
  <2>3. [i \in DOMAIN timeline |->
            [frame_id |-> timeline[i].frame_id, payload |-> KindOf(timeline[i])]] = <<>>
    BY <2>1
  <2> QED
    BY <2>1, <2>2, <2>3 DEF Contract!ContractInit
<1>2. TInv /\ TInv' /\ RInv /\ RInv' /\ LInv /\ LInv' /\ NInv /\ NInv' /\ KInv
      /\ [SessionNext]_allvars => [Contract!ContractNext]_(Contract!contractvars)
  BY ContractStep
<1> QED
  BY <1>1, <1>2, ContractKept, PTL DEF SessionSpec

-----------------------------------------------------------------------------
(* What a result names is there. *)

\* A call records three frames at most, and the log has room for them.
Whole == Cur.frame_count <= Contract!MaxRecorded /\ Cur.frame_count <= Len(timeline)

\* A log has one frame more, or as many as it can hold.
LEMMA AppendedLength ==
    ASSUME NEW f, IsLog(f), NEW id, NEW p, [frame_id |-> id, payload |-> p] \in Frames
    PROVE  Len(Log!Appended(f, id, p)) = IF Len(f) < MaxFrames THEN Len(f) + 1 ELSE MaxFrames
<1> DEFINE x == [frame_id |-> id, payload |-> p]
           h == Append(f, x)
           g == Log!Appended(f, id, p)
<1>1. /\ f \in Seq(Frames) /\ Len(f) \in Nat /\ Len(f) <= MaxFrames
      /\ MaxFrames \in Nat /\ MaxFrames > 0
  BY SessionAssumption DEF IsLog
<1>2. g = IF Len(h) <= MaxFrames THEN h ELSE SubSeq(h, Len(h) - MaxFrames + 1, Len(h))
  BY DEF Log!Appended, Log!Newest
<1>3. h \in Seq(Frames) /\ Len(h) = Len(f) + 1
  BY <1>1
<1> HIDE DEF x, h, g
<1>4. CASE Len(f) < MaxFrames
  BY <1>1, <1>2, <1>3, <1>4 DEF g
<1>5. CASE Len(f) = MaxFrames
  <2>1. g = SubSeq(h, 2, Len(f) + 1)
    BY <1>1, <1>2, <1>3, <1>5
  <2>2. Len(g) = Len(f)
    BY <1>1, <1>3, <2>1
  <2> QED
    BY <1>1, <1>5, <2>2 DEF g
<1> QED
  BY <1>1, <1>4, <1>5

\* By the contract a call begins anew or counts on, up to three.
LEMMA CountsOn ==
    ASSUME [Contract!ContractNext]_(Contract!contractvars)
    PROVE  \/ Cur'.frame_count \in {0, 1, Cur.frame_count}
           \/ Cur.frame_count < Contract!MaxRecorded /\ Cur'.frame_count = Cur.frame_count + 1
<1>1. /\ Cur.frame_count = (IF active_result = NULL THEN result ELSE active_result).frame_count
      /\ Cur'.frame_count = (IF active_result' = NULL THEN result' ELSE active_result').frame_count
  BY DEF Cur
<1> DEFINE n == (IF active_result = NULL THEN result ELSE active_result).frame_count
           m == (IF active_result' = NULL THEN result' ELSE active_result').frame_count
<1>2. CASE UNCHANGED Contract!contractvars
  <2>1. m = n
    BY <1>2 DEF Contract!contractvars
  <2> QED
    BY <1>1, <2>1
<1>3. CASE Contract!GoOn
  <2>1. n < Contract!MaxRecorded /\ m = n + 1
    BY <1>3 DEF Contract!GoOn
  <2> QED
    BY <1>1, <2>1
<1>4. CASE Contract!Create \/ Contract!Destroy \/ Contract!Reject
  <2>1. m = n \/ m = 0
    BY <1>4 DEF Contract!Create, Contract!Destroy, Contract!Gone, Contract!Reject
  <2> QED
    BY <1>1, <2>1
<1>5. CASE \/ Contract!Begin \/ Contract!End \/ Contract!Judge
           \/ Contract!Corrupt \/ Contract!Restore
  <2>1. m \in {0, 1, n}
    BY <1>5 DEF Contract!Begin, Contract!End, Contract!Judge, Contract!Corrupt, Contract!Restore,
                Contract!RecordsFirst
  <2> QED
    BY <1>1, <2>1
<1> QED
  BY <1>2, <1>3, <1>4, <1>5 DEF Contract!ContractNext

\* A frame that is added stays, next to the two before it.
LEMMA WholeStep ==
    ASSUME MaxFrames >= Contract!MaxRecorded, TInv', RInv, RInv', LInv, LInv', Whole,
           Recorded, [Contract!ContractNext]_(Contract!contractvars)
    PROVE  Whole'
<1> DEFINE n == Cur.frame_count
           m == Cur'.frame_count
           L == Len(timeline)
           M == Len(timeline')
<1>1. n \in Nat /\ m \in Nat /\ next_frame_id \in Nat
      /\ next_operation_id \in Nat /\ Cur.operation_id \in Nat
  BY CurTypes, CurTypesThen
<1>2. IsLog(timeline) /\ IsLog(timeline')
  BY DEF LInv
<1>3. L \in Nat /\ M \in Nat /\ L <= MaxFrames /\ MaxFrames \in Nat /\ Contract!MaxRecorded = 3
  BY <1>2, SessionAssumption DEF IsLog, Contract!MaxRecorded
<1>4. n <= 3 /\ n <= L /\ MaxFrames >= 3
  BY <1>3 DEF Whole
<1>5. m \in {0, 1, n} \/ (n < 3 /\ m = n + 1)
  BY <1>3, CountsOn
<1>6. ASSUME NEW id \in Nat, NEW event, Adds(id, event)
      PROVE  M = IF L < MaxFrames THEN L + 1 ELSE MaxFrames
  <2>1. [frame_id |-> next_frame_id, payload |-> Payload(id, event)] \in Frames
    BY <1>1, <1>6, PayloadType DEF Adds
  <2>2. timeline' = Log!Appended(timeline, next_frame_id, Payload(id, event))
    BY <1>6 DEF Adds, Appends
  <2> QED
    BY <1>2, <2>1, <2>2, AppendedLength
<1>7. CASE NewFrame \/ MoreFrame
  <2>1. M = IF L < MaxFrames THEN L + 1 ELSE MaxFrames
    BY <1>1, <1>6, <1>7 DEF NewFrame, MoreFrame
  <2>2. m <= 3
    BY <1>1, <1>4, <1>5
  <2>3. m <= M
    BY <1>1, <1>3, <1>4, <1>5, <2>1
  <2> QED
    BY <1>3, <2>2, <2>3 DEF Whole
<1>8. CASE Cleared \/ CreatedFrame \/ NewCall
  <2>1. m = 0
    BY <1>8 DEF Cleared, CreatedFrame, NewCall
  <2> QED
    BY <1>3, <2>1 DEF Whole
<1>9. CASE Opened \/ Quiet
  <2>1. timeline' = timeline /\ m \in {0, n}
    BY <1>9 DEF Opened, Quiet, capturing, SameFrames
  <2> QED
    BY <1>3, <1>4, <2>1 DEF Whole
<1> QED
  BY <1>7, <1>8, <1>9 DEF Recorded

\* Every frame that the result of the running or of the last call names is in the timeline.
NamedFramesAreRetained ==
    \A id \in Cur.first_frame_id..(Cur.first_frame_id + Cur.frame_count - 1) :
        \E i \in DOMAIN timeline : timeline[i].frame_id = id

LEMMA WholeIsRetained == ASSUME RInv, LInv, NInv, Whole PROVE NamedFramesAreRetained
<1> DEFINE n == Cur.frame_count
           first == Cur.first_frame_id
           L == Len(timeline)
<1> SUFFICES ASSUME NEW id \in first..(first + n - 1)
             PROVE  \E i \in DOMAIN timeline : timeline[i].frame_id = id
  BY DEF NamedFramesAreRetained
<1>1. n \in Nat /\ first \in Nat /\ next_frame_id \in Nat /\ First \in Nat
  BY CurTypes
<1>2. L \in Nat /\ DOMAIN timeline = 1..L
  BY DEF LInv, IsLog
<1>3. First + n = next_frame_id /\ First = IF n = 0 THEN next_frame_id ELSE first
  BY DEF NInv, Named, First
<1>4. n <= L
  BY DEF Whole
<1>5. \A i \in DOMAIN timeline : /\ timeline[i].frame_id \in Nat
                                 /\ timeline[i].frame_id + L + 1 = next_frame_id + i
  BY OlderFrames DEF LInv, NInv, Numbered
<1> HIDE DEF n, first, L
<1> DEFINE i == id + L + 1 - next_frame_id
<1>6. i \in 1..L
  BY <1>1, <1>2, <1>3, <1>4
<1>7. timeline[i].frame_id \in Nat /\ timeline[i].frame_id + L + 1 = next_frame_id + i
  BY <1>2, <1>5, <1>6
<1>8. timeline[i].frame_id = id
  BY <1>1, <1>2, <1>7
<1> QED
  BY <1>2, <1>6, <1>8

\* hash_json.c:248-258, hti_operation_result_json, looks each frame of a result up by its id and
\* fails when there is none.  With a log of three frames or more, however many of them it has
\* dropped and whatever failed, it finds those of the last call: no document is lost so.
THEOREM ResultsAreRetained ==
    ASSUME MaxFrames >= Contract!MaxRecorded
    PROVE  SessionSpec => []NamedFramesAreRetained
<1>1. SessionInit => Whole
  <2> SUFFICES ASSUME SessionInit PROVE Whole
    OBVIOUS
  <2>1. timeline = <<>> /\ Cur = NoResult("none", "OK", "OK")
    BY DEF SessionInit, Cur
  <2> QED
    BY <2>1 DEF Whole, NoResult, Contract!MaxRecorded
<1>2. Whole /\ TInv /\ TInv' /\ RInv /\ RInv' /\ LInv /\ LInv'
      /\ NInv /\ NInv' /\ KInv /\ [SessionNext]_allvars => Whole'
  BY SessionRecords, ContractStep, WholeStep
<1>3. RInv /\ LInv /\ NInv /\ Whole => NamedFramesAreRetained
  BY WholeIsRetained
<1> QED
  BY <1>1, <1>2, <1>3, ContractKept, PTL DEF SessionSpec

-----------------------------------------------------------------------------
(* How long a call of a session can run. *)

\* What a session's call still has before it at most: the steps of its table's call and its
\* own return, or the steps of its creation.
SessionStepsLeft ==
    IF stage \in {"none", "idle"} THEN 0
    ELSE IF stage = "creating" THEN (IF pc = "absent" THEN 3 ELSE 1 + StepsLeft)
    ELSE 1 + StepsLeft

SessionCallIsShort == SessionStepsLeft \in 0..(size + 4)

LEMMA LeftToMoveThen == (IInv => size \in Nat /\ moved_count \in Nat)'
<1>1. IInv => size \in Nat /\ moved_count \in Nat
  BY LeftToMove
<1> QED
  BY <1>1, PTL

LEMMA SessionStepsBound == ASSUME TInv PROVE SessionCallIsShort
<1>1. size \in Nat
  BY DEF TInv, CloneStands, IInv, TypeOK
<1>2. CASE quarantined
  BY <1>1, <1>2 DEF TInv, CloneStands, SessionStepsLeft, SessionCallIsShort
<1>3. CASE ~ quarantined
  <2>1. StepsLeft \in 0..(size + 3)
    BY <1>3, StepsLeftBound DEF TInv, CallIsShort
  <2> QED
    BY <1>1, <2>1 DEF SessionStepsLeft, SessionCallIsShort
<1> QED
  BY <1>2, <1>3 DEF TInv

LEMMA SessionStepsFall ==
    ASSUME TInv, TInv', [SessionNext]_allvars, stage \notin {"none", "idle"}
    PROVE  SessionStepsLeft' < SessionStepsLeft \/ UNCHANGED allvars
<1>1. /\ stage \in {"creating", "call", "return"} /\ ~ quarantined /\ IInv
      /\ stage \in {"return"} => pc = "ready"
      /\ stage = "creating" => pc \in {"absent", "create", "ready"}
      /\ stage = "call" => pc \in {"grow", "relink", "link"}
  BY DEF TInv, StageTellsPlace, Stages, CloneStands
<1>2. StepsLeft \in Nat /\ (pc = "ready" => StepsLeft = 0) /\ (pc = "create" => StepsLeft = 1)
  BY <1>1, StepsLeftBound, LeftToMove DEF CallIsShort, StepsLeft
<1>3. SessionProceeds \/ UNCHANGED allvars
  BY <1>1 DEF SessionNext, SessionCalls, SessionRefused, SessionBegins, SessionDestroy,
              SessionLookup, SessionDelete, SessionPut, SessionValidate, CorruptFails,
              CorruptSize, Restore, SessionRejects, Rejects, Begins
<1>4. CASE SessionMakesTable
  <2>1. stage = "creating" /\ stage' = "creating"
    BY <1>4 DEF SessionMakesTable, session
  <2>2. \/ pc = "absent" /\ pc' = "create"
        \/ pc = "create" /\ pc' = "ready"
    BY <1>4 DEF SessionMakesTable, CreateTable, CreateBuckets
  <2> QED
    BY <2>1, <2>2 DEF SessionStepsLeft, StepsLeft
<1>5. CASE SessionHasNoTable \/ SessionCreated \/ SessionNotCaptured \/ SessionReturns
  <2>1. stage' \in {"none", "idle"}
    <3>1. CASE SessionReturns
      <4>1. PICK res : (\E event : FinishesWith(res, event)) \/ \E status : Finishes(res, status)
        BY <3>1 DEF SessionReturns
      <4> QED
        BY <4>1 DEF FinishesWith, Finishes
    <3> QED
      BY <1>5, <3>1 DEF SessionHasNoTable, SessionCreated, SessionNotCaptured, Gone
  <2> QED
    BY <1>1, <1>2, <2>1 DEF SessionStepsLeft
<1>6. CASE SessionContinues
  <2>1. /\ Continue /\ stage = "call" /\ stage' \in {"call", "return"}
        /\ quarantined' = FALSE
    BY <1>1, <1>6 DEF SessionContinues, TableSteps
  <2>2. IInv'
    BY <2>1 DEF TInv
  <2>3. StepsLeft' < StepsLeft
    BY <1>1, <2>1, <2>2, StepsLeftFall
  <2>4. StepsLeft' \in Int
    BY <2>2, LeftToMoveThen DEF StepsLeft
  <2>5. SessionStepsLeft = 1 + StepsLeft /\ SessionStepsLeft' = 1 + StepsLeft'
    BY <2>1 DEF SessionStepsLeft
  <2>6. \A m, n \in Int : m < n => 1 + m < 1 + n
    OBVIOUS
  <2>7. StepsLeft \in Int
    BY <1>2
  <2>8. 1 + StepsLeft' < 1 + StepsLeft
    BY <2>3, <2>4, <2>6, <2>7, Zenon
  <2> QED
    BY <2>5, <2>8, Zenon
<1> QED
  BY <1>3, <1>4, <1>5, <1>6 DEF SessionProceeds

\* hash_inspector.c, hti_session_create, put, lookup and delete over the table's own steps:
\* once a call has begun, whatever step comes next brings it nearer its return, of which it is
\* never farther than the size and four steps, a growth and every failed capture included.
\* No trace sends a call back.
THEOREM SessionCallsAreShort ==
    SessionSpec => /\ []SessionCallIsShort
                   /\ [][stage \notin {"none", "idle"}
                            => SessionStepsLeft' < SessionStepsLeft]_allvars
<1>1. TInv => SessionCallIsShort
  BY SessionStepsBound
<1>2. TInv /\ TInv' /\ [SessionNext]_allvars
      => [stage \notin {"none", "idle"} => SessionStepsLeft' < SessionStepsLeft]_allvars
  BY SessionStepsFall
<1> QED
  BY <1>1, <1>2, SessionHasItsTable, PTL DEF SessionSpec

-----------------------------------------------------------------------------
(* A frame stays as it was recorded. *)

\* What a step leaves of the frames that were there: an id names the frame that it named, and
\* a frame that was dropped does not come back.
FramesStay ==
    /\ \A i \in DOMAIN timeline, j \in DOMAIN timeline' :
          timeline[i].frame_id = timeline'[j].frame_id => timeline'[j] = timeline[i]
    /\ \A j \in DOMAIN timeline' :
          timeline'[j].frame_id < next_frame_id
             => \E i \in DOMAIN timeline : timeline'[j] = timeline[i]

LEMMA OneFrameOfAnId ==
    ASSUME IsLog(timeline), next_frame_id \in Nat, Numbered,
           NEW i \in DOMAIN timeline, NEW k \in DOMAIN timeline,
           timeline[i].frame_id = timeline[k].frame_id
    PROVE  i = k
<1> DEFINE q == timeline[i].frame_id
           L == Len(timeline)
<1>1. q + L + 1 = next_frame_id + i /\ q + L + 1 = next_frame_id + k
  BY DEF Numbered
<1>2. q \in Nat /\ L \in Nat /\ i \in Nat /\ k \in Nat
  BY FrameTypes
<1> HIDE DEF q, L
<1> QED
  BY <1>1, <1>2

LEMMA SameFramesStay ==
    ASSUME RInv, IsLog(timeline), Numbered, timeline' = timeline PROVE FramesStay
<1>1. ASSUME NEW i \in DOMAIN timeline, NEW j \in DOMAIN timeline,
             timeline[i].frame_id = timeline[j].frame_id
      PROVE  timeline[j] = timeline[i]
  BY <1>1, OneFrameOfAnId, CurTypes
<1> QED
  BY <1>1 DEF FramesStay

LEMMA OlderFramesStay ==
    ASSUME TInv', RInv, LInv, Numbered, NEW id \in Nat, NEW event, Adds(id, event)
    PROVE  FramesStay
<1>1. IsLog(timeline) /\ next_frame_id \in Nat
  BY CurTypes DEF LInv
<1>2. IsLog(timeline')
  BY <1>1, AppendsFrame DEF Adds
<1>3. PICK d \in {0, 1} : GrowsBy(d, id, event)
  BY <1>1, AppendsFrame DEF Adds
<1>4. timeline'[Len(timeline')].frame_id = next_frame_id
  BY <1>3 DEF GrowsBy
<1>5. ASSUME NEW j \in DOMAIN timeline'
      PROVE  \/ j + d \in DOMAIN timeline /\ timeline'[j] = timeline[j + d]
             \/ timeline'[j].frame_id = next_frame_id
  <2>1. /\ Len(timeline) \in Nat /\ Len(timeline') = Len(timeline) + 1 - d /\ j \in 1..Len(timeline')
        /\ j < Len(timeline') =>
              j + d \in DOMAIN timeline /\ timeline'[j] = timeline[j + d]
    BY <1>1, <1>2, <1>3, GrownIndex
  <2>2. j < Len(timeline') \/ j = Len(timeline')
    BY <2>1
  <2> QED
    BY <1>4, <2>1, <2>2
<1>6. ASSUME NEW i \in DOMAIN timeline, NEW j \in DOMAIN timeline',
             timeline[i].frame_id = timeline'[j].frame_id
      PROVE  timeline'[j] = timeline[i]
  <2>1. timeline[i].frame_id \in Nat /\ timeline[i].frame_id < next_frame_id
    BY <1>1, OlderFrames
  <2>2. timeline'[j].frame_id # next_frame_id
    BY <1>1, <1>6, <2>1
  <2>3. j + d \in DOMAIN timeline /\ timeline'[j] = timeline[j + d]
    BY <1>5, <2>2
  <2>4. j + d = i
    BY <1>1, <1>6, <2>3, OneFrameOfAnId
  <2> QED
    BY <2>3, <2>4
<1>7. ASSUME NEW j \in DOMAIN timeline', timeline'[j].frame_id < next_frame_id
      PROVE  \E i \in DOMAIN timeline : timeline'[j] = timeline[i]
  <2>1. ~ (next_frame_id < next_frame_id)
    BY <1>1
  <2>2. timeline'[j].frame_id # next_frame_id
    BY <1>7, <2>1
  <2> QED
    BY <1>5, <2>2
<1> QED
  BY <1>6, <1>7 DEF FramesStay

LEMMA FramesStayStep ==
    ASSUME TInv', RInv, LInv, NInv, Recorded, HasTimeline, HasTimeline' PROVE FramesStay
<1>1. next_operation_id \in Nat /\ Cur.operation_id \in Nat /\ Numbered /\ IsLog(timeline)
  BY ActiveFacts, ResultTypes DEF RInv, LInv, NInv
<1>2. CASE timeline' = timeline
  BY <1>1, <1>2, SameFramesStay
<1>3. CASE Quiet \/ NewCall
  BY <1>2, <1>3 DEF Quiet, NewCall, capturing
<1>4. CASE NewFrame
  BY <1>1, <1>4, OlderFramesStay DEF NewFrame
<1>5. CASE MoreFrame
  BY <1>1, <1>5, OlderFramesStay DEF MoreFrame
<1> QED
  BY <1>3, <1>4, <1>5 DEF Recorded, Cleared, Opened, CreatedFrame

\* hash_inspector.c, hti_append_owned_snapshot over inspect_timeline_append: as long as a
\* session lives, the id of a frame names one frame.  Whatever is called, whatever fails and
\* whatever is evicted, a retained frame shows what it showed when it was recorded, in
\* quarantine and after it, and one that was evicted never comes back under its id.
THEOREM FramesNeverChange ==
    SessionSpec => [][HasTimeline /\ HasTimeline' => FramesStay]_allvars
<1>1. TInv /\ TInv' /\ RInv /\ LInv /\ NInv /\ [SessionNext]_allvars
      => [HasTimeline /\ HasTimeline' => FramesStay]_allvars
  <2> SUFFICES ASSUME TInv, TInv', RInv, LInv, NInv, [SessionNext]_allvars,
                      HasTimeline, HasTimeline'
               PROVE  FramesStay
    OBVIOUS
  <2> QED
    BY SessionRecords, FramesStayStep
<1> QED
  BY <1>1, NumbersKept, PTL DEF SessionSpec

=============================================================================
