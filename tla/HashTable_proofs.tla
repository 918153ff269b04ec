-------------------------- MODULE HashTable_proofs --------------------------
(***************************************************************************)
(* Proofs about HashTable, for every value of its constants: first what is *)
(* inside it, the chains, the counters and the blocks; then what the       *)
(* callers and the trace sink see, a map (ByteMap), entries that keep      *)
(* their identity, and events that describe the table; last, how many      *)
(* steps a call can take.                                                  *)
(***************************************************************************)
EXTENDS HashTable, TLAPS, FiniteSetTheorems, SequenceTheorems

-----------------------------------------------------------------------------
(* Chains. *)

\* A sequence without its element at position i.
LEMMA RemoveAtFacts ==
    ASSUME NEW S, NEW s \in Seq(S), NEW i \in DOMAIN s
    PROVE  /\ RemoveAt(s, i) \in Seq(S)
           /\ Len(RemoveAt(s, i)) = Len(s) - 1
           /\ \A j \in 1..(Len(s) - 1) :
                 RemoveAt(s, i)[j] = IF j < i THEN s[j] ELSE s[j + 1]
<1> DEFINE front == SubSeq(s, 1, i - 1)
           back  == SubSeq(s, i + 1, Len(s))
<1>1. i \in 1..Len(s) /\ Len(s) \in Nat
  OBVIOUS
<1>2. /\ front \in Seq(S)
      /\ Len(front) = i - 1
      /\ \A j \in 1..(i - 1) : front[j] = s[j]
  BY <1>1, SubSeqProperties
<1>3. /\ back \in Seq(S)
      /\ Len(back) = Len(s) - i
      /\ \A j \in 1..(Len(s) - i) : back[j] = s[i + j]
  BY <1>1, SubSeqProperties
<1>4. RemoveAt(s, i) = front \o back
  BY DEF RemoveAt
<1> HIDE DEF front, back
<1>5. /\ front \o back \in Seq(S)
      /\ Len(front \o back) = Len(s) - 1
      /\ \A j \in 1..(Len(s) - 1) :
            (front \o back)[j] = IF j <= i - 1 THEN front[j] ELSE back[j - (i - 1)]
  <2>1. /\ front \o back \in Seq(S)
        /\ Len(front \o back) = Len(front) + Len(back)
        /\ \A j \in 1..(Len(front) + Len(back)) :
              (front \o back)[j] = IF j <= Len(front) THEN front[j] ELSE back[j - Len(front)]
    BY <1>2, <1>3, ConcatProperties, Zenon
  <2>2. Len(front) + Len(back) = Len(s) - 1
    BY <1>1, <1>2, <1>3
  <2> QED
    BY <2>1, <2>2, <1>2
<1>6. \A j \in 1..(Len(s) - 1) : (front \o back)[j] = IF j < i THEN s[j] ELSE s[j + 1]
  <2> TAKE j \in 1..(Len(s) - 1)
  <2>1. CASE j < i
    BY <2>1, <1>1, <1>2, <1>5
  <2>2. CASE ~ (j < i)
    <3>1. j - (i - 1) \in 1..(Len(s) - i)
      BY <2>2, <1>1
    <3>2. back[j - (i - 1)] = s[j + 1]
      BY <3>1, <1>1, <1>3
    <3>3. ~ (j <= i - 1)
      BY <2>2, <1>1
    <3>4. (front \o back)[j] = back[j - (i - 1)]
      BY <3>3, <1>5
    <3> QED
      BY <2>2, <3>2, <3>4
  <2> QED
    BY <2>1, <2>2
<1> QED
  BY <1>4, <1>5, <1>6

\* Taking the head of a chain is removing its first element.
LEMMA TailIsRemoveAt ==
    ASSUME NEW S, NEW s \in Seq(S), s # <<>>
    PROVE  1 \in DOMAIN s /\ Head(s) = s[1] /\ Tail(s) = RemoveAt(s, 1)
<1>1. 1 \in DOMAIN s /\ Head(s) = s[1] /\ Len(s) \in Nat \ {0}
  OBVIOUS
<1>2. /\ Tail(s) \in Seq(S)
      /\ Len(Tail(s)) = Len(s) - 1
      /\ \A j \in 1..(Len(s) - 1) : Tail(s)[j] = s[j + 1]
  OBVIOUS
<1>3. /\ RemoveAt(s, 1) \in Seq(S)
      /\ Len(RemoveAt(s, 1)) = Len(s) - 1
      /\ \A j \in 1..(Len(s) - 1) : RemoveAt(s, 1)[j] = s[j + 1]
  BY <1>1, RemoveAtFacts
<1>4. Tail(s) = RemoveAt(s, 1)
  BY <1>1, <1>2, <1>3, SeqEqual
<1> QED
  BY <1>1, <1>4

-----------------------------------------------------------------------------
(* Bucket arrays. *)

\* A bucket index is within the array.
LEMMA IndexInRange ==
    ASSUME NEW hash \in Nat, NEW c \in Nat \ {0}
    PROVE  BucketIndex(hash, c) \in 0..(c - 1)
BY DEF BucketIndex

\* An array of empty chains, and an array without buckets, link nothing.
LEMMA EmptyFacts ==
    ASSUME NEW c \in Nat
    PROVE  /\ EmptyBuckets(c) \in [0..(c - 1) -> Seq(Entry)]
           /\ Linked(EmptyBuckets(c)) = {}
           /\ \A d : Placed(EmptyBuckets(c), d)
           /\ Distinct(EmptyBuckets(c))
           /\ EmptyBuckets(0) \in [{} -> Seq(Entry)]
<1>1. DOMAIN EmptyBuckets(c) = 0..(c - 1) /\ \A b \in 0..(c - 1) : EmptyBuckets(c)[b] = <<>>
  BY DEF EmptyBuckets
<1>2. DOMAIN <<>> = {}
  OBVIOUS
<1>3. EmptyBuckets(c) \in [0..(c - 1) -> Seq(Entry)] /\ EmptyBuckets(0) \in [{} -> Seq(Entry)]
  BY DEF EmptyBuckets
<1>4. Linked(EmptyBuckets(c)) = {}
  BY <1>1, <1>2 DEF Linked, ToSet
<1>5. \A d : Placed(EmptyBuckets(c), d)
  BY <1>1, <1>2 DEF Placed
<1>6. Distinct(EmptyBuckets(c))
  BY <1>1, <1>2 DEF Distinct
<1> QED
  BY <1>3, <1>4, <1>5, <1>6

\* The same of any array without buckets.
LEMMA NoArrayFacts ==
    ASSUME NEW B \in [{} -> Seq(Entry)]
    PROVE  Linked(B) = {} /\ Distinct(B) /\ \A d : Placed(B, d)
BY DEF Linked, Distinct, Placed

\* The linked entries are entries.
LEMMA LinkedType ==
    ASSUME NEW D, NEW B \in [D -> Seq(Entry)]
    PROVE  Linked(B) \subseteq Entry
<1> SUFFICES ASSUME NEW b \in D, NEW i \in DOMAIN B[b] PROVE B[b][i] \in Entry
  BY DEF Linked, ToSet
<1>1. B[b] \in Seq(Entry)
  OBVIOUS
<1> QED
  BY <1>1

\* The linked entries are those at the positions of the chains.
LEMMA LinkedMember ==
    ASSUME NEW B, NEW x
    PROVE  x \in Linked(B) <=> \E b \in DOMAIN B : \E i \in DOMAIN B[b] : x = B[b][i]
BY DEF Linked, ToSet

\* In a well-formed array an entry is determined by its key, and by its id.
LEMMA DistinctFacts ==
    ASSUME NEW B, Distinct(B), NEW x \in Linked(B), NEW y \in Linked(B),
           x.key = y.key \/ x.entry_id = y.entry_id
    PROVE  x = y
<1>1. PICK b \in DOMAIN B : \E i \in DOMAIN B[b] : x = B[b][i]
  BY LinkedMember
<1>2. PICK i \in DOMAIN B[b] : x = B[b][i]
  BY <1>1
<1>3. PICK c \in DOMAIN B : \E j \in DOMAIN B[c] : y = B[c][j]
  BY LinkedMember
<1>4. PICK j \in DOMAIN B[c] : y = B[c][j]
  BY <1>3
<1> QED
  BY <1>2, <1>4 DEF Distinct

\* B is a bucket array with indices D; C is B after one change to a chain.
IsArray(D, B) == B \in [D -> Seq(Entry)]

Links(D, B, C, b, e) == b \in D /\ C = [B EXCEPT ![b] = Cons(e, @)]

Unlinks(D, B, C, old) ==
    \E b \in D : \E i \in DOMAIN B[b] : old = B[b][i] /\ C = [B EXCEPT ![b] = RemoveAt(@, i)]

Overwrites(D, B, C, old, new) ==
    \E b \in D : \E i \in DOMAIN B[b], v \in Values :
        /\ old = B[b][i] /\ new = [old EXCEPT !.value = v]
        /\ C = [B EXCEPT ![b][i].value = v]

\* Linking an entry at the head of a chain.
LEMMA LinksFacts ==
    ASSUME NEW D, NEW B, NEW C, NEW b, NEW e \in Entry, IsArray(D, B), Links(D, B, C, b, e)
    PROVE  /\ IsArray(D, C)
           /\ Linked(C) = Linked(B) \cup {e}
           /\ \A c : Placed(B, c) /\ BucketIndex(e.hash, c) = b => Placed(C, c)
           /\ Distinct(B) /\ (\A f \in Linked(B) : f.key # e.key /\ f.entry_id # e.entry_id)
                => Distinct(C)
<1>0. B \in [D -> Seq(Entry)] /\ b \in D /\ C = [B EXCEPT ![b] = Cons(e, @)]
  BY DEF IsArray, Links
<1>1. /\ Cons(e, B[b]) \in Seq(Entry)
      /\ Len(Cons(e, B[b])) = Len(B[b]) + 1
      /\ Cons(e, B[b])[1] = e
      /\ \A i \in 1..Len(B[b]) : Cons(e, B[b])[i + 1] = B[b][i]
  <2>1. B[b] \in Seq(Entry)
    BY <1>0
  <2> QED
    BY <2>1 DEF Cons
<1>2. C \in [D -> Seq(Entry)] /\ DOMAIN B = D /\ DOMAIN C = D
  BY <1>0, <1>1
<1>3. C[b] = Cons(e, B[b]) /\ \A c \in D \ {b} : C[c] = B[c]
  BY <1>0
<1>4. \A c \in D : /\ Len(B[c]) \in Nat /\ DOMAIN B[c] = 1..Len(B[c])
                   /\ DOMAIN C[c] = 1..Len(C[c])
  BY <1>0, <1>2
<1>5. \A c \in D : \A j \in DOMAIN C[c] :
         \/ c = b /\ j = 1 /\ C[c][j] = e
         \/ c = b /\ j - 1 \in DOMAIN B[c] /\ C[c][j] = B[c][j - 1]
         \/ c # b /\ j \in DOMAIN B[c] /\ C[c][j] = B[c][j]
  <2> TAKE c \in D
  <2> TAKE j \in DOMAIN C[c]
  <2>1. CASE c # b
    BY <2>1, <1>3
  <2>2. CASE c = b /\ j = 1
    BY <2>2, <1>1, <1>3
  <2>3. CASE c = b /\ j # 1
    <3>1. j - 1 \in 1..Len(B[b]) /\ (j - 1) + 1 = j
      BY <2>3, <1>1, <1>3, <1>4
    <3> QED
      BY <3>1, <2>3, <1>1, <1>3, <1>4
  <2> QED
    BY <2>1, <2>2, <2>3
<1>6. Linked(C) = Linked(B) \cup {e}
  <2>1. ASSUME NEW x \in Linked(C) PROVE x \in Linked(B) \cup {e}
    <3>1. PICK c \in D : \E j \in DOMAIN C[c] : x = C[c][j]
      BY <1>2 DEF Linked, ToSet
    <3>2. PICK j \in DOMAIN C[c] : x = C[c][j]
      BY <3>1
    <3>3. x = e \/ \E k \in DOMAIN B[c] : x = B[c][k]
      BY <3>2, <1>5
    <3> QED
      BY <3>3, <1>2, LinkedMember
  <2>2. e \in Linked(C)
    <3>1. 1 \in DOMAIN C[b] /\ C[b][1] = e
      BY <1>1, <1>3, <1>4
    <3> QED
      BY <3>1, <1>0, <1>2, LinkedMember
  <2>3. ASSUME NEW x \in Linked(B) PROVE x \in Linked(C)
    <3>1. PICK c \in D : \E i \in DOMAIN B[c] : x = B[c][i]
      BY <1>2, LinkedMember
    <3>2. PICK i \in DOMAIN B[c] : x = B[c][i]
      BY <3>1
    <3>3. CASE c # b
      BY <3>2, <3>3, <1>2, <1>3, LinkedMember
    <3>4. CASE c = b
      <4>1. i + 1 \in DOMAIN C[b] /\ C[b][i + 1] = x
        BY <3>2, <3>4, <1>1, <1>3, <1>4
      <4> QED
        BY <4>1, <1>0, <1>2, LinkedMember
    <3> QED
      BY <3>3, <3>4
  <2> QED
    BY <2>1, <2>2, <2>3
<1>7. ASSUME NEW c, Placed(B, c), BucketIndex(e.hash, c) = b PROVE Placed(C, c)
  BY <1>2, <1>5, <1>7 DEF Placed
<1>8. ASSUME Distinct(B), \A f \in Linked(B) : f.key # e.key /\ f.entry_id # e.entry_id
      PROVE  Distinct(C)
  <2>1. \A c \in D : \A i \in DOMAIN B[c] : B[c][i].key # e.key /\ B[c][i].entry_id # e.entry_id
    BY <1>2, <1>8, LinkedMember
  <2> SUFFICES ASSUME NEW c \in D, NEW d \in D, NEW i \in DOMAIN C[c], NEW j \in DOMAIN C[d],
                      C[c][i].key = C[d][j].key \/ C[c][i].entry_id = C[d][j].entry_id
               PROVE  c = d /\ i = j
    BY <1>2 DEF Distinct
  <2>2. i \in Nat /\ j \in Nat
    BY <1>4
  <2>3. CASE c = b /\ i = 1
    <3>1. C[c][i] = e
      BY <2>3, <1>1, <1>3
    <3> QED
      BY <3>1, <2>1, <2>2, <2>3, <1>5
  <2>4. CASE d = b /\ j = 1
    <3>1. C[d][j] = e
      BY <2>4, <1>1, <1>3
    <3> QED
      BY <3>1, <2>1, <2>2, <2>4, <1>5
  <2>5. CASE ~ (c = b /\ i = 1) /\ ~ (d = b /\ j = 1)
    <3>1. PICK p \in DOMAIN B[c] : C[c][i] = B[c][p] /\ p = IF c = b THEN i - 1 ELSE i
      BY <2>2, <2>5, <1>5
    <3>2. PICK q \in DOMAIN B[d] : C[d][j] = B[d][q] /\ q = IF d = b THEN j - 1 ELSE j
      BY <2>2, <2>5, <1>5
    <3>3. c = d /\ p = q
      BY <3>1, <3>2, <1>2, <1>8 DEF Distinct
    <3> QED
      BY <2>2, <3>1, <3>2, <3>3
  <2> QED
    BY <2>3, <2>4, <2>5
<1> QED
  BY <1>2, <1>6, <1>7, <1>8 DEF IsArray

\* Unlinking an entry.
LEMMA UnlinksFacts ==
    ASSUME NEW D, NEW B, NEW C, NEW old, IsArray(D, B), Unlinks(D, B, C, old)
    PROVE  /\ IsArray(D, C)
           /\ old \in Linked(B)
           /\ \A c : Placed(B, c) => Placed(C, c)
           /\ Distinct(B) => Distinct(C) /\ Linked(C) = Linked(B) \ {old}
<1>0. B \in [D -> Seq(Entry)]
  BY DEF IsArray
<1> PICK b \in D : \E i \in DOMAIN B[b] :
        old = B[b][i] /\ C = [B EXCEPT ![b] = RemoveAt(@, i)]
  BY DEF Unlinks
<1> PICK i \in DOMAIN B[b] : old = B[b][i] /\ C = [B EXCEPT ![b] = RemoveAt(@, i)]
  OBVIOUS
<1>1. /\ RemoveAt(B[b], i) \in Seq(Entry)
      /\ Len(RemoveAt(B[b], i)) = Len(B[b]) - 1
      /\ \A j \in 1..(Len(B[b]) - 1) :
             RemoveAt(B[b], i)[j] = IF j < i THEN B[b][j] ELSE B[b][j + 1]
  <2>1. B[b] \in Seq(Entry)
    BY <1>0
  <2> QED
    BY ZenonT(60), <2>1, RemoveAtFacts
<1>2. C \in [D -> Seq(Entry)] /\ DOMAIN B = D /\ DOMAIN C = D
  BY <1>0, <1>1
<1>3. C[b] = RemoveAt(B[b], i) /\ \A c \in D \ {b} : C[c] = B[c]
  BY <1>0
<1>4. \A c \in D : /\ Len(B[c]) \in Nat /\ DOMAIN B[c] = 1..Len(B[c])
                   /\ DOMAIN C[c] = 1..Len(C[c])
  BY <1>0, <1>2
<1>5. \A c \in D : \A j \in DOMAIN C[c] :
         \/ c = b /\ j < i /\ j \in DOMAIN B[c] /\ C[c][j] = B[c][j]
         \/ c = b /\ j >= i /\ j + 1 \in DOMAIN B[c] /\ C[c][j] = B[c][j + 1]
         \/ c # b /\ j \in DOMAIN B[c] /\ C[c][j] = B[c][j]
  <2> TAKE c \in D
  <2> TAKE j \in DOMAIN C[c]
  <2>1. CASE c # b
    BY <2>1, <1>3
  <2>2. CASE c = b
    <3>1. /\ j \in 1..(Len(B[b]) - 1) /\ i \in Nat /\ Len(B[b]) \in Nat
          /\ C[c][j] = IF j < i THEN B[b][j] ELSE B[b][j + 1]
      BY <2>2, <1>1, <1>3, <1>4
    <3> QED
      BY <3>1, <2>2, <1>4
  <2> QED
    BY <2>1, <2>2
<1>6. B[b][i] \in Linked(B)
  BY <1>2, LinkedMember
<1>7. ASSUME NEW c, Placed(B, c) PROVE Placed(C, c)
  BY <1>2, <1>5, <1>7 DEF Placed
<1>8. ASSUME Distinct(B) PROVE Distinct(C)
  <2> SUFFICES ASSUME NEW c \in D, NEW d \in D, NEW j \in DOMAIN C[c], NEW k \in DOMAIN C[d],
                      C[c][j].key = C[d][k].key \/ C[c][j].entry_id = C[d][k].entry_id
               PROVE  c = d /\ j = k
    BY <1>2 DEF Distinct
  <2>1. j \in Nat /\ k \in Nat /\ i \in Nat
    BY <1>4
  <2>2. PICK p \in DOMAIN B[c] :
            /\ C[c][j] = B[c][p]
            /\ p = IF c = b /\ j >= i THEN j + 1 ELSE j
    BY <2>1, <1>5
  <2>3. PICK q \in DOMAIN B[d] :
            /\ C[d][k] = B[d][q]
            /\ q = IF d = b /\ k >= i THEN k + 1 ELSE k
    BY <2>1, <1>5
  <2>4. c = d /\ p = q
    BY <2>2, <2>3, <1>2, <1>8 DEF Distinct
  <2> QED
    BY <2>1, <2>2, <2>3, <2>4
<1>9. ASSUME Distinct(B) PROVE Linked(C) = Linked(B) \ {B[b][i]}
  <2>1. ASSUME NEW x \in Linked(C) PROVE x \in Linked(B) /\ x # B[b][i]
    <3>1. PICK c \in D : \E j \in DOMAIN C[c] : x = C[c][j]
      BY <1>2 DEF Linked, ToSet
    <3>2. PICK j \in DOMAIN C[c] : x = C[c][j]
      BY <3>1
    <3>3. PICK k \in DOMAIN B[c] : x = B[c][k] /\ ~ (c = b /\ k = i)
      BY <3>2, <1>4, <1>5
    <3> QED
      BY <3>3, <1>2, <1>9, LinkedMember DEF Distinct
  <2>2. ASSUME NEW x \in Linked(B), x # B[b][i] PROVE x \in Linked(C)
    <3>1. PICK c \in D : \E j \in DOMAIN B[c] : x = B[c][j]
      BY <1>2, LinkedMember
    <3>2. PICK j \in DOMAIN B[c] : x = B[c][j]
      BY <3>1
    <3>3. CASE c # b
      BY <3>2, <3>3, <1>2, <1>3, LinkedMember
    <3>4. CASE c = b /\ j < i
      <4>1. j \in DOMAIN C[b] /\ C[b][j] = x
        BY <3>2, <3>4, <1>1, <1>3, <1>4
      <4> QED
        BY <4>1, <1>2, LinkedMember
    <3>5. CASE c = b /\ j > i
      <4>1. j - 1 \in 1..(Len(B[b]) - 1) /\ ~ (j - 1 < i) /\ (j - 1) + 1 = j
        BY <3>2, <3>5, <1>4
      <4>2. RemoveAt(B[b], i)[j - 1] = B[b][j]
        BY <4>1, <1>1
      <4>3. j - 1 \in DOMAIN C[b]
        BY <4>1, <1>1, <1>3, <1>4
      <4>4. C[b][j - 1] = x
        BY <4>2, <3>2, <3>5, <1>3
      <4> QED
        BY <4>3, <4>4, <1>2, LinkedMember
    <3> QED
      BY <2>2, <3>2, <3>3, <3>4, <3>5, <1>4
  <2> QED
    BY <2>1, <2>2
<1> QED
  BY <1>2, <1>6, <1>7, <1>8, <1>9 DEF IsArray

\* Overwriting the value of an entry where it is.
LEMMA OverwritesFacts ==
    ASSUME NEW D, NEW B, NEW C, NEW old, NEW new, IsArray(D, B), Overwrites(D, B, C, old, new)
    PROVE  /\ IsArray(D, C)
           /\ old \in Linked(B) /\ old \in Entry /\ new \in Entry
           /\ new.entry_id = old.entry_id /\ new.key = old.key /\ new.hash = old.hash
           /\ \A c : Placed(B, c) => Placed(C, c)
           /\ Distinct(B) => /\ Distinct(C)
                             /\ Linked(C) = (Linked(B) \ {old}) \cup {new}
                             /\ new \notin Linked(B) \ {old}
<1>0. B \in [D -> Seq(Entry)]
  BY DEF IsArray
<1> PICK b \in D : \E i \in DOMAIN B[b], v \in Values :
        /\ old = B[b][i] /\ new = [old EXCEPT !.value = v]
        /\ C = [B EXCEPT ![b][i].value = v]
  BY DEF Overwrites
<1> PICK i \in DOMAIN B[b], v \in Values :
        /\ old = B[b][i] /\ new = [old EXCEPT !.value = v]
        /\ C = [B EXCEPT ![b][i].value = v]
  OBVIOUS
<1>1. old \in Entry /\ B[b] \in Seq(Entry) /\ i \in 1..Len(B[b])
  BY <1>0
<1>2. /\ new \in Entry
      /\ new.entry_id = old.entry_id /\ new.key = old.key /\ new.hash = old.hash
  BY <1>1 DEF Entry
<1>3. C = [B EXCEPT ![b] = [B[b] EXCEPT ![i] = new]]
  BY <1>0
<1>4. [B[b] EXCEPT ![i] = new] \in Seq(Entry)
  BY <1>1, <1>2, ExceptSeq
<1>5. C \in [D -> Seq(Entry)] /\ DOMAIN B = D /\ DOMAIN C = D
  BY <1>0, <1>3, <1>4
<1>6. \A c \in D : /\ DOMAIN C[c] = DOMAIN B[c]
                   /\ \A j \in DOMAIN B[c] :
                         C[c][j] = IF c = b /\ j = i THEN new ELSE B[c][j]
  <2>1. C[b] = [B[b] EXCEPT ![i] = new] /\ \A c \in D \ {b} : C[c] = B[c]
    BY <1>0, <1>3
  <2> QED
    BY SMTT(30), <2>1, <1>1
<1>7. old \in Linked(B)
  BY <1>5, LinkedMember
<1>8. \A c \in D : \A j \in DOMAIN B[c] :
         /\ C[c][j].key = B[c][j].key
         /\ C[c][j].entry_id = B[c][j].entry_id
         /\ C[c][j].hash = B[c][j].hash
  BY <1>2, <1>6
<1>9. ASSUME NEW c, Placed(B, c) PROVE Placed(C, c)
  BY <1>5, <1>6, <1>8, <1>9 DEF Placed
<1>10. ASSUME Distinct(B) PROVE Distinct(C)
  <2> SUFFICES ASSUME NEW c \in D, NEW d \in D, NEW j \in DOMAIN C[c], NEW k \in DOMAIN C[d],
                      C[c][j].key = C[d][k].key \/ C[c][j].entry_id = C[d][k].entry_id
               PROVE  c = d /\ j = k
    BY <1>5 DEF Distinct
  <2>1. j \in DOMAIN B[c] /\ k \in DOMAIN B[d]
    BY <1>6
  <2>2. B[c][j].key = B[d][k].key \/ B[c][j].entry_id = B[d][k].entry_id
    BY <2>1, <1>8
  <2> QED
    BY <2>1, <2>2, <1>5, <1>10 DEF Distinct
<1>11. ASSUME Distinct(B) PROVE Linked(C) = (Linked(B) \ {old}) \cup {new}
  <2>1. ASSUME NEW x \in Linked(C) PROVE x \in (Linked(B) \ {old}) \cup {new}
    <3>1. PICK c \in D : \E j \in DOMAIN C[c] : x = C[c][j]
      BY <1>5 DEF Linked, ToSet
    <3>2. PICK j \in DOMAIN B[c] : x = C[c][j]
      BY <3>1, <1>6
    <3>3. CASE c = b /\ j = i
      BY <3>2, <3>3, <1>6
    <3>4. CASE ~ (c = b /\ j = i)
      <4>1. x = B[c][j]
        BY <3>2, <3>4, <1>6
      <4>2. x # old
        BY <4>1, <3>4, <1>5, <1>11 DEF Distinct
      <4> QED
        BY <4>1, <4>2, <1>5, LinkedMember
    <3> QED
      BY <3>3, <3>4
  <2>2. new \in Linked(C)
    <3>1. i \in DOMAIN C[b] /\ C[b][i] = new
      BY <1>6
    <3> QED
      BY <3>1, <1>5, LinkedMember
  <2>3. ASSUME NEW x \in Linked(B), x # old PROVE x \in Linked(C)
    <3>1. PICK c \in D : \E j \in DOMAIN B[c] : x = B[c][j]
      BY <1>5, LinkedMember
    <3>2. PICK j \in DOMAIN B[c] : x = B[c][j]
      BY <3>1
    <3>3. j \in DOMAIN C[c] /\ C[c][j] = x
      BY <3>2, <2>3, <1>6
    <3> QED
      BY <3>3, <1>5, LinkedMember
  <2> QED
    BY <2>1, <2>2, <2>3
<1>12. ASSUME Distinct(B), NEW f \in Linked(B), f # old PROVE f # new
  <2>1. PICK c \in D : \E j \in DOMAIN B[c] : f = B[c][j]
    BY <1>5 DEF Linked, ToSet
  <2>2. PICK j \in DOMAIN B[c] : f = B[c][j]
    BY <2>1
  <2>3. f.key # old.key
    BY <2>2, <1>12, <1>5 DEF Distinct
  <2> QED
    BY <2>3, <1>2
<1> QED
  BY <1>1, <1>2, <1>5, <1>7, <1>9, <1>10, <1>11, <1>12 DEF IsArray

-----------------------------------------------------------------------------
(* The inductive invariant: the invariants that are checked need each other    *)
(* (the size stays a natural number because it counts the chains, the chains   *)
(* have no duplicate because ids are below next_entry_id), and the cardinality *)
(* of a set tells something only when the set is finite.                       *)

Counted ==
    /\ IsFiniteSet(Linked(buckets))
    /\ IsFiniteSet(Linked(new_buckets))
    /\ SizeCounts
    /\ NoLeak

IInv == TypeOK /\ WellFormed /\ Counted /\ LoadBounded

\* All that the invariant speaks of.
state == <<table, rehash, pc, entry, live_blocks>>

\* The invariant speaks of nothing but the state.
LEMMA Unchanged == ASSUME IInv, UNCHANGED state PROVE IInv'
<1>1. /\ buckets' = buckets /\ size' = size /\ capacity' = capacity
      /\ resize_threshold' = resize_threshold /\ revision' = revision
      /\ next_entry_id' = next_entry_id /\ new_buckets' = new_buckets
      /\ new_capacity' = new_capacity /\ moved_count' = moved_count /\ pc' = pc
      /\ entry' = entry /\ live_blocks' = live_blocks
  BY DEF state, table, rehash
<1>2. Linked(buckets)' = Linked(buckets) /\ Linked(new_buckets)' = Linked(new_buckets)
  BY <1>1 DEF Linked
<1>3. TypeOK'
  BY <1>1 DEF IInv, TypeOK, Alive
<1>4. /\ Placed(buckets, capacity)' /\ Placed(new_buckets, new_capacity)'
      /\ Distinct(buckets)' /\ Distinct(new_buckets)'
  BY <1>1 DEF IInv, WellFormed, Placed, Distinct
<1>5. WellFormed'
  BY <1>1, <1>2, <1>4 DEF IInv, WellFormed, Contents
<1>6. Counted'
  BY <1>1, <1>2 DEF IInv, Counted, SizeCounts, NoLeak
<1>7. LoadBounded'
  BY <1>1 DEF IInv, LoadBounded
<1> QED
  BY <1>3, <1>5, <1>6, <1>7 DEF IInv

\* Outside of a rehash there is no second array.
LEMMA OneArray ==
    ASSUME IInv, pc # "relink"
    PROVE  /\ new_buckets \in [{} -> Seq(Entry)]
           /\ Linked(new_buckets) = {}
           /\ Contents = Linked(buckets)
           /\ size = Cardinality(Linked(buckets)) /\ moved_count = 0
           /\ size \in Nat
<1>1. new_buckets \in [{} -> Seq(Entry)]
  BY DEF IInv, TypeOK
<1>2. Linked(new_buckets) = {}
  BY <1>1, NoArrayFacts
<1>3. Cardinality(Linked(new_buckets)) = 0
  BY <1>2, FS_EmptySet
<1>4. Cardinality(Linked(buckets)) \in Nat
  BY FS_CardinalityType DEF IInv, Counted
<1>5. size = Cardinality(Linked(buckets)) /\ moved_count = 0
  BY <1>3, <1>4 DEF IInv, Counted, SizeCounts
<1> QED
  BY <1>1, <1>2, <1>4, <1>5 DEF Contents

LEMMA InitStep == Init => IInv
<1> SUFFICES ASSUME Init PROVE IInv
  OBVIOUS
<1>1. /\ buckets = EmptyBuckets(0) /\ new_buckets = EmptyBuckets(0)
      /\ size = 0 /\ capacity = 0 /\ resize_threshold = 0 /\ revision = 0 /\ next_entry_id = 0
      /\ new_capacity = 0 /\ moved_count = 0 /\ pc = "absent" /\ entry = NULL /\ live_blocks = 0
  BY DEF Init
<1>2. TypeOK
  BY <1>1, EmptyFacts, LimitAssumption DEF TypeOK, PCs, Alive
<1>3. Linked(buckets) = {} /\ Linked(new_buckets) = {}
  BY <1>1, EmptyFacts
<1>4. WellFormed
  BY <1>1, <1>3, EmptyFacts DEF WellFormed, Contents
<1>5. Counted
  BY <1>1, <1>3, FS_EmptySet DEF Counted, SizeCounts, NoLeak
<1>6. LoadBounded
  BY <1>1 DEF LoadBounded, ThresholdFor
<1> QED
  BY <1>2, <1>4, <1>5, <1>6 DEF IInv

LEMMA CreateTableStep == ASSUME IInv, NEW r \in Requests, CreateTable(r) PROVE IInv'
<1>1. PICK c \in Capacities : new_capacity' = c
  BY DEF CreateTable
<1>2. new_capacity' \in Nat /\ new_capacity' > 0
  BY <1>1, LimitAssumption DEF Capacities
<1>3. /\ pc = "absent" /\ pc' = "create" /\ live_blocks' = live_blocks + 1
      /\ UNCHANGED <<buckets, size, capacity, resize_threshold, revision, next_entry_id,
                     new_buckets, moved_count, entry>>
  BY DEF CreateTable, table
<1>4. Linked(buckets) = Linked(buckets)' /\ Linked(new_buckets) = Linked(new_buckets)'
  BY <1>3 DEF Linked
<1>5. TypeOK'
  BY <1>2, <1>3 DEF IInv, TypeOK, PCs, Alive
<1>6. WellFormed'
  <2>1. new_buckets' \in [{} -> Seq(Entry)]
    BY <1>3, OneArray
  <2>2. Placed(new_buckets, new_capacity)' /\ Distinct(new_buckets)'
    BY <2>1, NoArrayFacts DEF Placed, Distinct
  <2> QED
    BY <2>2, <1>3, <1>4 DEF IInv, WellFormed, Placed, Distinct, Contents
<1>7. Counted'
  BY <1>3, <1>4, FS_CardinalityType DEF IInv, TypeOK, Counted, SizeCounts, NoLeak
<1>8. LoadBounded'
  BY <1>3 DEF IInv, LoadBounded
<1> QED
  BY <1>5, <1>6, <1>7, <1>8 DEF IInv

LEMMA CreateFailsStep == ASSUME IInv, CreateFails PROVE IInv'
<1>1. /\ pc = "create" /\ pc' = "absent" /\ live_blocks' = live_blocks - 1 /\ new_capacity' = 0
      /\ UNCHANGED <<buckets, size, capacity, resize_threshold, revision, next_entry_id,
                     new_buckets, moved_count, entry>>
  BY DEF CreateFails, table
<1>2. Linked(buckets) = Linked(buckets)' /\ Linked(new_buckets) = Linked(new_buckets)'
  BY <1>1 DEF Linked
<1>3. TypeOK'
  BY <1>1 DEF IInv, TypeOK, PCs, Alive
<1>4. WellFormed'
  <2>1. new_buckets' \in [{} -> Seq(Entry)]
    BY <1>1, OneArray
  <2>2. Placed(new_buckets, new_capacity)' /\ Distinct(new_buckets)'
    BY <2>1, NoArrayFacts DEF Placed, Distinct
  <2> QED
    BY <2>2, <1>1, <1>2 DEF IInv, WellFormed, Placed, Distinct, Contents
<1>5. Counted'
  BY SMTT(30), <1>1, <1>2, FS_CardinalityType DEF IInv, TypeOK, Counted, SizeCounts, NoLeak
<1>6. LoadBounded'
  BY <1>1 DEF IInv, LoadBounded
<1> QED
  BY <1>3, <1>4, <1>5, <1>6 DEF IInv

\* The threshold is a natural number, and a larger table has no smaller one.
LEMMA ThresholdFacts ==
    ASSUME NEW c \in Nat
    PROVE  /\ ThresholdFor(c) \in Nat
           /\ \A d \in Nat : c < d => ThresholdFor(c) <= ThresholdFor(d)
           /\ c > 0 => ThresholdFor(c) < ThresholdFor(2 * c)
BY DEF ThresholdFor

LEMMA CreateBucketsStep == ASSUME IInv, CreateBuckets PROVE IInv'
<1>1. /\ pc = "create" /\ pc' = "ready" /\ buckets' = EmptyBuckets(new_capacity)
      /\ capacity' = new_capacity /\ resize_threshold' = ThresholdFor(new_capacity)
      /\ size' = 0 /\ revision' = 0 /\ next_entry_id' = 1 /\ new_capacity' = 0
      /\ live_blocks' = live_blocks + 1
      /\ UNCHANGED <<new_buckets, moved_count, entry>>
  BY DEF CreateBuckets
<1>2. new_capacity \in Nat /\ new_capacity > 0 /\ entry = NULL
  BY <1>1 DEF IInv, TypeOK
<1>3. new_buckets' \in [{} -> Seq(Entry)] /\ moved_count = 0
  BY <1>1, OneArray
<1>4. TypeOK'
  <2>1. buckets' \in [0..(capacity' - 1) -> Seq(Entry)]
    BY <1>1, <1>2, EmptyFacts
  <2>2. resize_threshold' \in Nat /\ 0 \in 0..U64Max /\ 1 \in 0..U64Max
    BY <1>1, <1>2, ThresholdFacts, LimitAssumption
  <2> QED
    BY <1>1, <1>2, <1>3, <2>1, <2>2 DEF IInv, TypeOK, PCs, Alive
<1>5. /\ Linked(buckets') = {} /\ Linked(new_buckets') = {}
      /\ Placed(buckets', capacity') /\ Placed(new_buckets', new_capacity')
      /\ Distinct(buckets') /\ Distinct(new_buckets')
  BY <1>1, <1>2, <1>3, EmptyFacts, NoArrayFacts
<1>6. WellFormed'
  BY <1>1, <1>2, <1>5 DEF WellFormed, Contents
<1>7. Linked(buckets) = {} /\ Linked(new_buckets) = {}
  BY <1>1, OneArray, NoArrayFacts DEF IInv, TypeOK
<1>8. Counted'
  BY <1>1, <1>2, <1>3, <1>5, <1>7, FS_EmptySet DEF IInv, Counted, SizeCounts, NoLeak
<1>9. LoadBounded'
  BY <1>1, <1>2, ThresholdFacts DEF LoadBounded
<1> QED
  BY <1>4, <1>6, <1>8, <1>9 DEF IInv

LEMMA DestroyStep == ASSUME IInv, Destroy PROVE IInv'
<1>1. /\ pc = "ready" /\ pc' = "absent" /\ buckets' = EmptyBuckets(0)
      /\ size' = 0 /\ capacity' = 0 /\ resize_threshold' = 0 /\ revision' = 0 /\ next_entry_id' = 0
      /\ live_blocks' = live_blocks - (Cardinality(Linked(buckets)) + 2)
      /\ UNCHANGED <<new_buckets, new_capacity, moved_count, entry>>
  BY DEF Destroy, rehash
<1>2. /\ new_buckets' \in [{} -> Seq(Entry)] /\ moved_count = 0 /\ entry = NULL
      /\ new_capacity = 0 /\ Linked(new_buckets) = {}
  BY <1>1, OneArray DEF IInv, TypeOK
<1>3. TypeOK'
  BY <1>1, <1>2, EmptyFacts, LimitAssumption DEF IInv, TypeOK, PCs, Alive
<1>4. /\ Linked(buckets') = {} /\ Linked(new_buckets') = {}
      /\ Placed(buckets', capacity') /\ Placed(new_buckets', new_capacity')
      /\ Distinct(buckets') /\ Distinct(new_buckets')
  BY <1>1, <1>2, EmptyFacts, NoArrayFacts
<1>5. WellFormed'
  BY <1>1, <1>2, <1>4 DEF WellFormed, Contents
<1>6. Counted'
  <2>1. Cardinality(Linked(buckets)) \in Nat /\ Cardinality({}) = 0 /\ IsFiniteSet({})
    BY FS_EmptySet, FS_CardinalityType DEF IInv, Counted
  <2>2. live_blocks = 2 + Cardinality(Linked(buckets))
    BY <1>1, <1>2, <2>1 DEF IInv, Counted, NoLeak
  <2>3. live_blocks' = 0
    BY <1>1, <2>1, <2>2
  <2>4. Cardinality(Linked(buckets')) = 0 /\ Cardinality(Linked(new_buckets')) = 0
        /\ IsFiniteSet(Linked(buckets')) /\ IsFiniteSet(Linked(new_buckets'))
    BY <1>4, <2>1
  <2>5. SizeCounts' /\ NoLeak'
    BY <1>1, <1>2, <2>3, <2>4 DEF SizeCounts, NoLeak
  <2> QED
    BY <2>4, <2>5 DEF Counted
<1>7. LoadBounded'
  BY <1>1 DEF LoadBounded, ThresholdFor
<1> QED
  BY <1>3, <1>5, <1>6, <1>7 DEF IInv

\* Adding an entry that is not linked, and removing one that is.
LEMMA CountFacts ==
    ASSUME NEW S, IsFiniteSet(S), NEW x
    PROVE  /\ Cardinality(S) \in Nat
           /\ IsFiniteSet(S \cup {x}) /\ IsFiniteSet(S \ {x})
           /\ x \notin S => Cardinality(S \cup {x}) = Cardinality(S) + 1
           /\ x \in S => Cardinality(S \ {x}) = Cardinality(S) - 1 /\ Cardinality(S) > 0
<1>1. Cardinality(S) \in Nat
  BY FS_CardinalityType
<1>2. x \in S => Cardinality(S) # 0
  BY FS_EmptySet
<1> QED
  BY <1>1, <1>2, FS_AddElement, FS_RemoveElement

\* A table that a caller can use.
LEMMA ReadyFacts ==
    ASSUME IInv, pc \in {"ready", "grow", "link", "relink"}
    PROVE  /\ capacity \in Nat \ {0}
           /\ next_entry_id \in Nat \ {0}
           /\ \A k \in Keys : Hash[k] \in Nat /\ BucketIndex(Hash[k], capacity) \in 0..(capacity - 1)
<1>1. capacity \in Nat \ {0} /\ next_entry_id \in Nat \ {0}
  BY LimitAssumption DEF IInv, TypeOK, Alive
<1>2. \A k \in Keys : Hash[k] \in Nat
  BY HashAssumption
<1> QED
  BY <1>1, <1>2, IndexInRange

\* The revision stays in its range.
LEMMA BumpStep == ASSUME IInv, Bump PROVE revision' \in 0..U64Max
BY LimitAssumption DEF IInv, TypeOK, Bump

LEMMA PutUpdatesStep ==
    ASSUME IInv, NEW k \in Keys, NEW v \in Values, PutUpdates(k, v) PROVE IInv'
<1> DEFINE b == BucketIndex(Hash[k], capacity)
<1>1. /\ pc = "ready" /\ pc' = pc /\ Bump
      /\ UNCHANGED <<size, capacity, resize_threshold, next_entry_id, live_blocks,
                     new_buckets, new_capacity, moved_count, entry>>
  BY DEF PutUpdates, Idle, rehash
<1>2. PICK i \in DOMAIN buckets[b] : buckets' = [buckets EXCEPT ![b][i].value = v]
  BY DEF PutUpdates
<1>3. b \in 0..(capacity - 1) /\ IsArray(0..(capacity - 1), buckets)
  BY <1>1, ReadyFacts DEF IInv, TypeOK, IsArray
<1>4. PICK old, new : Overwrites(0..(capacity - 1), buckets, buckets', old, new)
  BY <1>2, <1>3 DEF Overwrites
<1>5. /\ IsArray(0..(capacity - 1), buckets')
      /\ old \in Linked(buckets) /\ old \in Entry
      /\ new.entry_id = old.entry_id /\ new.key = old.key /\ new.hash = old.hash
      /\ \A c : Placed(buckets, c) => Placed(buckets', c)
      /\ Distinct(buckets')
      /\ Linked(buckets') = (Linked(buckets) \ {old}) \cup {new}
      /\ new \notin Linked(buckets) \ {old}
  BY <1>3, <1>4, OverwritesFacts DEF IInv, WellFormed
<1>6. Linked(new_buckets') = {} /\ Linked(new_buckets) = {} /\ Contents = Linked(buckets)
      /\ Contents' = Linked(buckets') /\ entry = NULL
  BY <1>1, OneArray DEF Contents, IInv, TypeOK
<1>7. TypeOK'
  BY <1>1, <1>5, BumpStep DEF IInv, TypeOK, Alive, IsArray
<1>8. WellFormed'
  <2>1. /\ Placed(buckets', capacity') /\ Placed(new_buckets', new_capacity')
        /\ Distinct(buckets') /\ Distinct(new_buckets')
    BY <1>1, <1>5 DEF IInv, WellFormed
  <2>2. \A e \in Contents' : e.hash = Hash[e.key] /\ e.entry_id \in 1..(next_entry_id - 1)
    BY <1>5, <1>6 DEF IInv, WellFormed
  <2> QED
    BY <1>1, <1>6, <2>1, <2>2 DEF WellFormed
<1>9. Counted'
  <2>1. IsFiniteSet(Linked(buckets))
    BY DEF IInv, Counted
  <2>3. /\ IsFiniteSet(Linked(buckets'))
        /\ Cardinality(Linked(buckets')) = Cardinality(Linked(buckets))
    <3> DEFINE rest == Linked(buckets) \ {old}
    <3>1. IsFiniteSet(rest) /\ Cardinality(rest) = Cardinality(Linked(buckets)) - 1
          /\ Cardinality(Linked(buckets)) \in Nat
      BY <2>1, <1>5, CountFacts
    <3>2. new \notin rest /\ Linked(buckets') = rest \cup {new}
      BY <1>5
    <3> HIDE DEF rest
    <3>3. IsFiniteSet(rest \cup {new}) /\ Cardinality(rest \cup {new}) = Cardinality(rest) + 1
      BY <3>1, <3>2, CountFacts
    <3> QED
      BY <3>1, <3>2, <3>3
  <2> QED
    BY <2>3, <1>1, <1>6 DEF IInv, Counted, SizeCounts, NoLeak
<1>10. LoadBounded'
  BY <1>1 DEF IInv, LoadBounded
<1> QED
  BY <1>7, <1>8, <1>9, <1>10 DEF IInv

LEMMA PutAllocatesStep ==
    ASSUME IInv, NEW k \in Keys, NEW v \in Values, PutAllocates(k, v) PROVE IInv'
<1>1. /\ pc = "ready" /\ Missing(k) /\ next_entry_id # U64Max
      /\ entry' = NewEntry(k, v) /\ live_blocks' = live_blocks + 1
      /\ pc' = IF MustGrow THEN "grow" ELSE "link"
      /\ UNCHANGED <<buckets, size, capacity, resize_threshold, revision, next_entry_id,
                     new_buckets, new_capacity, moved_count>>
  BY DEF PutAllocates, CanInsert, table, rehash
<1>2. /\ new_buckets \in [{} -> Seq(Entry)] /\ Contents = Linked(buckets) /\ entry = NULL
      /\ size \in Nat /\ capacity \in Nat \ {0}
  BY <1>1, OneArray, ReadyFacts DEF IInv, TypeOK
<1>3. /\ entry' \in Entry /\ entry' # NULL
      /\ entry'.key = k /\ entry'.hash = Hash[k] /\ entry'.entry_id = next_entry_id
  BY <1>1, ReadyFacts, NullAssumption DEF NewEntry, Entry
<1>4. Linked(buckets') = Linked(buckets) /\ Linked(new_buckets') = Linked(new_buckets)
      /\ Contents' = Contents
  BY <1>1 DEF Contents
<1>5. TypeOK'
  BY <1>1, <1>2, <1>3 DEF IInv, TypeOK, PCs, Alive
<1>6. \A e \in Contents : e.key # k
  <2> SUFFICES ASSUME NEW e \in Linked(buckets), e.key = k PROVE FALSE
    BY <1>2
  <2>1. buckets \in [0..(capacity - 1) -> Seq(Entry)]
    BY DEF IInv, TypeOK
  <2>2. PICK b \in 0..(capacity - 1) : \E i \in DOMAIN buckets[b] : e = buckets[b][i]
    BY <2>1 DEF Linked, ToSet
  <2>3. PICK i \in DOMAIN buckets[b] : e = buckets[b][i]
    BY <2>2
  <2>4. e.hash = Hash[k]
    BY <1>2 DEF IInv, WellFormed
  <2>5. b = BucketIndex(Hash[k], capacity)
    BY <2>1, <2>3, <2>4 DEF IInv, WellFormed, Placed
  <2> QED
    BY <1>1, <2>3, <2>4, <2>5 DEF Missing, Chain, Matches
<1>7. WellFormed'
  <2>1. /\ Placed(buckets', capacity') /\ Placed(new_buckets', new_capacity')
        /\ Distinct(buckets') /\ Distinct(new_buckets')
    BY <1>1 DEF IInv, WellFormed
  <2>2. next_entry_id < U64Max
    BY <1>1, LimitAssumption DEF IInv, TypeOK
  <2> QED
    BY <1>1, <1>3, <1>4, <1>6, <2>1, <2>2 DEF IInv, WellFormed
<1>8. Counted'
  BY <1>1, <1>2, <1>3, <1>4, FS_CardinalityType DEF IInv, Counted, SizeCounts, NoLeak
<1>9. LoadBounded'
  BY <1>1, <1>2, <1>3 DEF IInv, TypeOK, LoadBounded, MustGrow
<1> QED
  BY <1>5, <1>7, <1>8, <1>9 DEF IInv

LEMMA GrowFailsStep == ASSUME IInv, GrowFails PROVE IInv'
<1>1. /\ pc = "grow" /\ pc' = "ready" /\ entry' = NULL /\ live_blocks' = live_blocks - 1
      /\ UNCHANGED <<buckets, size, capacity, resize_threshold, revision, next_entry_id,
                     new_buckets, new_capacity, moved_count>>
  BY DEF GrowFails, GrowthRefused, table, rehash
<1>2. /\ entry # NULL /\ Linked(new_buckets) = {} /\ Contents' = Contents
      /\ Linked(buckets') = Linked(buckets) /\ Linked(new_buckets') = Linked(new_buckets)
  BY <1>1, OneArray DEF IInv, TypeOK, Contents
<1>3. TypeOK'
  BY <1>1 DEF IInv, TypeOK, PCs, Alive
<1>4. WellFormed'
  <2>1. /\ Placed(buckets', capacity') /\ Placed(new_buckets', new_capacity')
        /\ Distinct(buckets') /\ Distinct(new_buckets')
    BY <1>1 DEF IInv, WellFormed
  <2> QED
    BY <1>1, <1>2, <2>1 DEF IInv, WellFormed
<1>5. Counted'
  <2>1. Cardinality(Linked(buckets)) \in Nat /\ Cardinality(Linked(new_buckets)) \in Nat
    BY FS_CardinalityType DEF IInv, Counted
  <2> QED
    BY <1>1, <1>2, <2>1 DEF IInv, Counted, SizeCounts, NoLeak
<1>6. LoadBounded'
  BY <1>1 DEF IInv, LoadBounded
<1> QED
  BY <1>3, <1>4, <1>5, <1>6 DEF IInv

\* A rehash begins, in ht_put or in ht_reserve.
LEMMA BeginRehashStep ==
    ASSUME IInv, NEW c \in Nat, capacity < c, BeginRehash(c),
           pc \in {"ready", "grow"}, pc = "grow" => c = 2 * capacity
    PROVE  IInv'
<1>1. /\ new_buckets' = EmptyBuckets(c) /\ new_capacity' = c /\ moved_count' = 0
      /\ live_blocks' = live_blocks + 1 /\ pc' = "relink"
      /\ UNCHANGED <<buckets, size, capacity, resize_threshold, revision, next_entry_id, entry>>
  BY DEF BeginRehash, table
<1>2. capacity \in Nat \ {0} /\ Linked(new_buckets) = {} /\ Contents = Linked(buckets)
      /\ moved_count = 0
  BY OneArray, ReadyFacts
<1>3. /\ new_buckets' \in [0..(c - 1) -> Seq(Entry)]
      /\ Linked(new_buckets') = {}
      /\ Placed(new_buckets', new_capacity') /\ Distinct(new_buckets')
  BY <1>1, EmptyFacts
<1>4. Linked(buckets') = Linked(buckets) /\ Contents' = Contents
  BY <1>1, <1>2, <1>3 DEF Contents
<1>5. TypeOK'
  <2>1. new_capacity' \in Nat /\ new_capacity' > 0
    BY <1>1, <1>2
  <2>2. new_buckets' \in [IF pc' = "relink" THEN 0..(new_capacity' - 1) ELSE {} -> Seq(Entry)]
    BY <1>1, <1>3
  <2>3. moved_count' \in Nat /\ capacity' # 0
    BY <1>1, <1>2
  <2> QED
    BY <1>1, <2>1, <2>2, <2>3 DEF IInv, TypeOK, PCs, Alive
<1>6. WellFormed'
  <2>1. Placed(buckets', capacity') /\ Distinct(buckets')
    BY <1>1 DEF IInv, WellFormed
  <2> QED
    BY <1>1, <1>3, <1>4, <2>1 DEF IInv, WellFormed
<1>7. Counted'
  <2>1. Cardinality(Linked(buckets)) \in Nat /\ Cardinality({}) = 0 /\ IsFiniteSet({})
    BY FS_EmptySet, FS_CardinalityType DEF IInv, Counted
  <2>2. SizeCounts'
    BY <1>1, <1>2, <1>3, <1>4, <2>1 DEF IInv, Counted, SizeCounts
  <2>3. NoLeak'
    <3> DEFINE held == IF entry # NULL THEN 1 ELSE 0
               linked == Cardinality(Linked(buckets))
    <3>1. live_blocks = 2 + linked + held /\ held \in Nat /\ linked \in Nat
      BY <1>2, <2>1 DEF IInv, Counted, NoLeak, TypeOK
    <3>2. /\ Cardinality(Linked(buckets')) = linked /\ Cardinality(Linked(new_buckets')) = 0
          /\ held = (IF entry' # NULL THEN 1 ELSE 0)
      BY <1>1, <1>3, <1>4, <2>1
    <3> HIDE DEF held, linked
    <3> QED
      BY <3>1, <3>2, <1>1 DEF NoLeak
  <2> QED
    BY <1>3, <1>4, <2>1, <2>2, <2>3 DEF IInv, Counted
<1>8. LoadBounded'
  BY <1>1 DEF IInv, TypeOK, LoadBounded
<1> QED
  BY <1>5, <1>6, <1>7, <1>8 DEF IInv

LEMMA GrowStep == ASSUME IInv, Grow PROVE IInv'
<1>1. pc = "grow" /\ BeginRehash(2 * capacity)
  BY DEF Grow
<1>2. capacity \in Nat \ {0}
  BY <1>1, ReadyFacts
<1>3. 2 * capacity \in Nat /\ capacity < 2 * capacity
  BY <1>2
<1> QED
  BY <1>1, <1>3, BeginRehashStep

LEMMA ReserveBeginsStep == ASSUME IInv, NEW r \in Requests, ReserveBegins(r) PROVE IInv'
<1>1. PICK c \in Capacities : capacity < c /\ BeginRehash(c)
  BY LimitAssumption DEF ReserveBegins, Enlarges, IInv, TypeOK, Capacities
<1>2. c \in Nat
  BY LimitAssumption DEF Capacities
<1>3. pc = "ready"
  BY DEF ReserveBegins
<1> QED
  BY <1>1, <1>2, <1>3, BeginRehashStep

LEMMA LinkEntryStep == ASSUME IInv, LinkEntry PROVE IInv'
<1> DEFINE D == 0..(capacity - 1)
           b == BucketIndex(entry.hash, capacity)
<1>1. /\ pc = "link" /\ pc' = "ready" /\ entry' = NULL /\ Bump
      /\ size' = size + 1 /\ next_entry_id' = next_entry_id + 1
      /\ buckets' = [buckets EXCEPT ![b] = Cons(entry, @)]
      /\ UNCHANGED <<capacity, resize_threshold, new_buckets, new_capacity, moved_count, live_blocks>>
  BY DEF LinkEntry, rehash
<1>2. /\ entry \in Entry /\ entry # NULL /\ entry.hash = Hash[entry.key]
      /\ entry.entry_id = next_entry_id /\ next_entry_id < U64Max
      /\ \A e \in Contents : e.key # entry.key
  BY <1>1 DEF IInv, TypeOK, WellFormed
<1>3. /\ capacity \in Nat \ {0} /\ next_entry_id \in Nat \ {0} /\ size \in Nat
      /\ Linked(new_buckets) = {} /\ Contents = Linked(buckets)
  BY <1>1, OneArray, ReadyFacts
<1>4. b \in D /\ IsArray(D, buckets)
  BY <1>2, <1>3, IndexInRange DEF IInv, TypeOK, IsArray, Entry
<1>5. \A f \in Linked(buckets) : f.key # entry.key /\ f.entry_id # entry.entry_id
                                 /\ f.entry_id \in 1..(next_entry_id - 1)
  BY <1>2, <1>3 DEF IInv, WellFormed
<1>6. /\ IsArray(D, buckets')
      /\ Linked(buckets') = Linked(buckets) \cup {entry}
      /\ Placed(buckets', capacity)
      /\ Distinct(buckets')
  <2>1. BucketIndex(entry.hash, capacity) = b
    OBVIOUS
  <2>2. IsArray(D, buckets) /\ Links(D, buckets, buckets', b, entry)
    BY <1>1, <1>4 DEF Links
  <2> HIDE DEF D, b
  <2>3. /\ IsArray(D, buckets')
        /\ Linked(buckets') = Linked(buckets) \cup {entry}
        /\ \A c : Placed(buckets, c) /\ BucketIndex(entry.hash, c) = b => Placed(buckets', c)
        /\ Distinct(buckets)
             /\ (\A f \in Linked(buckets) : f.key # entry.key /\ f.entry_id # entry.entry_id)
             => Distinct(buckets')
    BY <2>2, <1>2, LinksFacts
  <2> QED
    BY <2>1, <2>3, <1>5 DEF IInv, WellFormed
<1> HIDE DEF b
<1>7. Linked(new_buckets') = {} /\ Contents' = Linked(buckets) \cup {entry}
  BY <1>1, <1>3, <1>6 DEF Contents
<1>8. TypeOK'
  <2>1. next_entry_id' \in 0..U64Max /\ next_entry_id' > 0
    BY <1>1, <1>2, <1>3, LimitAssumption
  <2> QED
    BY <1>1, <1>3, <1>6, <2>1, BumpStep DEF IInv, TypeOK, PCs, Alive, IsArray
<1>9. WellFormed'
  <2>1. Placed(buckets', capacity') /\ Placed(new_buckets', new_capacity') /\ Distinct(new_buckets')
    BY <1>1, <1>6 DEF IInv, WellFormed
  <2>2. \A e \in Contents' : e.hash = Hash[e.key] /\ e.entry_id \in 1..(next_entry_id' - 1)
    <3> SUFFICES ASSUME NEW e \in Contents'
                 PROVE  e.hash = Hash[e.key] /\ e.entry_id \in 1..(next_entry_id' - 1)
      OBVIOUS
    <3>1. CASE e = entry
      BY <3>1, <1>1, <1>2, <1>3
    <3>2. CASE e \in Linked(buckets)
      BY <3>2, <1>1, <1>3, <1>5 DEF IInv, WellFormed
    <3> QED
      BY <3>1, <3>2, <1>7
  <2> QED
    BY <1>1, <1>6, <1>7, <2>1, <2>2 DEF WellFormed
<1>10. Counted'
  <2>1. entry \notin Linked(buckets)
    BY <1>5
  <2>2. /\ IsFiniteSet(Linked(buckets')) /\ Cardinality(Linked(buckets)) \in Nat
        /\ Cardinality(Linked(buckets')) = Cardinality(Linked(buckets)) + 1
    BY <2>1, <1>6, CountFacts DEF IInv, Counted
  <2>3. Cardinality(Linked(new_buckets)) = 0 /\ IsFiniteSet(Linked(new_buckets'))
    BY <1>3, <1>7, FS_EmptySet
  <2> QED
    BY <1>1, <1>2, <1>3, <1>7, <2>2, <2>3 DEF IInv, Counted, SizeCounts, NoLeak
<1>11. LoadBounded'
  BY <1>1, <1>3 DEF IInv, TypeOK, LoadBounded
<1> QED
  BY <1>8, <1>9, <1>10, <1>11 DEF IInv

LEMMA RemoveHitsStep == ASSUME IInv, NEW k \in Keys, RemoveHits(k) PROVE IInv'
<1> DEFINE D == 0..(capacity - 1)
           b == BucketIndex(Hash[k], capacity)
<1>1. /\ pc = "ready" /\ pc' = "ready" /\ Bump /\ live_blocks' = live_blocks - 1
      /\ size' = size - 1
      /\ UNCHANGED <<capacity, resize_threshold, next_entry_id,
                     new_buckets, new_capacity, moved_count, entry>>
  BY DEF RemoveHits, Idle, rehash
<1>2. \E i \in DOMAIN buckets[b] : buckets' = [buckets EXCEPT ![b] = RemoveAt(@, i)]
  BY DEF RemoveHits
<1>3. /\ capacity \in Nat \ {0} /\ size \in Nat /\ size = Cardinality(Linked(buckets))
      /\ entry = NULL /\ Linked(new_buckets) = {} /\ Contents = Linked(buckets)
  BY <1>1, OneArray, ReadyFacts DEF IInv, TypeOK
<1>4. b \in D /\ IsArray(D, buckets)
  BY <1>1, ReadyFacts DEF IInv, TypeOK, IsArray
<1>5. PICK old : Unlinks(D, buckets, buckets', old)
  BY <1>2, <1>4 DEF Unlinks
<1>6. /\ IsArray(D, buckets')
      /\ old \in Linked(buckets)
      /\ Placed(buckets', capacity)
      /\ Distinct(buckets') /\ Linked(buckets') = Linked(buckets) \ {old}
  <2> HIDE DEF D
  <2> QED
    BY <1>4, <1>5, UnlinksFacts DEF IInv, WellFormed
<1> HIDE DEF b
<1>7. Linked(new_buckets') = {} /\ Contents' = Linked(buckets')
  BY <1>1, <1>3 DEF Contents
<1>8. /\ IsFiniteSet(Linked(buckets')) /\ size > 0
      /\ Cardinality(Linked(buckets')) = size - 1
  <2>1. IsFiniteSet(Linked(buckets))
    BY DEF IInv, Counted
  <2>2. /\ IsFiniteSet(Linked(buckets) \ {old}) /\ Cardinality(Linked(buckets)) > 0
        /\ Cardinality(Linked(buckets) \ {old}) = Cardinality(Linked(buckets)) - 1
    BY <2>1, <1>6, CountFacts
  <2> QED
    BY <2>2, <1>3, <1>6
<1>9. TypeOK'
  BY <1>1, <1>3, <1>6, <1>8, BumpStep DEF IInv, TypeOK, PCs, Alive, IsArray
<1>10. WellFormed'
  <2>1. Placed(buckets', capacity') /\ Placed(new_buckets', new_capacity') /\ Distinct(new_buckets')
    BY <1>1, <1>6 DEF IInv, WellFormed
  <2> QED
    BY <1>1, <1>3, <1>6, <1>7, <2>1 DEF IInv, WellFormed
<1>11. Counted'
  <2>1. Cardinality(Linked(new_buckets)) = 0 /\ IsFiniteSet(Linked(new_buckets'))
    BY <1>3, <1>7, FS_EmptySet
  <2> QED
    BY <1>1, <1>3, <1>7, <1>8, <2>1 DEF IInv, Counted, SizeCounts, NoLeak
<1>12. LoadBounded'
  BY <1>1, <1>3 DEF IInv, TypeOK, LoadBounded
<1> QED
  BY <1>9, <1>10, <1>11, <1>12 DEF IInv

\* Relinking an entry keeps the invariant, and what the two arrays hold together.
LEMMA RelinkStep == ASSUME IInv, Relink PROVE IInv' /\ Contents' = Contents
<1> DEFINE D == 0..(capacity - 1)
           E == 0..(new_capacity - 1)
<1>1. /\ pc = "relink" /\ pc' = "relink" /\ moved_count' = moved_count + 1
      /\ UNCHANGED <<size, capacity, resize_threshold, revision, next_entry_id,
                     new_capacity, entry, live_blocks>>
  BY DEF Relink
<1>2. PICK b \in DOMAIN buckets :
        /\ buckets[b] # <<>>
        /\ buckets' = [buckets EXCEPT ![b] = Tail(@)]
        /\ new_buckets' = [new_buckets EXCEPT ![NewIndex(Head(buckets[b]))]
                                                  = Cons(Head(buckets[b]), @)]
  BY DEF Relink, IsNextChain
<1> DEFINE e == Head(buckets[b])
<1>3. /\ capacity \in Nat \ {0} /\ new_capacity \in Nat \ {0} /\ moved_count \in Nat
      /\ IsArray(D, buckets) /\ IsArray(E, new_buckets) /\ b \in D
  BY <1>1, <1>2, ReadyFacts DEF IInv, TypeOK, IsArray
<1>4. 1 \in DOMAIN buckets[b] /\ e = buckets[b][1] /\ Tail(buckets[b]) = RemoveAt(buckets[b], 1)
  <2>1. buckets[b] \in Seq(Entry)
    BY <1>3 DEF IsArray
  <2> QED
    BY <2>1, <1>2, TailIsRemoveAt
<1>5. Unlinks(D, buckets, buckets', e)
  BY <1>2, <1>3, <1>4 DEF Unlinks
<1>6. /\ IsArray(D, buckets')
      /\ e \in Linked(buckets)
      /\ Placed(buckets', capacity)
      /\ Distinct(buckets') /\ Linked(buckets') = Linked(buckets) \ {e}
  <2> HIDE DEF D, e
  <2> QED
    BY <1>3, <1>5, UnlinksFacts DEF IInv, WellFormed
<1>7. e \in Entry
  BY <1>3, <1>6, LinkedType DEF IsArray
<1>8. \A f \in Linked(new_buckets) : f.key # e.key /\ f.entry_id # e.entry_id
  BY <1>6 DEF IInv, WellFormed
<1>9. /\ IsArray(E, new_buckets')
      /\ Linked(new_buckets') = Linked(new_buckets) \cup {e}
      /\ Placed(new_buckets', new_capacity)
      /\ Distinct(new_buckets')
  <2>1. BucketIndex(e.hash, new_capacity) = NewIndex(e)
    BY DEF NewIndex
  <2>2. NewIndex(e) \in E
    BY <1>3, <1>7, IndexInRange DEF NewIndex, Entry
  <2>3. Links(E, new_buckets, new_buckets', NewIndex(e), e)
    BY <2>2, <1>2 DEF Links
  <2> HIDE DEF E, e
  <2>4. /\ IsArray(E, new_buckets')
        /\ Linked(new_buckets') = Linked(new_buckets) \cup {e}
        /\ \A c : Placed(new_buckets, c) /\ BucketIndex(e.hash, c) = NewIndex(e)
                   => Placed(new_buckets', c)
        /\ Distinct(new_buckets)
             /\ (\A f \in Linked(new_buckets) : f.key # e.key /\ f.entry_id # e.entry_id)
             => Distinct(new_buckets')
    BY <2>3, <1>3, <1>7, LinksFacts
  <2> QED
    BY <2>1, <2>4, <1>8 DEF IInv, WellFormed
<1> HIDE DEF e
<1>10. e \notin Linked(new_buckets) /\ Contents' = Contents
  <2>1. e \notin Linked(new_buckets)
    BY <1>8
  <2> QED
    BY <2>1, <1>6, <1>9 DEF Contents
<1>11. TypeOK'
  BY <1>1, <1>3, <1>6, <1>9 DEF IInv, TypeOK, PCs, Alive, IsArray
<1>12. WellFormed'
  <2>1. \A x \in Linked(buckets'), y \in Linked(new_buckets') :
           x.key # y.key /\ x.entry_id # y.entry_id
    <3> SUFFICES ASSUME NEW x \in Linked(buckets'), NEW y \in Linked(new_buckets')
                 PROVE  x.key # y.key /\ x.entry_id # y.entry_id
      OBVIOUS
    <3>1. x \in Linked(buckets) /\ x # e
      BY <1>6
    <3>2. CASE y = e
      BY <3>1, <3>2, <1>6, <1>3, DistinctFacts DEF IInv, WellFormed, IsArray
    <3>3. CASE y \in Linked(new_buckets)
      BY <3>1, <3>3 DEF IInv, WellFormed
    <3> QED
      BY <3>2, <3>3, <1>9
  <2>2. /\ Placed(buckets', capacity') /\ Placed(new_buckets', new_capacity')
        /\ Distinct(buckets') /\ Distinct(new_buckets')
    BY <1>1, <1>6, <1>9
  <2> QED
    BY <1>1, <1>10, <2>1, <2>2 DEF IInv, WellFormed
<1>13. Counted'
  <2> DEFINE old_count == Cardinality(Linked(buckets))
             new_count == Cardinality(Linked(new_buckets))
  <2>1. /\ IsFiniteSet(Linked(buckets')) /\ IsFiniteSet(Linked(new_buckets'))
        /\ Cardinality(Linked(buckets')) = old_count - 1
        /\ Cardinality(Linked(new_buckets')) = new_count + 1
        /\ old_count \in Nat /\ new_count \in Nat
    <3>1. IsFiniteSet(Linked(buckets)) /\ IsFiniteSet(Linked(new_buckets))
      BY DEF IInv, Counted
    <3>2. /\ IsFiniteSet(Linked(buckets) \ {e}) /\ old_count \in Nat
          /\ Cardinality(Linked(buckets) \ {e}) = old_count - 1
      BY <3>1, <1>6, CountFacts
    <3>3. /\ IsFiniteSet(Linked(new_buckets) \cup {e}) /\ new_count \in Nat
          /\ Cardinality(Linked(new_buckets) \cup {e}) = new_count + 1
      BY <3>1, <1>10, CountFacts
    <3> QED
      BY <3>2, <3>3, <1>6, <1>9
  <2>2. size = old_count + new_count /\ moved_count = new_count
    BY DEF IInv, Counted, SizeCounts
  <2>3. live_blocks = 2 + old_count + new_count + 1 + (IF entry # NULL THEN 1 ELSE 0)
    BY <1>1 DEF IInv, Counted, NoLeak
  <2> HIDE DEF old_count, new_count
  <2>4. SizeCounts'
    BY <1>1, <2>1, <2>2 DEF SizeCounts
  <2>5. NoLeak'
    BY <1>1, <2>1, <2>3 DEF NoLeak
  <2> QED
    BY <2>1, <2>4, <2>5 DEF Counted
<1>14. LoadBounded'
  BY <1>1 DEF IInv, LoadBounded
<1> QED
  BY <1>10, <1>11, <1>12, <1>13, <1>14 DEF IInv

\* So does the end of a rehash, which frees the old array.
LEMMA EndRehashStep == ASSUME IInv, EndRehash PROVE IInv' /\ Contents' = Contents
<1>1. /\ pc = "relink" /\ LoopDone /\ Bump
      /\ buckets' = new_buckets /\ capacity' = new_capacity
      /\ resize_threshold' = ThresholdFor(new_capacity) /\ live_blocks' = live_blocks - 1
      /\ new_buckets' = EmptyBuckets(0) /\ new_capacity' = 0 /\ moved_count' = 0
      /\ pc' = IF entry = NULL THEN "ready" ELSE "link"
      /\ UNCHANGED <<size, next_entry_id, entry>>
  BY DEF EndRehash
<1>2. Linked(buckets) = {}
  BY <1>1, LinkedMember DEF LoopDone
<1>3. /\ capacity \in Nat \ {0} /\ new_capacity \in Nat \ {0} /\ next_entry_id \in Nat \ {0}
      /\ new_buckets \in [0..(new_capacity - 1) -> Seq(Entry)]
  BY <1>1, ReadyFacts DEF IInv, TypeOK
<1>4. /\ new_buckets' \in [{} -> Seq(Entry)] /\ Linked(new_buckets') = {}
      /\ Placed(new_buckets', new_capacity') /\ Distinct(new_buckets')
  BY <1>1, EmptyFacts, NoArrayFacts
<1>5. Linked(buckets') = Linked(new_buckets) /\ Contents' = Contents
  BY <1>1, <1>2, <1>4 DEF Contents
<1>6. TypeOK'
  <2>1. resize_threshold' \in Nat
    BY <1>1, <1>3, ThresholdFacts
  <2> QED
    BY <1>1, <1>3, <1>4, <2>1, BumpStep DEF IInv, TypeOK, PCs, Alive
<1>7. WellFormed'
  <2>1. Placed(buckets', capacity') /\ Distinct(buckets')
    BY <1>1 DEF IInv, WellFormed
  <2> QED
    BY <1>1, <1>4, <1>5, <2>1 DEF IInv, WellFormed
<1>8. Counted'
  <2> DEFINE count == Cardinality(Linked(new_buckets))
             held == IF entry # NULL THEN 1 ELSE 0
  <2>1. Cardinality({}) = 0 /\ IsFiniteSet({}) /\ count \in Nat /\ held \in Nat
    BY FS_EmptySet, FS_CardinalityType DEF IInv, Counted
  <2>2. size = count /\ live_blocks = 3 + count + held
    BY <1>1, <1>2, <2>1 DEF IInv, Counted, SizeCounts, NoLeak
  <2>3. /\ Cardinality(Linked(buckets')) = count /\ Cardinality(Linked(new_buckets')) = 0
        /\ held = (IF entry' # NULL THEN 1 ELSE 0)
        /\ IsFiniteSet(Linked(buckets')) /\ IsFiniteSet(Linked(new_buckets'))
    BY <1>1, <1>4, <1>5, <2>1 DEF IInv, Counted
  <2> HIDE DEF count, held
  <2>4. SizeCounts'
    BY <1>1, <2>1, <2>2, <2>3 DEF SizeCounts
  <2>5. NoLeak'
    <3>1. pc' # "absent" /\ pc' # "create" /\ pc' # "relink"
      BY <1>1
    <3>2. live_blocks' = 2 + count + held
      BY <1>1, <2>1, <2>2
    <3> QED
      BY <3>1, <3>2, <2>1, <2>3 DEF NoLeak
  <2> QED
    BY <2>3, <2>4, <2>5 DEF Counted
<1>9. LoadBounded'
  <2>1. /\ size <= ThresholdFor(capacity) /\ size \in Nat /\ capacity < new_capacity
        /\ entry # NULL => new_capacity = 2 * capacity
    BY <1>1, <1>3 DEF IInv, TypeOK, LoadBounded
  <2>2. /\ ThresholdFor(capacity) \in Nat /\ ThresholdFor(new_capacity) \in Nat
        /\ ThresholdFor(capacity) <= ThresholdFor(new_capacity)
        /\ entry # NULL => ThresholdFor(capacity) < ThresholdFor(new_capacity)
    <3>0. capacity \in Nat /\ capacity > 0
      BY <1>3
    <3>1. /\ ThresholdFor(capacity) \in Nat
          /\ \A d \in Nat : capacity < d => ThresholdFor(capacity) <= ThresholdFor(d)
          /\ ThresholdFor(capacity) < ThresholdFor(2 * capacity)
      BY <3>0, ThresholdFacts, Zenon
    <3>2. ThresholdFor(new_capacity) \in Nat
      BY <1>3, ThresholdFacts
    <3>3. ThresholdFor(capacity) <= ThresholdFor(new_capacity)
      BY <3>1, <2>1, <1>3
    <3>4. ASSUME entry # NULL PROVE ThresholdFor(capacity) < ThresholdFor(new_capacity)
      <4>1. new_capacity = 2 * capacity
        BY <3>4, <2>1
      <4> QED
        BY <4>1, <3>1, Zenon
    <3> QED
      BY <3>1, <3>2, <3>3, <3>4, Zenon
  <2>3. size <= ThresholdFor(new_capacity) /\ (entry # NULL => size < ThresholdFor(new_capacity))
    BY <2>1, <2>2
  <2> QED
    BY <2>3, <1>1 DEF LoadBounded
<1> QED
  BY <1>5, <1>6, <1>7, <1>8, <1>9 DEF IInv

\* The calls that change nothing but the trace and the result.
LEMMA SilentStep ==
    ASSUME IInv,
           \/ \E r \in Requests : CreateRefused(r) \/ ReserveReturns(r) \/ ReserveFails(r)
           \/ \E k \in Keys : \/ PutRefused(k) \/ GetHits(k)
                               \/ Misses("get", "LOOKUP_MISS", k)
                               \/ Misses("remove", "DELETE_MISS", k)
           \/ UNCHANGED vars
    PROVE  IInv'
<1>1. UNCHANGED state
  BY DEF CreateRefused, ReserveReturns, ReserveFails, PutRefused, GetHits, Misses, ReadOnly, Idle,
         vars, state, table, rehash
<1> QED
  BY <1>1, Unchanged

\* Every step preserves the inductive invariant.
LEMMA NextStep == ASSUME IInv, [Next]_vars PROVE IInv'
<1>1. CASE Lifecycle
  BY <1>1, SilentStep, CreateTableStep, CreateFailsStep, CreateBucketsStep, DestroyStep DEF Lifecycle
<1>2. CASE Calls
  BY <1>2, SilentStep, PutUpdatesStep, PutAllocatesStep, RemoveHitsStep, ReserveBeginsStep DEF Calls
<1>3. CASE Continue
  BY <1>3, GrowFailsStep, GrowStep, RelinkStep, EndRehashStep, LinkEntryStep DEF Continue
<1>4. CASE UNCHANGED vars
  BY <1>4, SilentStep
<1> QED
  BY <1>1, <1>2, <1>3, <1>4 DEF Next

-----------------------------------------------------------------------------
(* The theorems. *)

\* The inductive invariant holds of every table, whatever its keys, hash,
\* capacities and limits are.
THEOREM Inductive == Spec => []IInv
<1>1. Init => IInv
  BY InitStep
<1>2. IInv /\ [Next]_vars => IInv'
  BY NextStep
<1> QED
  BY <1>1, <1>2, PTL DEF Spec

\* The variables keep their types through every call, failed ones included.
THEOREM TypeCorrect == Spec => []TypeOK
<1>1. IInv => TypeOK
  BY DEF IInv
<1> QED
  BY <1>1, Inductive, PTL

\* Every entry is in the chain its hash selects, once, in mid-rehash too.
THEOREM ChainsWellFormed == Spec => []WellFormed
<1>1. IInv => WellFormed
  BY DEF IInv
<1> QED
  BY <1>1, Inductive, PTL

\* The size is the number of linked entries, for every history of calls.
THEOREM SizeIsCount == Spec => []SizeCounts
<1>1. IInv => SizeCounts
  BY DEF IInv, Counted
<1> QED
  BY <1>1, Inductive, PTL

\* No path through the calls, failed allocations included, loses a block or
\* frees it twice.
THEOREM BlocksBalance == Spec => []NoLeak
<1>1. IInv => NoLeak
  BY DEF IInv, Counted
<1> QED
  BY <1>1, Inductive, PTL

\* A table never holds more than three quarters of its buckets' number.
THEOREM LoadFactor == Spec => []LoadBounded
<1>1. IInv => LoadBounded
  BY DEF IInv
<1> QED
  BY <1>1, Inductive, PTL

\* No step of a rehash adds, drops or alters an entry, the step that frees the old
\* array included.
THEOREM RehashKeeps == Spec => RehashKeepsContents
<1>1. ASSUME IInv, [Next]_vars PROVE [pc = "relink" => Contents' = Contents]_vars
  <2> SUFFICES ASSUME pc = "relink", Next PROVE Contents' = Contents
    BY <1>1
  <2>1. ~ Lifecycle
    BY DEF Lifecycle, CreateRefused, CreateTable, CreateFails, CreateBuckets, Destroy
  <2>2. ~ Calls
    BY DEF Calls, PutUpdates, PutAllocates, PutRefused, GetHits, Misses, RemoveHits,
           ReserveReturns, ReserveFails, ReserveBegins, ReadOnly, Idle
  <2>3. ~ GrowFails /\ ~ Grow /\ ~ LinkEntry
    BY DEF GrowFails, GrowthRefused, Grow, LinkEntry
  <2>4. Relink \/ EndRehash
    BY <2>1, <2>2, <2>3 DEF Next, Continue
  <2> QED
    BY <1>1, <2>4, RelinkStep, EndRehashStep
<1> QED
  BY <1>1, Inductive, PTL DEF Spec, RehashKeepsContents

\* A call that reports a failed allocation or an overflow has left the table as it
\* was, the entry that ht_put had allocated included.
THEOREM FailuresKeep == Spec => FailureChangesNothing
<1> DEFINE Reports == ret' # ret /\ ret'.status \in {"NO_MEMORY", "OVERFLOW"}
<1>1. ASSUME [Next]_vars PROVE [Reports => UNCHANGED table]_vars
  <2> SUFFICES ASSUME Next, Reports PROVE UNCHANGED table
    BY <1>1
  <2>1. CASE Lifecycle
    BY <2>1 DEF Lifecycle, CreateRefused, CreateTable, CreateFails, CreateBuckets, Destroy,
                Return, table
  <2>2. CASE Calls
    <3>1. CASE \E k \in Keys, v \in Values : PutUpdates(k, v) \/ PutAllocates(k, v)
      BY <3>1 DEF PutUpdates, PutAllocates, Return, table
    <3>2. CASE \E k \in Keys : RemoveHits(k)
      BY <3>2 DEF RemoveHits, Return
    <3>3. CASE \E k \in Keys : \/ PutRefused(k) \/ GetHits(k)
                              \/ Misses("get", "LOOKUP_MISS", k)
                              \/ Misses("remove", "DELETE_MISS", k)
      BY <3>3 DEF PutRefused, GetHits, Misses, ReadOnly, Idle, table
    <3>4. CASE \E r \in Requests : ReserveReturns(r) \/ ReserveFails(r) \/ ReserveBegins(r)
      BY <3>4 DEF ReserveReturns, ReserveFails, ReserveBegins, BeginRehash, ReadOnly, Idle, table
    <3> QED
      BY <2>2, <3>1, <3>2, <3>3, <3>4 DEF Calls
  <2>3. CASE Continue
    BY <2>3 DEF Continue, GrowFails, Grow, BeginRehash, Relink, EndRehash, LinkEntry, Return
  <2> QED
    BY <2>1, <2>2, <2>3 DEF Next
<1> QED
  BY <1>1, PTL DEF Spec, FailureChangesNothing

-----------------------------------------------------------------------------
(* The map that a set of entries is. *)

\* An entry is known by its key, and by its id.
OneEach(C) == \A e, f \in C : e.key = f.key \/ e.entry_id = f.entry_id => e = f

MapOf(C) ==
    [k \in Keys |->
        IF \E e \in C : e.key = k THEN (CHOOSE e \in C : e.key = k).value ELSE NULL]

LEMMA VisibleIsMapOf == Visible = MapOf(Contents) /\ Visible' = MapOf(Contents')
BY DEF Visible, MapOf

\* The value of a key is that of its entry, and there is none without an entry.
LEMMA MapAt ==
    ASSUME NEW C, C \subseteq Entry, OneEach(C), NEW k \in Keys
    PROVE  /\ \A e \in C : e.key = k => MapOf(C)[k] = e.value /\ MapOf(C)[k] # NULL
           /\ (\A e \in C : e.key # k) => MapOf(C)[k] = NULL
<1>1. MapOf(C)[k] =
         IF \E e \in C : e.key = k THEN (CHOOSE e \in C : e.key = k).value ELSE NULL
  BY DEF MapOf
<1>2. ASSUME NEW e \in C, e.key = k PROVE MapOf(C)[k] = e.value /\ MapOf(C)[k] # NULL
  <2> DEFINE chosen == CHOOSE f \in C : f.key = k
  <2>1. chosen \in C /\ chosen.key = k
    BY <1>2
  <2>2. chosen = e
    BY <1>2, <2>1 DEF OneEach
  <2>3. e.value \in Values
    BY DEF Entry
  <2> QED
    BY <1>1, <1>2, <2>2, <2>3, NullAssumption
<1>3. (\A e \in C : e.key # k) => MapOf(C)[k] = NULL
  BY <1>1
<1> QED
  BY <1>2, <1>3

\* An entry with another value, an entry more, and an entry less.
LEMMA MapUpdated ==
    ASSUME NEW C, C \subseteq Entry, OneEach(C), NEW old \in C, NEW new \in Entry,
           new.key = old.key, new.entry_id = old.entry_id
    PROVE  MapOf((C \ {old}) \cup {new}) = [MapOf(C) EXCEPT ![old.key] = new.value]
<1> DEFINE D == (C \ {old}) \cup {new}
<1>1. D \subseteq Entry /\ OneEach(D)
  BY DEF OneEach
<1>2. ASSUME NEW k \in Keys
      PROVE  MapOf(D)[k] = IF k = old.key THEN new.value ELSE MapOf(C)[k]
  <2>1. CASE k = old.key
    <3>1. new \in D /\ new.key = k
      BY <2>1
    <3> HIDE DEF D
    <3> QED
      BY <1>1, <2>1, <3>1, MapAt
  <2>2. CASE k # old.key /\ \E e \in C : e.key = k
    <3>1. PICK e \in C : e.key = k
      BY <2>2
    <3>2. e \in D
      BY <2>2, <3>1
    <3>3. MapOf(C)[k] = e.value
      BY <3>1, MapAt
    <3> HIDE DEF D
    <3>4. MapOf(D)[k] = e.value
      BY <1>1, <3>1, <3>2, MapAt
    <3> QED
      BY <2>2, <3>3, <3>4
  <2>3. CASE k # old.key /\ \A e \in C : e.key # k
    <3>1. \A e \in D : e.key # k
      BY <2>3
    <3>2. MapOf(C)[k] = NULL
      BY <2>3, MapAt
    <3> HIDE DEF D
    <3>3. MapOf(D)[k] = NULL
      BY <1>1, <3>1, MapAt
    <3> QED
      BY <2>3, <3>2, <3>3
  <2> QED
    BY <2>1, <2>2, <2>3
<1> HIDE DEF D
<1>3. DOMAIN MapOf(D) = Keys /\ DOMAIN MapOf(C) = Keys
      /\ MapOf(D) = [k \in Keys |-> MapOf(D)[k]]
  BY DEF MapOf
<1>4. [MapOf(C) EXCEPT ![old.key] = new.value]
         = [k \in Keys |-> IF k = old.key THEN new.value ELSE MapOf(C)[k]]
  BY <1>3
<1>5. MapOf(D) = [MapOf(C) EXCEPT ![old.key] = new.value]
  BY <1>2, <1>3, <1>4
<1> QED
  BY <1>5 DEF D

LEMMA MapAdded ==
    ASSUME NEW C, C \subseteq Entry, OneEach(C), NEW new \in Entry, OneEach(C \cup {new}),
           \A e \in C : e.key # new.key
    PROVE  MapOf(C \cup {new}) = [MapOf(C) EXCEPT ![new.key] = new.value]
<1> DEFINE D == C \cup {new}
<1>1. D \subseteq Entry /\ OneEach(D) /\ new \in D
  OBVIOUS
<1>2. ASSUME NEW k \in Keys
      PROVE  MapOf(D)[k] = IF k = new.key THEN new.value ELSE MapOf(C)[k]
  <2>1. CASE k = new.key
    <3> HIDE DEF D
    <3> QED
      BY <1>1, <2>1, MapAt
  <2>2. CASE k # new.key /\ \E e \in C : e.key = k
    <3>1. PICK e \in C : e.key = k
      BY <2>2
    <3>2. e \in D
      BY <3>1
    <3>3. MapOf(C)[k] = e.value
      BY <3>1, MapAt
    <3> HIDE DEF D
    <3>4. MapOf(D)[k] = e.value
      BY <1>1, <3>1, <3>2, MapAt
    <3> QED
      BY <2>2, <3>3, <3>4
  <2>3. CASE k # new.key /\ \A e \in C : e.key # k
    <3>1. \A e \in D : e.key # k
      BY <2>3
    <3>2. MapOf(C)[k] = NULL
      BY <2>3, MapAt
    <3> HIDE DEF D
    <3>3. MapOf(D)[k] = NULL
      BY <1>1, <3>1, MapAt
    <3> QED
      BY <2>3, <3>2, <3>3
  <2> QED
    BY <2>1, <2>2, <2>3
<1> HIDE DEF D
<1>3. DOMAIN MapOf(D) = Keys /\ DOMAIN MapOf(C) = Keys
      /\ MapOf(D) = [k \in Keys |-> MapOf(D)[k]]
  BY DEF MapOf
<1>4. [MapOf(C) EXCEPT ![new.key] = new.value]
         = [k \in Keys |-> IF k = new.key THEN new.value ELSE MapOf(C)[k]]
  BY <1>3
<1>5. MapOf(D) = [MapOf(C) EXCEPT ![new.key] = new.value]
  BY <1>2, <1>3, <1>4
<1> QED
  BY <1>5 DEF D

LEMMA MapRemoved ==
    ASSUME NEW C, C \subseteq Entry, OneEach(C), NEW old \in C
    PROVE  MapOf(C \ {old}) = [MapOf(C) EXCEPT ![old.key] = NULL]
<1> DEFINE D == C \ {old}
<1>1. D \subseteq Entry /\ OneEach(D)
  BY DEF OneEach
<1>2. ASSUME NEW k \in Keys
      PROVE  MapOf(D)[k] = IF k = old.key THEN NULL ELSE MapOf(C)[k]
  <2>1. CASE \E e \in D : e.key = k
    <3>1. PICK e \in D : e.key = k
      BY <2>1
    <3>2. e \in C /\ k # old.key
      BY <3>1 DEF OneEach
    <3>3. MapOf(C)[k] = e.value
      BY <3>1, <3>2, MapAt
    <3> HIDE DEF D
    <3>4. MapOf(D)[k] = e.value
      BY <1>1, <3>1, MapAt
    <3> QED
      BY <3>2, <3>3, <3>4
  <2>2. CASE \A e \in D : e.key # k
    <3>1. k # old.key => MapOf(C)[k] = NULL
      <4>1. k # old.key => \A e \in C : e.key # k
        BY <2>2
      <4> QED
        BY <4>1, MapAt
    <3> HIDE DEF D
    <3>2. MapOf(D)[k] = NULL
      BY <1>1, <2>2, MapAt
    <3> QED
      BY <3>1, <3>2
  <2> QED
    BY <2>1, <2>2
<1> HIDE DEF D
<1>3. DOMAIN MapOf(D) = Keys /\ DOMAIN MapOf(C) = Keys
      /\ MapOf(D) = [k \in Keys |-> MapOf(D)[k]]
  BY DEF MapOf
<1>4. [MapOf(C) EXCEPT ![old.key] = NULL]
         = [k \in Keys |-> IF k = old.key THEN NULL ELSE MapOf(C)[k]]
  BY <1>3
<1>5. MapOf(D) = [MapOf(C) EXCEPT ![old.key] = NULL]
  BY <1>2, <1>3, <1>4
<1> QED
  BY <1>5 DEF D

-----------------------------------------------------------------------------
(* What a table contains, and what each call does to it. *)

LEMMA WellFormedContents ==
    ASSUME TypeOK, WellFormed PROVE Contents \subseteq Entry /\ OneEach(Contents)
<1>1. Contents \subseteq Entry
  BY LinkedType DEF TypeOK, Contents
<1>2. ASSUME NEW e \in Contents, NEW f \in Contents, e.key = f.key \/ e.entry_id = f.entry_id
      PROVE  e = f
  <2>1. CASE e \in Linked(buckets) /\ f \in Linked(buckets)
    BY <1>2, <2>1, DistinctFacts DEF WellFormed
  <2>2. CASE e \in Linked(new_buckets) /\ f \in Linked(new_buckets)
    BY <1>2, <2>2, DistinctFacts DEF WellFormed
  <2>3. ~ (e \in Linked(buckets) /\ f \in Linked(new_buckets))
        /\ ~ (f \in Linked(buckets) /\ e \in Linked(new_buckets))
    BY <1>2 DEF WellFormed
  <2> QED
    BY <2>1, <2>2, <2>3 DEF Contents
<1> QED
  BY <1>1, <1>2 DEF OneEach

LEMMA ContentsFacts == ASSUME IInv PROVE Contents \subseteq Entry /\ OneEach(Contents)
BY WellFormedContents DEF IInv

\* Before a creation is done, and after a destruction, there is nothing.
LEMMA NothingAfter == ASSUME IInv', ~ Alive' PROVE Contents' = {}
<1>1. capacity' = 0 /\ pc' # "relink"
  BY DEF Alive, IInv, TypeOK
<1>2. /\ buckets' \in [0..(capacity' - 1) -> Seq(Entry)] /\ 0..(capacity' - 1) = {}
      /\ new_buckets' \in [{} -> Seq(Entry)]
  BY <1>1 DEF IInv, TypeOK
<1>3. buckets' \in [{} -> Seq(Entry)]
  BY <1>2
<1>4. Linked(buckets') = {} /\ Linked(new_buckets') = {}
  BY <1>2, <1>3, NoArrayFacts
<1> QED
  BY <1>4 DEF Contents

\* A search finds the entry of its key, or there is none in any chain.
LEMMA SearchFacts ==
    ASSUME IInv, pc = "ready", NEW k \in Keys
    PROVE  /\ \A i : FoundAt(k, i) => Chain(k)[i] \in Contents /\ Chain(k)[i].key = k
           /\ Missing(k) => \A e \in Contents : e.key # k
<1>1. /\ Contents = Linked(buckets)
      /\ buckets \in [0..(capacity - 1) -> Seq(Entry)]
      /\ BucketIndex(Hash[k], capacity) \in 0..(capacity - 1)
  BY OneArray, ReadyFacts DEF IInv, TypeOK
<1>2. ASSUME NEW i, FoundAt(k, i) PROVE Chain(k)[i] \in Contents /\ Chain(k)[i].key = k
  BY <1>1, <1>2, LinkedMember DEF FoundAt, Chain, Matches
<1>3. ASSUME Missing(k), NEW e \in Linked(buckets), e.key = k PROVE FALSE
  <2>1. PICK b \in 0..(capacity - 1) : \E i \in DOMAIN buckets[b] : e = buckets[b][i]
    BY <1>1, <1>3 DEF Linked, ToSet
  <2>2. PICK i \in DOMAIN buckets[b] : e = buckets[b][i]
    BY <2>1
  <2>3. e.hash = Hash[k]
    BY <1>1, <1>3 DEF IInv, WellFormed
  <2>4. b = BucketIndex(Hash[k], capacity)
    BY <1>1, <2>2, <2>3 DEF IInv, WellFormed, Placed
  <2> QED
    BY <1>3, <2>2, <2>3, <2>4 DEF Missing, Chain, Matches
<1> QED
  BY <1>1, <1>2, <1>3

LEMMA PutUpdatesEffect ==
    ASSUME IInv, NEW k \in Keys, NEW v \in Values, PutUpdates(k, v)
    PROVE  \E old \in Contents, new \in Entry :
              /\ old.key = k /\ new = [old EXCEPT !.value = v]
              /\ new.key = k /\ new.entry_id = old.entry_id /\ new.hash = old.hash
              /\ new.value = v
              /\ Contents' = (Contents \ {old}) \cup {new}
<1> DEFINE b == BucketIndex(Hash[k], capacity)
<1>1. pc = "ready" /\ pc' = pc /\ UNCHANGED new_buckets
  BY DEF PutUpdates, Idle, rehash
<1>2. PICK i \in DOMAIN buckets[b] :
          FoundAt(k, i) /\ buckets' = [buckets EXCEPT ![b][i].value = v]
  BY DEF PutUpdates
<1> DEFINE old == buckets[b][i]
           new == [old EXCEPT !.value = v]
<1>3. b \in 0..(capacity - 1) /\ IsArray(0..(capacity - 1), buckets)
  BY <1>1, ReadyFacts DEF IInv, TypeOK, IsArray
<1>4. Overwrites(0..(capacity - 1), buckets, buckets', old, new)
  BY <1>2, <1>3 DEF Overwrites
<1>5. old.key = k
  BY <1>2 DEF FoundAt, Matches, Chain
<1> HIDE DEF old, new
<1>6. /\ old \in Linked(buckets) /\ old \in Entry /\ new \in Entry
      /\ new.entry_id = old.entry_id /\ new.key = old.key /\ new.hash = old.hash
      /\ Linked(buckets') = (Linked(buckets) \ {old}) \cup {new}
  BY <1>3, <1>4, OverwritesFacts DEF IInv, WellFormed
<1>7. Contents = Linked(buckets) /\ Contents' = Linked(buckets')
  BY <1>1, OneArray DEF Contents
<1>8. new.value = v /\ new = [old EXCEPT !.value = v]
  BY <1>6 DEF new, Entry
<1> QED
  BY <1>5, <1>6, <1>7, <1>8

LEMMA LinkEntryEffect ==
    ASSUME IInv, LinkEntry
    PROVE  /\ entry \in Entry /\ Contents' = Contents \cup {entry}
           /\ entry.entry_id = next_entry_id
           /\ \A e \in Contents : e.key # entry.key /\ e.entry_id # entry.entry_id
           /\ buckets' = [buckets EXCEPT ![BucketIndex(entry.hash, capacity)] = Cons(entry, @)]
           /\ BucketIndex(entry.hash, capacity) \in DOMAIN buckets
           /\ entry.hash = Hash[entry.key]
<1> DEFINE D == 0..(capacity - 1)
           b == BucketIndex(entry.hash, capacity)
<1>1. pc = "link" /\ buckets' = [buckets EXCEPT ![b] = Cons(entry, @)] /\ UNCHANGED new_buckets
  BY DEF LinkEntry, rehash
<1>2. /\ entry \in Entry /\ entry.entry_id = next_entry_id /\ entry.hash = Hash[entry.key]
      /\ \A e \in Contents : e.key # entry.key /\ e.entry_id \in 1..(next_entry_id - 1)
      /\ next_entry_id \in Nat
  BY <1>1 DEF IInv, TypeOK, WellFormed
<1>3. capacity \in Nat \ {0} /\ Linked(new_buckets) = {} /\ Contents = Linked(buckets)
  BY <1>1, OneArray, ReadyFacts
<1>4. b \in D /\ IsArray(D, buckets) /\ DOMAIN buckets = D
  BY <1>2, <1>3, IndexInRange DEF IInv, TypeOK, IsArray, Entry
<1>5. Links(D, buckets, buckets', b, entry)
  BY <1>1, <1>4 DEF Links
<1>6. Linked(buckets') = Linked(buckets) \cup {entry}
  <2> HIDE DEF D, b
  <2> QED
    BY <1>2, <1>4, <1>5, LinksFacts
<1>7. Contents' = Contents \cup {entry}
  BY <1>1, <1>3, <1>6 DEF Contents
<1> QED
  BY <1>1, <1>2, <1>4, <1>7

LEMMA RemoveHitsEffect ==
    ASSUME IInv, NEW k \in Keys, RemoveHits(k)
    PROVE  \E old \in Contents :
              /\ old.key = k /\ Contents' = Contents \ {old}
              /\ trace'.entry_id = old.entry_id
              /\ ret' = [op |-> "remove", key |-> k, status |-> "OK", out |-> old.value]
<1> DEFINE D == 0..(capacity - 1)
           b == BucketIndex(Hash[k], capacity)
<1>1. pc = "ready" /\ pc' = pc /\ UNCHANGED new_buckets
  BY DEF RemoveHits, Idle, rehash
<1>2. PICK i \in DOMAIN buckets[b] :
          /\ FoundAt(k, i) /\ buckets' = [buckets EXCEPT ![b] = RemoveAt(@, i)]
          /\ Emit("DELETE_HIT", "OK", buckets[b][i].entry_id, i, 0)
          /\ Return("remove", k, "OK", buckets[b][i].value)
  BY DEF RemoveHits
<1> DEFINE old == buckets[b][i]
<1>3. b \in D /\ IsArray(D, buckets)
  BY <1>1, ReadyFacts DEF IInv, TypeOK, IsArray
<1>4. Unlinks(D, buckets, buckets', old)
  BY <1>2, <1>3 DEF Unlinks
<1>5. /\ old.key = k /\ trace'.entry_id = old.entry_id
      /\ ret' = [op |-> "remove", key |-> k, status |-> "OK", out |-> old.value]
  BY <1>2 DEF FoundAt, Matches, Chain, Emit, Return
<1> HIDE DEF old, D
<1>6. old \in Linked(buckets) /\ Linked(buckets') = Linked(buckets) \ {old}
  BY <1>3, <1>4, UnlinksFacts DEF IInv, WellFormed
<1>7. Contents = Linked(buckets) /\ Contents' = Linked(buckets')
  BY <1>1, OneArray DEF Contents
<1> QED
  BY <1>5, <1>6, <1>7

\* A rehash begins with an empty array.
LEMMA BeginRehashEffect ==
    ASSUME IInv, pc # "relink", NEW c \in Nat, BeginRehash(c)
    PROVE  Contents' = Contents /\ Linked(new_buckets') = {}
<1>1. new_buckets' = EmptyBuckets(c) /\ buckets' = buckets
  BY DEF BeginRehash, table
<1>2. Linked(new_buckets') = {}
  BY <1>1, EmptyFacts
<1>3. Contents = Linked(buckets)
  BY OneArray
<1> QED
  BY <1>1, <1>2, <1>3 DEF Contents

\* The capacity of a growth or a reserve is a number of buckets.
LEMMA RehashCapacities ==
    ASSUME IInv
    PROVE  /\ 2 * capacity \in Nat
           /\ \A c \in Capacities : c \in Nat
BY LimitAssumption DEF IInv, TypeOK, Capacities

\* A step that is none of these calls leaves the contents alone, if there is a table.
Keeps ==
    \/ \E r \in Requests : CreateRefused(r) \/ CreateTable(r)
    \/ CreateFails
    \/ \E k \in Keys, v \in Values : PutAllocates(k, v)
    \/ \E k \in Keys : \/ PutRefused(k) \/ GetHits(k)
                       \/ Misses("get", "LOOKUP_MISS", k)
                       \/ Misses("remove", "DELETE_MISS", k)
    \/ \E r \in Requests : ReserveReturns(r) \/ ReserveFails(r) \/ ReserveBegins(r)
    \/ GrowFails \/ Grow \/ Relink \/ EndRehash

LEMMA KeepsEffect == ASSUME IInv, Keeps PROVE Contents' = Contents
<1>1. CASE Relink \/ EndRehash
  BY <1>1, RelinkStep, EndRehashStep
<1>2. CASE Grow
  <2>1. pc = "grow" /\ BeginRehash(2 * capacity)
    BY <1>2 DEF Grow
  <2> QED
    BY <2>1, RehashCapacities, BeginRehashEffect
<1>3. CASE \E r \in Requests : ReserveBegins(r)
  <2>1. pc = "ready" /\ \E c \in Capacities : BeginRehash(c)
    BY <1>3 DEF ReserveBegins
  <2> QED
    BY <2>1, RehashCapacities, BeginRehashEffect
<1>4. CASE ~ Relink /\ ~ EndRehash /\ ~ Grow /\ ~ \E r \in Requests : ReserveBegins(r)
  <2>1. UNCHANGED <<buckets, new_buckets>>
    BY <1>4 DEF Keeps, CreateRefused, CreateTable, CreateFails, PutAllocates, PutRefused,
         GetHits, Misses, ReserveReturns, ReserveFails, GrowFails, GrowthRefused,
         ReadOnly, Idle, table, rehash
  <2> QED
    BY <2>1 DEF Contents
<1> QED
  BY <1>1, <1>2, <1>3, <1>4

LEMMA NextSplits ==
    ASSUME Next
    PROVE  \/ Keeps \/ CreateBuckets \/ Destroy \/ LinkEntry
           \/ \E k \in Keys, v \in Values : PutUpdates(k, v)
           \/ \E k \in Keys : RemoveHits(k)
BY DEF Next, Lifecycle, Calls, Continue, Keeps

-----------------------------------------------------------------------------
(* Entries keep their identity. *)

\* hash_table.c:144-238, 318-418: an entry keeps its id, key and hash until it is removed, and an
\* id that was given up is never given to another entry of the same table.
THEOREM IdentityKept == Spec => EntriesKeepIdentity
<1> DEFINE Known(f) == \E e \in Contents :
                           e.entry_id = f.entry_id /\ e.key = f.key /\ e.hash = f.hash
           New(f) == next_entry_id <= f.entry_id /\ f.entry_id < next_entry_id'
<1>1. ASSUME IInv, Next, pc' \notin {"absent", "create"}, NEW f \in Contents'
      PROVE  Known(f) \/ New(f)
  <2>1. f \in Contents => Known(f)
    OBVIOUS
  <2>2. CASE Keeps
    BY <1>1, <2>1, <2>2, KeepsEffect
  <2>3. CASE CreateBuckets
    <3>1. Contents' = {}
      <4>1. buckets' = EmptyBuckets(new_capacity) /\ new_buckets' = new_buckets
            /\ pc = "create"
        BY <2>3 DEF CreateBuckets
      <4>2. new_capacity \in Nat
        BY <1>1 DEF IInv, TypeOK
      <4> QED
        BY <1>1, <4>1, <4>2, EmptyFacts, OneArray DEF Contents
    <3> QED
      BY <1>1, <3>1
  <2>4. CASE Destroy
    BY <1>1, <2>4 DEF Destroy
  <2>5. CASE LinkEntry
    <3>1. next_entry_id \in Nat /\ next_entry_id' = next_entry_id + 1
      BY <1>1, <2>5 DEF LinkEntry, IInv, TypeOK
    <3>2. Contents' = Contents \cup {entry} /\ entry.entry_id = next_entry_id
      BY <1>1, <2>5, LinkEntryEffect
    <3> QED
      BY <1>1, <2>1, <3>1, <3>2
  <2>6. CASE \E k \in Keys, v \in Values : PutUpdates(k, v)
    <3>1. PICK old \in Contents, new \in Entry :
              /\ new.key = old.key /\ new.entry_id = old.entry_id /\ new.hash = old.hash
              /\ Contents' = (Contents \ {old}) \cup {new}
      BY <1>1, <2>6, PutUpdatesEffect
    <3> QED
      BY <1>1, <2>1, <3>1
  <2>7. CASE \E k \in Keys : RemoveHits(k)
    BY <1>1, <2>1, <2>7, RemoveHitsEffect
  <2> QED
    BY <1>1, <2>2, <2>3, <2>4, <2>5, <2>6, <2>7, NextSplits
<1>2. ASSUME IInv, [Next]_vars
      PROVE  [ pc' \notin {"absent", "create"} =>
                  \A f \in Contents' :
                      \/ \E e \in Contents :
                            e.entry_id = f.entry_id /\ e.key = f.key /\ e.hash = f.hash
                      \/ next_entry_id <= f.entry_id /\ f.entry_id < next_entry_id' ]_vars
  BY <1>1, <1>2
<1> QED
  BY <1>2, Inductive, PTL DEF Spec, EntriesKeepIdentity

-----------------------------------------------------------------------------
(* The table implements the map. *)

\* A step of which the caller sees nothing.
LEMMA Unseen ==
    ASSUME Contents' = Contents, Alive' = Alive, ret' = ret
    PROVE  UNCHANGED Map!vars
BY VisibleIsMapOf DEF Map!vars

\* A call that returns and changes nothing but the result.
LEMMA Seen ==
    ASSUME IInv, Keeps
    PROVE  Visible' = Visible
BY KeepsEffect, VisibleIsMapOf

\* What a table maps.
LEMMA VisibleAt ==
    ASSUME IInv, NEW k \in Keys
    PROVE  /\ \A e \in Contents : e.key = k => Visible[k] = e.value /\ Visible[k] # NULL
           /\ (\A e \in Contents : e.key # k) => Visible[k] = NULL
BY ContentsFacts, MapAt, VisibleIsMapOf

LEMMA NoEntriesNoMap == ASSUME NEW C, C = {} PROVE MapOf(C) = Map!EmptyMap
BY DEF MapOf, Map!EmptyMap

LEMMA MapInit == Init => Map!Init
<1> SUFFICES ASSUME Init PROVE Map!Init
  OBVIOUS
<1>1. buckets = EmptyBuckets(0) /\ new_buckets = EmptyBuckets(0) /\ ~ Alive
  BY DEF Init, Alive
<1>2. Contents = {}
  BY <1>1, EmptyFacts DEF Contents
<1>3. Visible = Map!EmptyMap
  BY <1>2, NoEntriesNoMap, VisibleIsMapOf
<1> QED
  BY <1>1, <1>3 DEF Init, Map!Init

\* ht_create and ht_destroy.
LEMMA LifecycleMaps == ASSUME IInv, IInv', Lifecycle PROVE Map!Next \/ UNCHANGED Map!vars
<1>1. CASE \E r \in Requests : CreateRefused(r)
  <2>1. /\ ~ Alive /\ ~ Alive'
        /\ \E status \in {"NO_MEMORY", "OVERFLOW"} :
              ret' = [op |-> "create", key |-> NULL, status |-> status, out |-> NULL]
    BY <1>1 DEF CreateRefused, Return, Alive
  <2>2. Visible' = Map!EmptyMap
    BY <2>1, NothingAfter, NoEntriesNoMap, VisibleIsMapOf
  <2> QED
    BY <2>1, <2>2 DEF Map!Next, Map!Create, Map!Refused, Map!Return, Alive
<1>2. CASE \E r \in Requests : CreateTable(r)
  <2>1. Alive' = Alive /\ ret' = ret
    BY <1>2 DEF CreateTable, Alive
  <2>2. Contents' = Contents
    BY <1>2, KeepsEffect DEF Keeps
  <2> QED
    BY <2>1, <2>2, Unseen
<1>3. CASE CreateFails
  <2>1. /\ ~ Alive /\ ~ Alive'
        /\ \E status \in {"NO_MEMORY", "OVERFLOW"} :
              ret' = [op |-> "create", key |-> NULL, status |-> status, out |-> NULL]
    BY <1>3 DEF CreateFails, BucketAllocation, Return, Alive
  <2>2. Visible' = Map!EmptyMap
    BY <2>1, NothingAfter, NoEntriesNoMap, VisibleIsMapOf
  <2> QED
    BY <2>1, <2>2 DEF Map!Next, Map!Create, Map!Refused, Map!Return, Alive
<1>4. CASE CreateBuckets
  <2>1. /\ ~ Alive /\ Alive' /\ pc = "create"
        /\ buckets' = EmptyBuckets(new_capacity) /\ new_buckets' = new_buckets
        /\ ret' = [op |-> "create", key |-> NULL, status |-> "OK", out |-> NULL]
    BY <1>4 DEF CreateBuckets, Return, Alive
  <2>2. Contents' = {}
    <3>1. new_capacity \in Nat
      BY DEF IInv, TypeOK
    <3> QED
      BY <2>1, <3>1, EmptyFacts, OneArray DEF Contents
  <2>3. Visible' = Map!EmptyMap
    BY <2>2, NoEntriesNoMap, VisibleIsMapOf
  <2> QED
    BY <2>1, <2>3 DEF Map!Next, Map!Create, Map!Return, Alive
<1>5. CASE Destroy
  <2>1. /\ Alive /\ ~ Alive'
        /\ ret' = [op |-> "destroy", key |-> NULL, status |-> "OK", out |-> NULL]
    BY <1>5 DEF Destroy, Return, Alive
  <2>2. Visible' = Map!EmptyMap
    BY <2>1, NothingAfter, NoEntriesNoMap, VisibleIsMapOf
  <2> QED
    BY <2>1, <2>2 DEF Map!Next, Map!Destroy, Map!Return, Alive
<1> QED
  BY <1>1, <1>2, <1>3, <1>4, <1>5 DEF Lifecycle

\* ht_put, when the key is there, when it is refused, and when its entry is linked.
LEMMA PutMaps ==
    ASSUME IInv, NEW k \in Keys, NEW v \in Values, PutUpdates(k, v)
    PROVE  Map!Put(k, v)
<1>1. /\ Alive /\ Alive' = Alive
      /\ ret' = [op |-> "put", key |-> k, status |-> "OK", out |-> "UPDATED"]
  BY DEF PutUpdates, Idle, Return, Alive
<1>2. PICK old \in Contents, new \in Entry :
          /\ old.key = k /\ new.key = k /\ new.entry_id = old.entry_id /\ new.value = v
          /\ Contents' = (Contents \ {old}) \cup {new}
  BY PutUpdatesEffect
<1>3. Visible' = [Visible EXCEPT ![k] = v]
  BY <1>2, ContentsFacts, MapUpdated, VisibleIsMapOf
<1>4. Visible[k] # NULL
  BY <1>2, VisibleAt
<1> QED
  BY <1>1, <1>3, <1>4 DEF Map!Put, Map!Return

LEMMA LinkMaps ==
    ASSUME IInv, IInv', LinkEntry
    PROVE  entry.key \in Keys /\ entry.value \in Values /\ Map!Put(entry.key, entry.value)
<1>1. /\ Alive /\ Alive' = Alive
      /\ ret' = [op |-> "put", key |-> entry.key, status |-> "OK", out |-> "INSERTED"]
  BY DEF LinkEntry, Return, Alive
<1>2. /\ entry \in Entry /\ Contents' = Contents \cup {entry}
      /\ \A e \in Contents : e.key # entry.key /\ e.entry_id # entry.entry_id
  BY LinkEntryEffect
<1>3. OneEach(Contents) /\ Contents \subseteq Entry
  BY ContentsFacts
<1>4. Visible' = [Visible EXCEPT ![entry.key] = entry.value]
  <2>1. OneEach(Contents \cup {entry})
    BY <1>2, <1>3 DEF OneEach
  <2> QED
    BY <1>2, <1>3, <2>1, MapAdded, VisibleIsMapOf
<1>5. entry.key \in Keys /\ entry.value \in Values
  BY <1>2 DEF Entry
<1>6. Visible[entry.key] = NULL
  BY <1>2, <1>5, VisibleAt
<1> QED
  BY <1>1, <1>4, <1>5, <1>6 DEF Map!Put, Map!Return

LEMMA RefusalMaps ==
    ASSUME IInv, (\E k \in Keys : PutRefused(k)) \/ GrowFails
    PROVE  \E k \in Keys : Map!PutRefused(k)
<1>1. CASE \E k \in Keys : PutRefused(k)
  <2>1. PICK k \in Keys : PutRefused(k)
    BY <1>1
  <2>2. /\ pc = "ready" /\ Alive /\ Alive' = Alive /\ Missing(k)
        /\ \E status \in {"NO_MEMORY", "OVERFLOW"} :
              ret' = [op |-> "put", key |-> k, status |-> status, out |-> NULL]
    BY <2>1 DEF PutRefused, ReadOnly, Idle, Return, Alive
  <2>3. Visible[k] = NULL
    BY <2>2, SearchFacts, VisibleAt
  <2>4. Visible' = Visible
    BY <2>1, Seen DEF Keeps
  <2> QED
    BY <2>2, <2>3, <2>4 DEF Map!PutRefused, Map!Refused, Map!Return
<1>2. CASE GrowFails
  <2>1. /\ pc = "grow" /\ Alive /\ Alive' = Alive
        /\ \E status \in {"NO_MEMORY", "OVERFLOW"} :
              ret' = [op |-> "put", key |-> entry.key, status |-> status, out |-> NULL]
    BY <1>2 DEF GrowFails, GrowthRefused, Growth, BucketAllocation, Return, Alive
  <2>2. entry.key \in Keys /\ \A e \in Contents : e.key # entry.key
    BY <2>1 DEF IInv, TypeOK, WellFormed, Entry
  <2>3. Visible[entry.key] = NULL
    BY <2>2, VisibleAt
  <2>4. Visible' = Visible
    BY <1>2, Seen DEF Keeps
  <2> QED
    BY <2>1, <2>2, <2>3, <2>4 DEF Map!PutRefused, Map!Refused, Map!Return
<1> QED
  BY <1>1, <1>2

\* ht_get and ht_remove, whether they find the key or not.
LEMMA GetMaps ==
    ASSUME IInv, NEW k \in Keys, GetHits(k) \/ Misses("get", "LOOKUP_MISS", k)
    PROVE  Map!Get(k)
<1>1. pc = "ready" /\ Alive /\ Alive' = Alive
  BY DEF GetHits, Misses, ReadOnly, Idle, Alive
<1>2. Visible' = Visible
  BY Seen DEF Keeps
<1>3. CASE GetHits(k)
  <2>1. PICK i \in DOMAIN Chain(k) :
            /\ FoundAt(k, i)
            /\ ret' = [op |-> "get", key |-> k, status |-> "OK", out |-> Chain(k)[i].value]
    BY <1>3 DEF GetHits, Return
  <2>2. Visible[k] = Chain(k)[i].value /\ Visible[k] # NULL
    BY <1>1, <2>1, SearchFacts, VisibleAt
  <2> QED
    BY <1>1, <1>2, <2>1, <2>2 DEF Map!Get, Map!Return
<1>4. CASE Misses("get", "LOOKUP_MISS", k)
  <2>1. /\ Missing(k)
        /\ ret' = [op |-> "get", key |-> k, status |-> "NOT_FOUND", out |-> NULL]
    BY <1>4 DEF Misses, Return
  <2>2. Visible[k] = NULL
    BY <1>1, <2>1, SearchFacts, VisibleAt
  <2> QED
    BY <1>1, <1>2, <2>1, <2>2 DEF Map!Get, Map!Return
<1> QED
  BY <1>3, <1>4

LEMMA RemoveMaps ==
    ASSUME IInv, NEW k \in Keys, RemoveHits(k) \/ Misses("remove", "DELETE_MISS", k)
    PROVE  Map!Remove(k)
<1>1. pc = "ready" /\ Alive /\ Alive' = Alive
  BY DEF RemoveHits, Misses, ReadOnly, Idle, Alive
<1>2. CASE RemoveHits(k)
  <2>1. PICK old \in Contents :
            /\ old.key = k /\ Contents' = Contents \ {old}
            /\ ret' = [op |-> "remove", key |-> k, status |-> "OK", out |-> old.value]
    BY <1>2, RemoveHitsEffect
  <2>2. Visible' = [Visible EXCEPT ![k] = NULL]
    BY <2>1, ContentsFacts, MapRemoved, VisibleIsMapOf
  <2>3. Visible[k] = old.value /\ Visible[k] # NULL
    BY <2>1, VisibleAt
  <2> QED
    BY <1>1, <2>1, <2>2, <2>3 DEF Map!Remove, Map!Return
<1>3. CASE Misses("remove", "DELETE_MISS", k)
  <2>1. /\ Missing(k)
        /\ ret' = [op |-> "remove", key |-> k, status |-> "NOT_FOUND", out |-> NULL]
    BY <1>3 DEF Misses, Return
  <2>2. Visible[k] = NULL
    BY <1>1, <2>1, SearchFacts, VisibleAt
  <2>3. Visible' = Visible
    BY <1>3, Seen DEF Keeps
  <2>4. Visible' = [Visible EXCEPT ![k] = NULL]
    BY <2>2, <2>3 DEF Visible
  <2> QED
    BY <1>1, <2>1, <2>2, <2>4 DEF Map!Remove, Map!Return
<1> QED
  BY <1>2, <1>3

\* ht_reserve returns: at once, or at the end of its rehash.
LEMMA ReserveMaps ==
    ASSUME IInv,
           \/ \E r \in Requests : ReserveReturns(r) \/ ReserveFails(r)
           \/ (EndRehash /\ entry = NULL)
    PROVE  Map!Reserve
<1>1. /\ Alive /\ Alive' = Alive
      /\ \E status \in {"OK", "NO_MEMORY", "OVERFLOW"} :
            ret' = [op |-> "reserve", key |-> NULL, status |-> status, out |-> NULL]
  <2>1. CASE \E r \in Requests : ReserveReturns(r)
    BY <2>1 DEF ReserveReturns, ReadOnly, Idle, Return, Alive
  <2>2. CASE \E r \in Requests : ReserveFails(r)
    BY <2>2 DEF ReserveFails, BucketAllocation, ReadOnly, Idle, Return, Alive
  <2>3. CASE EndRehash /\ entry = NULL
    BY <2>3 DEF EndRehash, Return, Alive
  <2> QED
    BY <2>1, <2>2, <2>3
<1>2. Visible' = Visible
  BY Seen DEF Keeps
<1> QED
  BY <1>1, <1>2 DEF Map!Reserve, Map!Refused, Map!Return

\* The steps within a call.
LEMMA InnerSteps ==
    ASSUME IInv,
           \/ \E k \in Keys, v \in Values : PutAllocates(k, v)
           \/ \E r \in Requests : ReserveBegins(r)
           \/ Grow \/ Relink \/ (EndRehash /\ entry # NULL)
    PROVE  UNCHANGED Map!vars
<1>1. Contents' = Contents
  BY KeepsEffect DEF Keeps
<1>2. Alive' = Alive /\ ret' = ret
  BY DEF PutAllocates, ReserveBegins, BeginRehash, Grow, Relink, EndRehash, Alive
<1> QED
  BY <1>1, <1>2, Unseen

LEMMA MapStep == ASSUME IInv, IInv', [Next]_vars PROVE [Map!Next]_(Map!vars)
<1>1. CASE Lifecycle
  BY <1>1, LifecycleMaps
<1>2. CASE \E k \in Keys, v \in Values : PutUpdates(k, v)
  BY <1>2, PutMaps DEF Map!Next
<1>3. CASE LinkEntry
  BY <1>3, LinkMaps DEF Map!Next
<1>4. CASE (\E k \in Keys : PutRefused(k)) \/ GrowFails
  BY <1>4, RefusalMaps DEF Map!Next
<1>5. CASE \E k \in Keys : GetHits(k) \/ Misses("get", "LOOKUP_MISS", k)
  BY <1>5, GetMaps DEF Map!Next
<1>6. CASE \E k \in Keys : RemoveHits(k) \/ Misses("remove", "DELETE_MISS", k)
  BY <1>6, RemoveMaps DEF Map!Next
<1>7. CASE \/ \E r \in Requests : ReserveReturns(r) \/ ReserveFails(r)
           \/ (EndRehash /\ entry = NULL)
  BY <1>7, ReserveMaps DEF Map!Next
<1>8. CASE \/ \E k \in Keys, v \in Values : PutAllocates(k, v)
           \/ \E r \in Requests : ReserveBegins(r)
           \/ Grow \/ Relink \/ (EndRehash /\ entry # NULL)
  BY <1>8, InnerSteps
<1>9. CASE UNCHANGED vars
  BY <1>9, Unseen DEF vars, table, rehash, Contents, Alive
<1>10. CASE Calls
  BY <1>10, <1>2, <1>4, <1>5, <1>6, <1>7, <1>8 DEF Calls
<1>11. CASE Continue
  <2>1. CASE EndRehash
    <3>1. CASE entry = NULL
      BY <2>1, <3>1, <1>7
    <3>2. CASE entry # NULL
      BY <2>1, <3>2, <1>8
    <3> QED
      BY <3>1, <3>2
  <2>2. CASE GrowFails \/ Grow \/ Relink \/ LinkEntry
    BY <2>2, <1>3, <1>4, <1>8
  <2> QED
    BY <1>11, <2>1, <2>2 DEF Continue
<1> QED
  BY <1>1, <1>9, <1>10, <1>11 DEF Next

\* hash_table.h: for its callers the table is a map.  Every call takes effect at one
\* step, returns what the map would, and a refused one leaves the map alone.
THEOREM TableIsMap == Spec => ImplementsMap
<1>1. Init => Map!Init
  BY MapInit
<1>2. IInv /\ IInv' /\ [Next]_vars => [Map!Next]_(Map!vars)
  BY MapStep
<1> QED
  BY <1>1, <1>2, Inductive, PTL DEF Spec, ImplementsMap, Map!Spec

-----------------------------------------------------------------------------
(* Bucket arrays that a mask can index and a size_t can measure. *)

\* Twice a power of two is one: an odd divisor of 2c divides c.
LEMMA Doubling == ASSUME NEW c \in Nat, IsPowerOfTwo(c) PROVE IsPowerOfTwo(2 * c)
<1>1. c > 0 /\ \A d \in 2..c : c % d = 0 => d % 2 = 0
  BY DEF IsPowerOfTwo
<1>2. ASSUME NEW d \in 2..(2 * c), (2 * c) % d = 0, d % 2 # 0 PROVE FALSE
  <2> DEFINE q == (2 * c) \div d
             a == d \div 2
             p == c - a * q
  <2>1. q \in Nat /\ a \in Nat /\ 2 * c = d * q /\ d = 2 * a + 1
    BY <1>2
  <2>2. d * q = 2 * (a * q) + q
    <3> HIDE DEF q, a
    <3>1. (2 * a + 1) * q = 2 * (a * q) + q
      BY <2>1
    <3> QED
      BY <2>1, <3>1
  <2>3. a * q \in Int
    BY <2>1
  <2>4. p \in Int /\ q = 2 * p
    BY <2>1, <2>2, <2>3
  <2> HIDE DEF q, a, p
  <2>5. c = d * p
    <3>1. d * (2 * p) = 2 * (d * p) /\ d * p \in Int
      BY <2>4
    <3> QED
      BY <2>1, <2>4, <3>1
  <2>6. p > 0
    BY <1>1, <2>4, <2>5
  <2>7. d <= c /\ c % d = 0
    BY <2>4, <2>5, <2>6
  <2> QED
    BY <1>1, <1>2, <2>7
<1> QED
  BY <1>1, <1>2 DEF IsPowerOfTwo

Sized(c) == IsPowerOfTwo(c) /\ c * PointerSize <= SizeMax

\* The capacity of every array, in use or under construction.
ArraysSized ==
    /\ capacity > 0 => Sized(capacity)
    /\ pc = "create" => IsPowerOfTwo(new_capacity)
    /\ pc = "relink" => Sized(new_capacity)

LEMMA SizedStep == ASSUME IInv, ArraysSized, [Next]_vars PROVE ArraysSized'
<1>0. /\ capacity \in Nat /\ new_capacity \in Nat
      /\ pc \in {"ready", "grow", "link", "relink"} => capacity > 0
  BY ReadyFacts DEF IInv, TypeOK
<1>1. CASE \E r \in Requests : CreateTable(r)
  <2>1. IsPowerOfTwo(new_capacity') /\ capacity' = capacity /\ pc' = "create"
    BY <1>1 DEF CreateTable, Normalizes, Capacities, table
  <2> QED
    BY <2>1 DEF ArraysSized
<1>2. CASE CreateBuckets
  <2>1. pc = "create" /\ "OK" \in BucketAllocation(new_capacity)
        /\ capacity' = new_capacity /\ pc' = "ready"
    BY <1>2 DEF CreateBuckets
  <2>2. new_capacity * PointerSize <= SizeMax
    BY <1>0, <2>1, LimitAssumption DEF BucketAllocation
  <2> QED
    BY <2>1, <2>2 DEF ArraysSized, Sized
<1>3. CASE Grow
  <2>1. /\ pc = "grow" /\ "OK" \in Growth
        /\ new_capacity' = 2 * capacity /\ capacity' = capacity /\ pc' = "relink"
    BY <1>3 DEF Grow, BeginRehash, table
  <2>2. (2 * capacity) * PointerSize <= SizeMax
    BY <1>0, <2>1, LimitAssumption DEF Growth, BucketAllocation
  <2>3. IsPowerOfTwo(2 * capacity)
    BY <1>0, <2>1, Doubling DEF ArraysSized, Sized
  <2> QED
    BY <2>1, <2>2, <2>3 DEF ArraysSized, Sized
<1>4. CASE \E r \in Requests : ReserveBegins(r)
  <2>1. PICK c \in Capacities : "OK" \in BucketAllocation(c) /\ BeginRehash(c)
    BY <1>4 DEF ReserveBegins
  <2>2. c * PointerSize <= SizeMax /\ IsPowerOfTwo(c)
    BY <2>1, LimitAssumption DEF BucketAllocation, Capacities
  <2>3. new_capacity' = c /\ capacity' = capacity /\ pc' = "relink"
    BY <2>1 DEF BeginRehash, table
  <2> QED
    BY <2>2, <2>3 DEF ArraysSized, Sized
<1>5. CASE EndRehash
  <2>1. pc = "relink" /\ capacity' = new_capacity /\ pc' \notin {"create", "relink"}
    BY <1>5 DEF EndRehash
  <2> QED
    BY <2>1 DEF ArraysSized
<1>6. CASE Destroy
  BY <1>6 DEF Destroy, ArraysSized
<1>7. CASE \/ \E r \in Requests : CreateRefused(r) \/ ReserveReturns(r) \/ ReserveFails(r)
           \/ CreateFails \/ GrowFails \/ Relink \/ LinkEntry \/ UNCHANGED vars
           \/ \E k \in Keys, v \in Values : PutUpdates(k, v) \/ PutAllocates(k, v)
           \/ \E k \in Keys : \/ PutRefused(k) \/ GetHits(k) \/ RemoveHits(k)
                               \/ Misses("get", "LOOKUP_MISS", k)
                               \/ Misses("remove", "DELETE_MISS", k)
  <2>1. /\ capacity' = capacity
        /\ pc' \notin {"create", "relink"} \/ (pc' = pc /\ new_capacity' = new_capacity)
    BY <1>7 DEF CreateRefused, ReserveReturns, ReserveFails, CreateFails, GrowFails, GrowthRefused,
        Relink, LinkEntry, PutUpdates, PutAllocates, PutRefused, GetHits, RemoveHits, Misses,
        ReadOnly, Idle, vars, table, rehash
  <2> QED
    BY <2>1 DEF ArraysSized
<1>8. CASE Lifecycle
  BY <1>8, <1>1, <1>2, <1>6, <1>7 DEF Lifecycle
<1>9. CASE Calls
  BY <1>9, <1>4, <1>7 DEF Calls
<1>10. CASE Continue
  BY <1>10, <1>3, <1>5, <1>7 DEF Continue
<1> QED
  BY <1>7, <1>8, <1>9, <1>10 DEF Next

\* hash_table.c:37-64: every bucket array has a power of two of buckets, which is what
\* hash & (capacity - 1) needs, and a size_t counts its bytes, at every step of a growth too.
THEOREM ArraysFit == Spec => []ArraysSized
<1>1. Init => ArraysSized
  BY DEF Init, ArraysSized
<1>2. IInv /\ ArraysSized /\ [Next]_vars => ArraysSized'
  BY SizedStep
<1> QED
  BY <1>1, <1>2, Inductive, PTL DEF Spec

-----------------------------------------------------------------------------
(* What the trace sink is told. *)

\* An event is read by its kind.
LEMMA UpdateOrHit ==
    ASSUME trace'.kind \in {"PUT_UPDATED", "LOOKUP_HIT"},
           Chain(ret.key)'[trace'.probe_count].entry_id = trace'.entry_id,
           Chain(ret.key)'[trace'.probe_count].key = ret'.key,
           size' = trace'.size_before
    PROVE  TraceDescribesTable'
BY DEF TraceDescribesTable

LEMMA SilenceDescribes == ASSUME Silent PROVE TraceDescribesTable'
BY DEF Silent, NoTrace, TraceDescribesTable

LEMMA UpdateTold ==
    ASSUME IInv, NEW k \in Keys, NEW v \in Values, PutUpdates(k, v)
    PROVE  TraceDescribesTable'
<1> DEFINE b == BucketIndex(Hash[k], capacity)
<1>1. pc = "ready" /\ capacity' = capacity /\ size' = size /\ ret'.key = k
  BY DEF PutUpdates, Idle, Return
<1>2. PICK i \in DOMAIN buckets[b] :
          /\ FoundAt(k, i)
          /\ buckets' = [buckets EXCEPT ![b][i].value = v]
          /\ Emit("PUT_UPDATED", "OK", buckets[b][i].entry_id, i, 0)
  BY DEF PutUpdates
<1>3. b \in DOMAIN buckets /\ buckets[b] \in Seq(Entry)
  BY <1>1, ReadyFacts DEF IInv, TypeOK
<1>4. buckets[b][i] \in Entry /\ buckets[b][i].key = k
  BY <1>2, <1>3 DEF FoundAt, Matches, Chain
<1>5. buckets'[b][i] = [buckets[b][i] EXCEPT !.value = v]
  BY <1>2, <1>3
<1>6. buckets'[b][i].entry_id = buckets[b][i].entry_id /\ buckets'[b][i].key = k
  BY <1>4, <1>5 DEF Entry
<1>7. Chain(ret.key)' = buckets'[b]
  BY <1>1 DEF Chain
<1>8. /\ trace'.kind = "PUT_UPDATED" /\ trace'.probe_count = i
      /\ trace'.entry_id = buckets[b][i].entry_id /\ trace'.size_before = size
  BY <1>2 DEF Emit
<1> HIDE DEF b
<1> QED
  BY <1>1, <1>6, <1>7, <1>8, UpdateOrHit

LEMMA HitTold == ASSUME IInv, NEW k \in Keys, GetHits(k) PROVE TraceDescribesTable'
<1>1. PICK i \in DOMAIN Chain(k) :
          FoundAt(k, i) /\ Emit("LOOKUP_HIT", "OK", Chain(k)[i].entry_id, i, 0)
  BY DEF GetHits
<1>2. size' = size /\ capacity' = capacity /\ buckets' = buckets /\ ret'.key = k
  BY DEF GetHits, ReadOnly, Idle, Return
<1>3. Chain(ret.key)' = Chain(k)
  BY <1>2 DEF Chain
<1>4. /\ trace'.kind = "LOOKUP_HIT" /\ trace'.probe_count = i
      /\ trace'.entry_id = Chain(k)[i].entry_id /\ trace'.size_before = size
  BY <1>1 DEF Emit
<1>5. Chain(k)[i].key = k
  BY <1>1 DEF FoundAt, Matches
<1> QED
  BY <1>2, <1>3, <1>4, <1>5, UpdateOrHit

LEMMA MissTold ==
    ASSUME IInv, NEW k \in Keys, NEW op, NEW kind \in {"LOOKUP_MISS", "DELETE_MISS"},
           Misses(op, kind, k)
    PROVE  TraceDescribesTable'
<1>1. /\ pc = "ready" /\ Missing(k) /\ Emit(kind, "NOT_FOUND", 0, Len(Chain(k)), 0)
      /\ buckets' = buckets /\ capacity' = capacity /\ new_buckets' = new_buckets
      /\ ret'.key = k
  BY DEF Misses, ReadOnly, Idle, Return, rehash
<1>2. \A e \in Contents' : e.key # ret'.key
  <2>1. Contents' = Contents
    BY <1>1 DEF Contents
  <2> QED
    BY <1>1, <2>1, SearchFacts
<1>3. trace'.kind = kind /\ trace'.probe_count = Len(Chain(k))
  BY <1>1 DEF Emit
<1>4. Chain(ret.key)' = Chain(k)
  BY <1>1 DEF Chain
<1> QED
  BY <1>2, <1>3, <1>4 DEF TraceDescribesTable

LEMMA RemovalTold == ASSUME IInv, NEW k \in Keys, RemoveHits(k) PROVE TraceDescribesTable'
<1>1. PICK old \in Contents :
          /\ old.key = k /\ Contents' = Contents \ {old} /\ trace'.entry_id = old.entry_id
          /\ ret' = [op |-> "remove", key |-> k, status |-> "OK", out |-> old.value]
  BY RemoveHitsEffect
<1>2. trace'.kind = "DELETE_HIT" /\ trace'.size_before = size /\ size' = size - 1
  BY DEF RemoveHits, Emit
<1>3. \A e \in Contents' : e.key # ret'.key /\ e.entry_id # trace'.entry_id
  <2>1. OneEach(Contents)
    BY ContentsFacts
  <2> QED
    BY <1>1, <2>1 DEF OneEach
<1> QED
  BY <1>2, <1>3 DEF TraceDescribesTable

LEMMA InsertionTold == ASSUME IInv, LinkEntry PROVE TraceDescribesTable'
<1> DEFINE b == BucketIndex(entry.hash, capacity)
<1>1. /\ Emit("PUT_INSERTED", "OK", entry.entry_id, Len(buckets[b]), 0)
      /\ size' = size + 1 /\ next_entry_id' = next_entry_id + 1 /\ capacity' = capacity
      /\ ret'.key = entry.key
  BY DEF LinkEntry, Return
<1>2. /\ entry \in Entry /\ entry.entry_id = next_entry_id /\ entry.hash = Hash[entry.key]
      /\ buckets' = [buckets EXCEPT ![b] = Cons(entry, @)] /\ b \in DOMAIN buckets
  BY LinkEntryEffect
<1>3. buckets[b] \in Seq(Entry) /\ next_entry_id \in Nat /\ size \in Nat
  BY <1>2 DEF IInv, TypeOK
<1>4. Chain(ret.key)' = <<entry>> \o buckets[b]
  BY <1>1, <1>2 DEF Chain, Cons
<1>5. Head(<<entry>> \o buckets[b]) = entry /\ Len(<<entry>> \o buckets[b]) = Len(buckets[b]) + 1
  BY <1>2, <1>3
<1>6. /\ trace'.kind = "PUT_INSERTED" /\ trace'.entry_id = entry.entry_id
      /\ trace'.probe_count = Len(buckets[b]) /\ trace'.size_before = size
  BY <1>1 DEF Emit
<1>7. next_entry_id' - 1 = next_entry_id
  BY <1>1, <1>3
<1> HIDE DEF b
<1> QED
  BY <1>1, <1>2, <1>4, <1>5, <1>6, <1>7 DEF TraceDescribesTable

LEMMA BeginTold ==
    ASSUME NEW c \in Nat, BeginRehash(c) PROVE TraceDescribesTable'
<1>1. /\ new_buckets' = EmptyBuckets(c) /\ size' = size /\ capacity' = capacity
      /\ Emit("REHASH_BEGIN", "OK", 0, 0, 0)
  BY DEF BeginRehash, table
<1>2. Linked(new_buckets') = {}
  BY <1>1, EmptyFacts
<1> QED
  BY <1>1, <1>2 DEF Emit, TraceDescribesTable

LEMMA EndTold == ASSUME IInv, ArraysSized, EndRehash PROVE TraceDescribesTable'
<1>1. /\ pc = "relink" /\ LoopDone /\ Emit("REHASH_END", "OK", 0, 0, moved_count)
      /\ capacity' = new_capacity /\ size' = size
  BY DEF EndRehash
<1>2. Linked(buckets) = {}
  BY <1>1 DEF LoopDone, Linked, ToSet
<1>3. size = moved_count
  BY <1>2, FS_EmptySet DEF IInv, TypeOK, Counted, SizeCounts
<1>4. new_capacity > capacity /\ Sized(new_capacity)
  BY <1>1 DEF IInv, LoadBounded, ArraysSized
<1>5. /\ trace'.kind = "REHASH_END" /\ trace'.moved_count = moved_count
      /\ trace'.size_before = size /\ trace'.capacity_before = capacity
  BY <1>1 DEF Emit
<1> QED
  BY <1>1, <1>3, <1>4, <1>5 DEF TraceDescribesTable, Sized

LEMMA FailureTold ==
    ASSUME IInv, GrowFails \/ \E r \in Requests : ReserveFails(r)
    PROVE  TraceDescribesTable'
<1>1. /\ size' = size /\ capacity' = capacity /\ entry' = NULL
      /\ \/ Silent
         \/ \E status : Emit("REHASH_FAILED", status, 0, 0, 0) /\ ret'.status = status
  <2>1. CASE GrowFails
    BY <2>1 DEF GrowFails, GrowthRefused, Return, table
  <2>2. CASE \E r \in Requests : ReserveFails(r)
    BY <2>2 DEF ReserveFails, ReadOnly, Idle, Return, IInv, TypeOK
  <2> QED
    BY <2>1, <2>2
<1>2. CASE \E status : Emit("REHASH_FAILED", status, 0, 0, 0) /\ ret'.status = status
  <2>1. /\ trace'.kind = "REHASH_FAILED" /\ trace'.status = ret'.status
        /\ trace'.size_before = size /\ trace'.capacity_before = capacity
    BY <1>2 DEF Emit
  <2> QED
    BY <1>1, <2>1 DEF TraceDescribesTable
<1> QED
  BY <1>1, <1>2, SilenceDescribes

LEMMA EveryEventTold ==
    ASSUME IInv, ArraysSized, TraceDescribesTable, [Next]_vars PROVE TraceDescribesTable'
<1>1. CASE UNCHANGED vars
  <2>1. /\ Contents' = Contents /\ Chain(ret.key)' = Chain(ret.key)
        /\ UNCHANGED <<buckets, size, capacity, next_entry_id, new_buckets, trace, ret, entry>>
    BY <1>1 DEF vars, table, rehash, Contents, Chain
  <2> QED
    BY <2>1 DEF TraceDescribesTable
<1>2. CASE Lifecycle
  <2>1. Silent
    BY <1>2 DEF Lifecycle, CreateRefused, CreateTable, CreateFails, CreateBuckets, Destroy
  <2> QED
    BY <2>1, SilenceDescribes
<1>3. CASE \/ \E k \in Keys, v \in Values : PutAllocates(k, v)
           \/ \E k \in Keys : PutRefused(k)
           \/ \E r \in Requests : ReserveReturns(r)
           \/ Relink
  <2>1. Silent
    BY <1>3 DEF PutAllocates, PutRefused, ReserveReturns, Relink
  <2> QED
    BY <2>1, SilenceDescribes
<1>4. CASE Grow \/ \E r \in Requests : ReserveBegins(r)
  <2>1. BeginRehash(2 * capacity) \/ \E c \in Capacities : BeginRehash(c)
    BY <1>4 DEF Grow, ReserveBegins
  <2> QED
    BY <2>1, RehashCapacities, BeginTold
<1>5. CASE Calls
  BY <1>3, <1>4, <1>5, UpdateTold, HitTold, MissTold, RemovalTold, FailureTold DEF Calls
<1>6. CASE Continue
  BY <1>3, <1>4, <1>6, InsertionTold, EndTold, FailureTold DEF Continue
<1> QED
  BY <1>1, <1>2, <1>5, <1>6 DEF Next

\* hash_table.c:110-121, ht_emit_trace and its callers: every event the sink is given agrees
\* with the table the sink can read at that moment, in mid-rehash too.
THEOREM TraceIsTrue == Spec => []TraceDescribesTable
<1>1. Init => TraceDescribesTable
  BY DEF Init, NoTrace, TraceDescribesTable
<1>2. IInv /\ ArraysSized /\ TraceDescribesTable /\ [Next]_vars => TraceDescribesTable'
  BY EveryEventTold
<1> QED
  BY <1>1, <1>2, Inductive, ArraysFit, PTL DEF Spec

-----------------------------------------------------------------------------
(* How long a call can run: what TLC checks as liveness rests on a number that *)
(* every step of a call lowers, and that the size bounds.                      *)

\* The steps a call still has before it at most: of a growth, its beginning, one for each
\* entry not yet moved, its end and the link of the new entry.
StepsLeft ==
    IF pc \in {"absent", "ready"} THEN 0
    ELSE IF pc \in {"create", "link"} THEN 1
    ELSE IF pc = "relink" THEN 2 + (size - moved_count)
    ELSE 3 + size

CallIsShort == StepsLeft \in 0..(size + 3)

LEMMA LeftToMove ==
    ASSUME IInv PROVE size \in Nat /\ moved_count \in Nat /\ moved_count <= size
<1>1. Cardinality(Linked(buckets)) \in Nat /\ Cardinality(Linked(new_buckets)) \in Nat
  BY FS_CardinalityType DEF IInv, Counted
<1> QED
  BY <1>1 DEF IInv, TypeOK, Counted, SizeCounts

LEMMA StepsLeftBound == ASSUME IInv PROVE CallIsShort
  BY LeftToMove DEF StepsLeft, CallIsShort, IInv, TypeOK, PCs

\* In the middle of a call the only steps are the rest of that call.
LEMMA OnlyTheCall ==
    ASSUME [Next]_vars, pc \notin {"absent", "ready"}
    PROVE  Continue \/ CreateFails \/ CreateBuckets \/ UNCHANGED vars
  BY DEF Next, Lifecycle, Calls, CreateRefused, CreateTable, Destroy, PutUpdates, PutAllocates,
         PutRefused, GetHits, Misses, RemoveHits, ReserveReturns, ReserveFails, ReserveBegins,
         ReadOnly, Idle

LEMMA StepsLeftFall ==
    ASSUME IInv, IInv', Continue \/ CreateFails \/ CreateBuckets
    PROVE  StepsLeft' < StepsLeft
<1>1. size \in Nat /\ moved_count \in Nat /\ moved_count <= size
  BY LeftToMove
<1>2. CASE CreateFails \/ CreateBuckets
  BY <1>2 DEF CreateFails, CreateBuckets, StepsLeft
<1>3. CASE GrowFails \/ LinkEntry
  BY <1>1, <1>3 DEF GrowFails, GrowthRefused, LinkEntry, StepsLeft
<1>4. CASE Grow
  BY <1>1, <1>4 DEF Grow, BeginRehash, table, StepsLeft
<1>5. CASE Relink
  BY <1>1, <1>5 DEF Relink, StepsLeft
<1>6. CASE EndRehash
  BY <1>1, <1>6 DEF EndRehash, StepsLeft
<1> QED
  BY <1>2, <1>3, <1>4, <1>5, <1>6 DEF Continue

\* ht_put, ht_reserve, ht_rehash and ht_create, hash_table.c: once a call has begun, every
\* step of the table is one of that call and brings it nearer its return, of which it is never
\* farther than the size and three steps: a rehash moves no entry twice, however the chains
\* are shared out, and only one growth belongs to an insertion.
THEOREM CallsAreShort ==
    Spec => []CallIsShort /\ [][pc \notin {"absent", "ready"} => StepsLeft' < StepsLeft]_vars
<1>1. IInv => CallIsShort
  BY StepsLeftBound
<1>2. IInv /\ IInv' /\ [Next]_vars
      => [pc \notin {"absent", "ready"} => StepsLeft' < StepsLeft]_vars
  BY OnlyTheCall, StepsLeftFall
<1> QED
  BY <1>1, <1>2, Inductive, PTL DEF Spec

=============================================================================
