-------------------------- MODULE JsonEncoder_proofs --------------------------
(***************************************************************************)
(* The encoder, for every document, every SIZE_MAX, every initial capacity *)
(* and all sizes of the pieces: what is written fits, the buffer is freed  *)
(* once, and a document that arrives is read to the frames asked for.      *)
(*                                                                         *)
(* BufferInv adds what holds while a capacity is looked for: the addition  *)
(* for the next piece has been checked, so that what is required does not  *)
(* wrap.                                                                   *)
(*                                                                         *)
(* DocumentInv says that what is written, followed by what is to be        *)
(* written next, leads the reader to the first frames that were asked for, *)
(* each with the chains of its snapshot; and that the length counted is    *)
(* that of what is written. Parsed and the length are folds over the       *)
(* document: they are unfolded into functions along its positions, whose   *)
(* result for one piece more is one step more. What the reader makes of an *)
(* entry, a bucket, a snapshot and a frame follows, one from the other.    *)
(* Inductions are by the smallest counterexample (AllNumbers).             *)
(*                                                                         *)
(* How much is left of an encoding is counted in frames, then in pieces of *)
(* the frame at hand, then in the bytes that a capacity still lacks.       *)
(***************************************************************************)
EXTENDS JsonEncoder, WellFoundedInduction, TLAPS

-----------------------------------------------------------------------------
(* The buffer. *)

BufferTypes ==
    /\ length \in Nat /\ capacity \in Nat /\ wanted \in Nat
    /\ 0 < wanted /\ wanted <= SizeMax
    /\ blocks \in Nat
    /\ pc \in {"appending", "growing", "returned"}

IsChecked == pc = "growing" => CanReserve(NextSize)

BufferInv == BufferTypes /\ IsChecked /\ WritesFit /\ BufferIsFreedOnce

\* A piece has a size.
LEMMA SizesAreNumbers == ASSUME NEW piece PROVE SizeOf(piece) \in Nat
  BY EncoderAssumption DEF SizeOf

\* Nothing wraps that a size_t can hold.
LEMMA WrapKeeps == ASSUME NEW n \in Nat, n <= SizeMax PROVE Wrap(n) = n
  BY EncoderAssumption DEF Wrap

\* What is required for a piece that was checked.
LEMMA RequiredIsTrue ==
    ASSUME BufferInv, NEW size \in Nat, CanReserve(size)
    PROVE  /\ Required(size) = length + size + 1 /\ length + size + 1 <= SizeMax
           /\ Wrap(length + size) = length + size
<1>1. length + size + 1 \in Nat /\ length + size \in Nat /\ length + size + 1 <= SizeMax
  BY EncoderAssumption DEF BufferInv, BufferTypes, CanReserve
<1> QED
  BY <1>1, WrapKeeps, EncoderAssumption DEF Required

\* It holds at first.
LEMMA InitBufferInv == Init => BufferInv
  BY EncoderAssumption DEF Init, BufferInv, BufferTypes, IsChecked, WritesFit, BufferIsFreedOnce

\* A failing call has freed its buffer, if it had one.
LEMMA FailsKeeps ==
    ASSUME BufferInv, pc # "returned", NEW status, Fails(status)
    PROVE  BufferInv'
<1> USE DEF Fails, Frees, Returns
<1>1. BufferTypes' /\ BufferIsFreedOnce'
  BY DEF BufferInv, BufferTypes, BufferIsFreedOnce
<1>2. IsChecked' /\ WritesFit'
  BY DEF BufferInv, IsChecked, WritesFit
<1> QED
  BY <1>1, <1>2 DEF BufferInv

\* A piece that fits is written within the capacity; for one that does not, the search
\* begins with what is there.
LEMMA AppendPieceKeeps == ASSUME BufferInv, AppendPiece PROVE BufferInv'
<1> DEFINE size == NextSize
<1>1. size \in Nat
  BY SizesAreNumbers DEF NextSize
<1> HIDE DEF size
<1>2. pc = "appending" /\ CanReserve(size) /\ UNCHANGED <<capacity, blocks>>
  BY DEF AppendPiece, size
<1>3. /\ Required(size) = length + size + 1 /\ length + size + 1 <= SizeMax
      /\ Wrap(length + size) = length + size
  BY <1>1, <1>2, RequiredIsTrue
<1>4. CASE Required(size) <= capacity
  <2>1. length' = length + size /\ UNCHANGED <<pc, wanted>>
    BY <1>3, <1>4 DEF AppendPiece, Writes, size
  <2> QED
    BY <1>1, <1>2, <1>3, <1>4, <2>1
       DEF BufferInv, BufferTypes, IsChecked, WritesFit, BufferIsFreedOnce
<1>5. CASE ~(Required(size) <= capacity)
  <2>1. /\ pc' = "growing" /\ wanted' = IF capacity = 0 THEN InitialCapacity ELSE capacity
        /\ UNCHANGED <<rest, length>>
    BY <1>5 DEF AppendPiece, size
  <2>2. IsChecked'
    BY <1>2, <2>1 DEF IsChecked, CanReserve, NextSize, size
  <2> QED
    BY <1>1, <1>2, <2>1, <2>2, EncoderAssumption
       DEF BufferInv, BufferTypes, WritesFit, BufferIsFreedOnce
<1> QED
  BY <1>4, <1>5

\* A capacity that is looked for does not wrap: it is doubled only up to the half of the
\* largest size.
LEMMA GrowKeeps == ASSUME BufferInv, Grow PROVE BufferInv'
<1> DEFINE size == NextSize
<1>1. size \in Nat
  BY SizesAreNumbers DEF NextSize
<1> HIDE DEF size
<1>2. /\ pc = "growing" /\ CanReserve(size) /\ wanted' = Grown(size)
      /\ UNCHANGED <<pc, rest, length, capacity, blocks>>
  BY DEF Grow, BufferInv, IsChecked, size
<1>3. Required(size) = length + size + 1 /\ length + size + 1 <= SizeMax
  BY <1>1, <1>2, RequiredIsTrue
<1>4. wanted' \in Nat /\ 0 < wanted' /\ wanted' <= SizeMax
  <2>1. CASE wanted > SizeMax \div 2
    BY <1>1, <1>2, <1>3, <2>1 DEF Grown, BufferInv, BufferTypes
  <2>2. CASE ~(wanted > SizeMax \div 2)
    <3>1. 2 * wanted \in Nat /\ 2 * wanted <= SizeMax
      BY <2>2, EncoderAssumption DEF BufferInv, BufferTypes
    <3>2. wanted' = 2 * wanted
      BY <1>2, <2>2, <3>1, WrapKeeps DEF Grown
    <3> QED
      BY <3>1, <3>2 DEF BufferInv, BufferTypes
  <2> QED
    BY <2>1, <2>2
<1>5. IsChecked'
  BY <1>2 DEF IsChecked, CanReserve, NextSize, size
<1> QED
  BY <1>2, <1>4, <1>5 DEF BufferInv, BufferTypes, WritesFit, BufferIsFreedOnce

\* The new buffer holds what was there, the piece and the NUL.
LEMMA ReallocateKeeps == ASSUME BufferInv, Reallocate PROVE BufferInv'
<1> DEFINE size == NextSize
<1>1. size \in Nat
  BY SizesAreNumbers DEF NextSize
<1> HIDE DEF size
<1>2. /\ pc = "growing" /\ CanReserve(size) /\ wanted >= Required(size)
      /\ capacity' = wanted /\ wanted' = wanted /\ pc' = "appending"
      /\ blocks' = (IF capacity = 0 THEN blocks + 1 ELSE blocks)
      /\ length' = Wrap(length + size)
  BY DEF Reallocate, Writes, BufferInv, IsChecked, size
<1>3. /\ Required(size) = length + size + 1 /\ length + size + 1 <= SizeMax
      /\ Wrap(length + size) = length + size
  BY <1>1, <1>2, RequiredIsTrue
<1> QED
  BY <1>1, <1>2, <1>3 DEF BufferInv, BufferTypes, IsChecked, WritesFit, BufferIsFreedOnce

\* Between pieces the buffer stays as it is, and with the document it is given back.
LEMMA OthersKeep ==
    ASSUME BufferInv, BeginFrame \/ EndDocument \/ CopyJson
    PROVE  BufferInv'
<1>1. CASE BeginFrame \/ EndDocument
  BY <1>1 DEF BeginFrame, EndDocument, buffervars, BufferInv, BufferTypes, IsChecked, WritesFit,
              BufferIsFreedOnce
<1>2. CASE CopyJson
  BY <1>2 DEF CopyJson, IsEncoded, Frees, Returns, BufferInv, BufferTypes, IsChecked, WritesFit,
              BufferIsFreedOnce
<1> QED
  BY <1>1, <1>2

\* Every step keeps the invariant.
LEMMA NextKeeps == BufferInv /\ [Next]_vars => BufferInv'
<1> SUFFICES ASSUME BufferInv, [Next]_vars PROVE BufferInv'
    OBVIOUS
<1>1. CASE UNCHANGED vars
  BY <1>1 DEF vars, buffervars, BufferInv, BufferTypes, IsChecked, CanReserve, NextSize, WritesFit,
              BufferIsFreedOnce
<1>2. CASE AppendPiece \/ Grow \/ Reallocate
  BY <1>2, AppendPieceKeeps, GrowKeeps, ReallocateKeeps
<1>3. CASE IsTooLong \/ HasNoMemory \/ MissesFrame \/ CannotCopy
  BY <1>3, FailsKeeps DEF IsTooLong, HasNoMemory, MissesFrame, CannotCopy, IsEncoded
<1>4. CASE BeginFrame \/ EndDocument \/ CopyJson
  BY <1>4, OthersKeep
<1> QED
  BY <1>1, <1>2, <1>3, <1>4 DEF Next

LEMMA BufferInvHolds == Spec => []BufferInv
  BY InitBufferInv, NextKeeps, PTL DEF Spec

-----------------------------------------------------------------------------
(* A document is read, and its length counted, piece by piece. *)

\* What holds for 0 and, with a number, for the next one, holds for all numbers.
LEMMA AllNumbers ==
    ASSUME NEW H, 0 \in H, \A n \in Nat : n \in H => n + 1 \in H
    PROVE  Nat \subseteq H
<1> DEFINE T == Nat \ H
<1> SUFFICES ASSUME T # {} PROVE FALSE
  OBVIOUS
<1>1. \E x \in T : \A y \in T : ~ (<<y, x>> \in OpToRel(<, Nat))
  BY NatLessThanWellFounded, WFMin
<1>2. PICK x \in T : \A y \in T : ~ (y < x)
  BY <1>1 DEF OpToRel
<1>3. x # 0 /\ x - 1 \in Nat /\ x - 1 < x /\ (x - 1) + 1 = x
  BY <1>2
<1>4. x - 1 \in H
  BY <1>2, <1>3
<1> QED
  BY <1>2, <1>3, <1>4

Kinds == {"head", "value", "frames", "frame", "snapshot", "bucket", "entry", "key",
          "entry end", ",", "]}", "}"}

PieceRecord == [kind : Kinds, id : Nat]

\* The two folds over a document: its reading, and its length.
Taken(fold, value, piece) ==
    IF fold = "reading" THEN Reads(value, piece) ELSE value + SizeOf(piece)

Newest(s) == CHOOSE x \in s : \A y \in s : x >= y

FoldStep(fold, base, pieces, g, s) ==
    IF s = {} THEN base ELSE Taken(fold, g[s \ {Newest(s)}], pieces[Newest(s)])

FoldsAlong(fold, base, pieces, g) ==
    g = [s \in SUBSET DOMAIN pieces |-> FoldStep(fold, base, pieces, g, s)]

Result(fold, base, pieces) ==
    (CHOOSE g : FoldsAlong(fold, base, pieces, g))[DOMAIN pieces]

EmptyReader == [open |-> <<>>, after |-> "begin", good |-> TRUE, frames |-> <<>>]

LEMMA ParsedIsResult ==
    ASSUME NEW document PROVE Parsed(document) = Result("reading", EmptyReader, document)
  BY DEF Parsed, FoldLeft, MapThenFoldSet, Max, Result, FoldsAlong, FoldStep, Newest, Taken, EmptyReader

LEMMA LengthIsResult ==
    ASSUME NEW document
    PROVE  FoldLeft(LAMBDA sum, piece : sum + SizeOf(piece), 0, document)
              = Result("length", 0, document)
  BY DEF FoldLeft, MapThenFoldSet, Max, Result, FoldsAlong, FoldStep, Newest, Taken

\* A set of positions has a last one.
LEMMA NewestIsLast ==
    ASSUME NEW k \in Nat, NEW s \in SUBSET (1..k), s # {}
    PROVE  Newest(s) \in s /\ \A y \in s : y <= Newest(s)
<1> DEFINE H == {n \in Nat : \A t \in SUBSET (1..n) : t # {} => \E x \in t : \A y \in t : x >= y}
<1>1. 0 \in H
  <2>1. \A t \in SUBSET (1..0) : t = {}
    OBVIOUS
  <2> QED
    BY <2>1
<1>2. ASSUME NEW n \in Nat, n \in H PROVE n + 1 \in H
  <2> SUFFICES ASSUME NEW t \in SUBSET (1..(n + 1)), t # {}
               PROVE  \E x \in t : \A y \in t : x >= y
    OBVIOUS
  <2>1. CASE n + 1 \in t
    BY <2>1
  <2>2. CASE n + 1 \notin t
    <3>1. t \in SUBSET (1..n)
      BY <2>2
    <3> QED
      BY <1>2, <3>1
  <2> QED
    BY <2>1, <2>2
<1> HIDE DEF H
<1>3. k \in H
  BY <1>1, <1>2, AllNumbers
<1>4. \E x \in s : \A y \in s : x >= y
  BY <1>3 DEF H
<1>5. Newest(s) \in s /\ \A y \in s : Newest(s) >= y
  BY <1>4 DEF Newest
<1>6. \A y \in s : y \in Nat
  OBVIOUS
<1> HIDE DEF H
<1> QED
  BY <1>5, <1>6

LEMMA NewestFacts ==
    ASSUME NEW k \in Nat
    PROVE  /\ \A s \in SUBSET (1..(k + 1)) : s # {} => s \ {Newest(s)} \in SUBSET (1..k)
           /\ Newest(1..(k + 1)) = k + 1
           /\ (1..(k + 1)) \ {Newest(1..(k + 1))} = 1..k
           /\ 1..(k + 1) # {}
<1>1. ASSUME NEW s \in SUBSET (1..(k + 1)), s # {} PROVE s \ {Newest(s)} \in SUBSET (1..k)
  <2>1. Newest(s) \in s /\ \A y \in s : y <= Newest(s)
    BY <1>1, NewestIsLast
  <2>2. \A y \in s : y \in 1..(k + 1)
    OBVIOUS
  <2> DEFINE last == Newest(s)
  <2> HIDE DEF last
  <2>3. last \in 1..(k + 1) /\ \A y \in s : y <= last /\ y \in 1..(k + 1)
    BY <2>1, <2>2 DEF last
  <2>4. \A y \in s \ {last} : y \in 1..k
    BY <2>3
  <2> QED
    BY <2>4 DEF last
<1>2. Newest(1..(k + 1)) = k + 1
  <2> DEFINE s == 1..(k + 1)
  <2>1. s \in SUBSET (1..(k + 1)) /\ s # {} /\ k + 1 \in s /\ k + 1 \in Nat
    OBVIOUS
  <2> HIDE DEF s
  <2>2. Newest(s) \in s /\ \A y \in s : y <= Newest(s)
    BY <2>1, NewestIsLast
  <2> USE DEF s
  <2> QED
    BY <2>1, <2>2
<1> QED
  BY <1>1, <1>2

\* The fold exists: its values for positions up to k lead to those up to k + 1.
FoldsTo(fold, base, pieces, k, g) ==
    g = [s \in SUBSET (1..k) |-> FoldStep(fold, base, pieces, g, s)]

LEMMA FoldExists ==
    ASSUME NEW fold, NEW base, NEW pieces, NEW k \in Nat
    PROVE  \E g : FoldsTo(fold, base, pieces, k, g)
<1> DEFINE H == {n \in Nat : \E g : FoldsTo(fold, base, pieces, n, g)}
<1>1. 0 \in H
  <2> DEFINE g == [s \in SUBSET (1..0) |-> base]
  <2>1. \A s \in SUBSET (1..0) : s = {}
    OBVIOUS
  <2>2. FoldsTo(fold, base, pieces, 0, g)
    BY <2>1 DEF FoldsTo, FoldStep
  <2> QED
    BY <2>2
<1>2. ASSUME NEW n \in Nat, n \in H PROVE n + 1 \in H
  <2>1. PICK g : FoldsTo(fold, base, pieces, n, g)
    BY <1>2
  <2> DEFINE h == [s \in SUBSET (1..(n + 1)) |-> FoldStep(fold, base, pieces, g, s)]
  <2>2. \A s \in SUBSET (1..n) : s \in SUBSET (1..(n + 1))
    OBVIOUS
  <2>3. \A s \in SUBSET (1..n) : h[s] = g[s]
    BY <2>1, <2>2 DEF FoldsTo
  <2>4. \A s \in SUBSET (1..(n + 1)) : s # {} => s \ {Newest(s)} \in SUBSET (1..n)
    BY NewestFacts
  <2>5. \A s \in SUBSET (1..(n + 1)) : h[s] = FoldStep(fold, base, pieces, h, s)
    BY <2>3, <2>4 DEF FoldStep
  <2>6. h = [s \in SUBSET (1..(n + 1)) |-> h[s]]
    OBVIOUS
  <2> HIDE DEF h
  <2>7. FoldsTo(fold, base, pieces, n + 1, h)
    BY <2>5, <2>6 DEF FoldsTo
  <2> QED
    BY <2>7
<1> HIDE DEF H
<1>3. k \in H
  BY <1>1, <1>2, AllNumbers
<1> QED
  BY <1>3 DEF H

\* So it goes along the document.
GoesAlong(fold, base, pieces, g) ==
    /\ g[1..Len(pieces)] = Result(fold, base, pieces)
    /\ g[1..0] = base
    /\ \A k \in 0..(Len(pieces) - 1) : g[1..(k + 1)] = Taken(fold, g[1..k], pieces[k + 1])

LEMMA FoldGoesAlong ==
    ASSUME NEW fold, NEW base, NEW pieces \in Seq(PieceRecord)
    PROVE  \E g : GoesAlong(fold, base, pieces, g)
<1> DEFINE g == CHOOSE g : FoldsAlong(fold, base, pieces, g)
           n == Len(pieces)
<1>1. n \in Nat /\ DOMAIN pieces = 1..n
  OBVIOUS
<1>2. \E f : FoldsAlong(fold, base, pieces, f)
  <2>1. PICK f : FoldsTo(fold, base, pieces, Len(pieces), f)
    BY <1>1, FoldExists
  <2>2. FoldsAlong(fold, base, pieces, f)
    BY <1>1, <2>1 DEF FoldsAlong, FoldsTo
  <2> QED
    BY <2>2
<1>3. FoldsAlong(fold, base, pieces, g)
  BY <1>2
<1>4. g[1..n] = Result(fold, base, pieces)
  BY <1>1 DEF Result
<1> HIDE DEF g, n
<1>5. \A s \in SUBSET (1..n) : g[s] = FoldStep(fold, base, pieces, g, s)
  BY <1>1, <1>3 DEF FoldsAlong
<1>6. g[1..0] = base
  <2>1. 1..0 = {} /\ {} \in SUBSET (1..n)
    OBVIOUS
  <2> QED
    BY <1>5, <2>1 DEF FoldStep
<1>7. ASSUME NEW k \in 0..(n - 1) PROVE g[1..(k + 1)] = Taken(fold, g[1..k], pieces[k + 1])
  <2>1. k \in Nat /\ 1..(k + 1) \in SUBSET (1..n)
    BY <1>1
  <2> QED
    BY <1>5, <2>1, NewestFacts DEF FoldStep
<1>8. GoesAlong(fold, base, pieces, g)
  BY <1>4, <1>6, <1>7 DEF GoesAlong, n
<1> QED
  BY <1>8

LEMMA ResultOfNone ==
    ASSUME NEW fold, NEW base, NEW pieces \in Seq(PieceRecord), Len(pieces) = 0
    PROVE  Result(fold, base, pieces) = base
<1>1. PICK g : GoesAlong(fold, base, pieces, g)
  BY FoldGoesAlong
<1> QED
  BY <1>1 DEF GoesAlong

LEMMA ResultOfAppend ==
    ASSUME NEW fold, NEW base, NEW pieces \in Seq(PieceRecord), NEW piece \in PieceRecord
    PROVE  Result(fold, base, Append(pieces, piece)) = Taken(fold, Result(fold, base, pieces), piece)
<1> DEFINE n == Len(pieces)
           longer == Append(pieces, piece)
<1>1. /\ n \in Nat /\ longer \in Seq(PieceRecord) /\ Len(longer) = n + 1
      /\ longer[n + 1] = piece /\ \A i \in 1..n : longer[i] = pieces[i]
  OBVIOUS
<1>a. PICK g : GoesAlong(fold, base, pieces, g)
  BY FoldGoesAlong
<1>2. /\ g[1..n] = Result(fold, base, pieces)
      /\ g[1..0] = base
      /\ \A k \in 0..(n - 1) : g[1..(k + 1)] = Taken(fold, g[1..k], pieces[k + 1])
  BY <1>a DEF GoesAlong
<1> HIDE DEF n, longer
<1>b. PICK h : GoesAlong(fold, base, longer, h)
  BY <1>1, FoldGoesAlong
<1>3. /\ h[1..(n + 1)] = Result(fold, base, longer)
      /\ h[1..0] = base
      /\ \A k \in 0..((n + 1) - 1) : h[1..(k + 1)] = Taken(fold, h[1..k], longer[k + 1])
  BY <1>1, <1>b DEF GoesAlong
<1> DEFINE H == {k \in Nat : k <= n => g[1..k] = h[1..k]}
<1>4. 0 \in H
  BY <1>2, <1>3
<1>5. ASSUME NEW k \in Nat, k \in H PROVE k + 1 \in H
  <2> SUFFICES ASSUME k + 1 <= n PROVE g[1..(k + 1)] = h[1..(k + 1)]
    OBVIOUS
  <2>1. k \in 0..(n - 1) /\ k \in 0..((n + 1) - 1) /\ k <= n /\ k + 1 \in 1..n
    BY <1>1
  <2>2. g[1..(k + 1)] = Taken(fold, g[1..k], pieces[k + 1])
    BY <1>2, <2>1
  <2>3. h[1..(k + 1)] = Taken(fold, h[1..k], longer[k + 1])
    BY <1>3, <2>1
  <2>4. g[1..k] = h[1..k]
    BY <1>5, <2>1
  <2> QED
    BY <1>1, <2>1, <2>2, <2>3, <2>4
<1>6. n \in H
  <2> HIDE DEF H
  <2> QED
    BY <1>1, <1>4, <1>5, AllNumbers
<1>7. n \in 0..((n + 1) - 1)
  BY <1>1
<1> QED
  BY <1>1, <1>2, <1>3, <1>6, <1>7 DEF longer

\* A document that is a part and then another is read in two readings.
LEMMA ResultOfConcat ==
    ASSUME NEW fold, NEW base, NEW p \in Seq(PieceRecord), NEW q \in Seq(PieceRecord)
    PROVE  Result(fold, base, p \o q) = Result(fold, Result(fold, base, p), q)
<1> DEFINE Joins(r) == Result(fold, base, p \o r) = Result(fold, Result(fold, base, p), r)
           H == {n \in Nat : \A r \in Seq(PieceRecord) : Len(r) = n => Joins(r)}
<1>1. 0 \in H
  <2> SUFFICES ASSUME NEW r \in Seq(PieceRecord), Len(r) = 0 PROVE Joins(r)
    OBVIOUS
  <2>1. r = <<>> /\ p \o r = p
    OBVIOUS
  <2> QED
    BY ZenonT(60), <2>1, ResultOfNone
<1>2. ASSUME NEW n \in Nat, n \in H PROVE n + 1 \in H
  <2> SUFFICES ASSUME NEW r \in Seq(PieceRecord), Len(r) = n + 1 PROVE Joins(r)
    OBVIOUS
  <2> DEFINE s == SubSeq(r, 1, n)
             x == r[n + 1]
  <2>1. s \in Seq(PieceRecord) /\ Len(s) = n /\ x \in PieceRecord /\ r = Append(s, x)
    OBVIOUS
  <2>2. Joins(s)
    BY <1>2, <2>1
  <2> HIDE DEF s, x
  <2>3. p \o Append(s, x) = Append(p \o s, x) /\ p \o s \in Seq(PieceRecord)
    BY <2>1
  <2>4. Result(fold, base, Append(p \o s, x)) = Taken(fold, Result(fold, base, p \o s), x)
    BY ZenonT(60), <2>1, <2>3, ResultOfAppend
  <2>5. Result(fold, Result(fold, base, p), Append(s, x))
           = Taken(fold, Result(fold, Result(fold, base, p), s), x)
    BY <2>1, ResultOfAppend
  <2> QED
    BY <2>1, <2>2, <2>3, <2>4, <2>5
<1> HIDE DEF H
<1>3. Len(q) \in H
  BY <1>1, <1>2, AllNumbers
<1> HIDE DEF Joins
<1>4. Joins(q)
  BY <1>3 DEF H
<1> QED
  BY <1>4 DEF Joins

\* A part of one piece, and a part before the next.
LEMMA ResultOfPiece ==
    ASSUME NEW fold, NEW base, NEW piece \in PieceRecord
    PROVE  Result(fold, base, <<piece>>) = Taken(fold, base, piece)
<1> DEFINE none == <<>>
<1>1. none \in Seq(PieceRecord) /\ Len(none) = 0 /\ <<piece>> = Append(none, piece)
  OBVIOUS
<1> HIDE DEF none
<1>2. Result(fold, base, none) = base
  BY <1>1, ResultOfNone
<1> QED
  BY ZenonT(60), <1>1, <1>2, ResultOfAppend

\* Some pieces lead a reader from one state to another.
Leads(from, pieces, to) ==
    pieces \in Seq(PieceRecord) /\ Result("reading", from, pieces) = to

LEMMA LeadsNowhere == ASSUME NEW from PROVE Leads(from, <<>>, from)
<1> DEFINE none == <<>>
<1>1. none \in Seq(PieceRecord) /\ Len(none) = 0
  OBVIOUS
<1> HIDE DEF none
<1>2. Leads(from, none, from)
  BY <1>1, ResultOfNone DEF Leads
<1> QED
  BY <1>2 DEF none

LEMMA LeadsByPiece ==
    ASSUME NEW from, NEW to, NEW piece \in PieceRecord, Taken("reading", from, piece) = to
    PROVE  Leads(from, <<piece>>, to)
<1>1. <<piece>> \in Seq(PieceRecord)
  OBVIOUS
<1> QED
  BY <1>1, ResultOfPiece DEF Leads

LEMMA LeadsOn ==
    ASSUME NEW from, NEW p, NEW through, Leads(from, p, through), NEW q, NEW to,
           Leads(through, q, to)
    PROVE  Leads(from, p \o q, to)
<1>1. p \in Seq(PieceRecord) /\ q \in Seq(PieceRecord)
  BY DEF Leads
<1>2. p \o q \in Seq(PieceRecord)
  BY <1>1
<1> QED
  BY <1>1, <1>2, ResultOfConcat DEF Leads

-----------------------------------------------------------------------------
(* Parts that are put together. *)

Flattens(parts, f) ==
    f = [i \in 1..Len(parts) |-> IF i = 1 THEN parts[i] ELSE f[i - 1] \o parts[i]]

LEMMA FlattenIsLast ==
    ASSUME NEW parts, Len(parts) # 0
    PROVE  FlattenSeq(parts) = (CHOOSE f : Flattens(parts, f))[Len(parts)]
  BY DEF FlattenSeq, Flattens

FlattensTo(parts, n, f) ==
    f = [i \in 1..n |-> IF i = 1 THEN parts[i] ELSE f[i - 1] \o parts[i]]

LEMMA FlattenExists ==
    ASSUME NEW parts \in Seq(Seq(PieceRecord))
    PROVE  \E f : Flattens(parts, f)
<1> DEFINE H == {n \in Nat : \E f : FlattensTo(parts, n, f)}
<1>1. 0 \in H
  <2> DEFINE f == [i \in 1..0 |-> <<>>]
  <2>1. FlattensTo(parts, 0, f)
    BY DEF FlattensTo
  <2> QED
    BY <2>1
<1>2. ASSUME NEW n \in Nat, n \in H PROVE n + 1 \in H
  <2>1. PICK f : FlattensTo(parts, n, f)
    BY <1>2
  <2> DEFINE h == [i \in 1..(n + 1) |-> IF i = 1 THEN parts[i] ELSE f[i - 1] \o parts[i]]
  <2>a. \A i \in 1..n : f[i] = IF i = 1 THEN parts[i] ELSE f[i - 1] \o parts[i]
    BY <2>1, Zenon DEF FlattensTo
  <2>b. \A i \in 1..n : i \in 1..(n + 1)
    OBVIOUS
  <2>2. \A i \in 1..n : h[i] = f[i]
    BY <2>a, <2>b, Zenon
  <2>3. \A i \in 1..(n + 1) : i # 1 => i - 1 \in 1..n
    OBVIOUS
  <2>4. \A i \in 1..(n + 1) : h[i] = IF i = 1 THEN parts[i] ELSE h[i - 1] \o parts[i]
    BY <2>2, <2>3
  <2>5. h = [i \in 1..(n + 1) |-> h[i]]
    OBVIOUS
  <2> HIDE DEF h
  <2>6. FlattensTo(parts, n + 1, h)
    BY <2>4, <2>5 DEF FlattensTo
  <2> QED
    BY <2>6
<1> HIDE DEF H
<1>3. Len(parts) \in H
  BY <1>1, <1>2, AllNumbers
<1> QED
  BY <1>3 DEF H, Flattens, FlattensTo

\* From part to part.
Along(parts, f) ==
    /\ f[Len(parts)] = FlattenSeq(parts)
    /\ f[1] = parts[1]
    /\ \A i \in 2..Len(parts) : f[i] = f[i - 1] \o parts[i]

LEMMA FlattenGoesAlong ==
    ASSUME NEW parts \in Seq(Seq(PieceRecord)), Len(parts) # 0
    PROVE  \E f : Along(parts, f)
<1> DEFINE f == CHOOSE f : Flattens(parts, f)
<1>1. Flattens(parts, f)
  BY FlattenExists
<1>2. FlattenSeq(parts) = f[Len(parts)]
  BY FlattenIsLast
<1> HIDE DEF f
<1>3. f[1] = parts[1] /\ \A i \in 2..Len(parts) : f[i] = f[i - 1] \o parts[i]
  <2>1. 1 \in 1..Len(parts) /\ \A i \in 2..Len(parts) : i \in 1..Len(parts) /\ i # 1
    OBVIOUS
  <2> QED
    BY <1>1, <2>1 DEF Flattens
<1>4. Along(parts, f)
  BY <1>2, <1>3 DEF Along
<1> QED
  BY <1>4

LEMMA FlattenOne ==
    ASSUME NEW parts \in Seq(Seq(PieceRecord)), Len(parts) = 1
    PROVE  FlattenSeq(parts) = parts[1]
<1>0. Len(parts) # 0
  OBVIOUS
<1>1. PICK f : Along(parts, f)
  BY <1>0, FlattenGoesAlong
<1> QED
  BY <1>1 DEF Along

LEMMA FlattenAppend ==
    ASSUME NEW parts \in Seq(Seq(PieceRecord)), Len(parts) # 0, NEW part \in Seq(PieceRecord)
    PROVE  FlattenSeq(Append(parts, part)) = FlattenSeq(parts) \o part
<1> DEFINE n == Len(parts)
           longer == Append(parts, part)
<1>1. /\ n \in Nat /\ n # 0 /\ longer \in Seq(Seq(PieceRecord)) /\ Len(longer) = n + 1
      /\ longer[n + 1] = part /\ \A i \in 1..n : longer[i] = parts[i]
  OBVIOUS
<1>a. PICK g : Along(parts, g)
  BY FlattenGoesAlong
<1>2. /\ g[n] = FlattenSeq(parts)
      /\ g[1] = parts[1]
      /\ \A i \in 2..n : g[i] = g[i - 1] \o parts[i]
  BY <1>a DEF Along
<1> HIDE DEF n, longer
<1>3. Len(longer) # 0
  BY <1>1
<1>b. PICK h : Along(longer, h)
  BY <1>1, <1>3, FlattenGoesAlong
<1>4. /\ h[n + 1] = FlattenSeq(longer)
      /\ h[1] = longer[1]
      /\ \A i \in 2..(n + 1) : h[i] = h[i - 1] \o longer[i]
  BY <1>1, <1>b DEF Along
<1> DEFINE H == {k \in Nat : k + 1 <= n => g[k + 1] = h[k + 1]}
<1>5. 0 \in H
  BY <1>1, <1>2, <1>4
<1>6. ASSUME NEW k \in Nat, k \in H PROVE k + 1 \in H
  <2> SUFFICES ASSUME (k + 1) + 1 <= n PROVE g[(k + 1) + 1] = h[(k + 1) + 1]
    OBVIOUS
  <2> DEFINE i == (k + 1) + 1
  <2>1. i \in 2..n /\ i \in 2..(n + 1) /\ i \in 1..n /\ i - 1 = k + 1 /\ k + 1 <= n
    BY <1>1
  <2> HIDE DEF i
  <2>2. g[i] = g[i - 1] \o parts[i]
    BY <1>2, <2>1
  <2>3. h[i] = h[i - 1] \o longer[i]
    BY <1>4, <2>1
  <2>4. g[k + 1] = h[k + 1]
    BY <1>6, <2>1
  <2>5. g[i] = h[i]
    BY <1>1, <2>1, <2>2, <2>3, <2>4
  <2> QED
    BY <2>5 DEF i
<1>7. n - 1 \in H
  <2> HIDE DEF H
  <2>1. n - 1 \in Nat
    BY <1>1
  <2> QED
    BY <1>5, <1>6, <2>1, AllNumbers
<1>8. g[n] = h[n]
  <2>1. (n - 1) + 1 = n /\ n <= n
    BY <1>1
  <2> QED
    BY <1>7, <2>1
<1>9. n + 1 \in 2..(n + 1) /\ (n + 1) - 1 = n
  BY <1>1
<1>10. h[n + 1] = h[n] \o longer[n + 1]
  BY <1>4, <1>9
<1> QED
  BY <1>1, <1>2, <1>4, <1>8, <1>10 DEF longer

\* What a family of parts comes to, part after part.
LEMMA FlattenFamily ==
    ASSUME NEW parts, NEW n \in Nat, \A i \in 1..(n + 1) : parts[i] \in Seq(PieceRecord)
    PROVE  /\ FlattenSeq([i \in 1..0 |-> parts[i]]) = <<>>
           /\ FlattenSeq([i \in 1..(n + 1) |-> parts[i]])
                 = FlattenSeq([i \in 1..n |-> parts[i]]) \o parts[n + 1]
<1> DEFINE P(k) == [i \in 1..k |-> parts[i]]
<1>1. FlattenSeq(P(0)) = <<>>
  <2>1. P(0) = <<>>
    OBVIOUS
  <2>2. Len(<<>>) = 0
    OBVIOUS
  <2> QED
    BY <2>1, <2>2 DEF FlattenSeq
<1>2. /\ \A k \in 0..(n + 1) : P(k) \in Seq(Seq(PieceRecord)) /\ Len(P(k)) = k
      /\ P(n + 1) = Append(P(n), parts[n + 1]) /\ parts[n + 1] \in Seq(PieceRecord)
  OBVIOUS
<1>3. CASE n = 0
  <2>1. P(n + 1) \in Seq(Seq(PieceRecord)) /\ Len(P(n + 1)) = 1 /\ P(n + 1)[1] = parts[n + 1]
    BY <1>2, <1>3
  <2> HIDE DEF P
  <2>2. FlattenSeq(P(n + 1)) = parts[n + 1]
    BY <2>1, FlattenOne
  <2>3. FlattenSeq(P(n)) = <<>>
    BY <1>1, <1>3
  <2>4. <<>> \o parts[n + 1] = parts[n + 1]
    BY <1>2
  <2>5. FlattenSeq(P(n + 1)) = FlattenSeq(P(n)) \o parts[n + 1]
    BY <2>2, <2>3, <2>4
  <2> QED
    BY <1>1, <2>5 DEF P
<1>4. CASE n # 0
  <2>1. P(n) \in Seq(Seq(PieceRecord)) /\ Len(P(n)) # 0
    BY <1>2, <1>4
  <2> HIDE DEF P
  <2>2. FlattenSeq(P(n + 1)) = FlattenSeq(P(n)) \o parts[n + 1]
    BY <1>2, <2>1, FlattenAppend
  <2> QED
    BY <1>1, <2>2 DEF P
<1> QED
  BY <1>3, <1>4

-----------------------------------------------------------------------------
(* What the reader makes of the parts of a document. *)

Frame == [id : Nat, chains : Seq(Nat)]

\* A reader that has met no fault.
Reader(open, after, frames) ==
    [open |-> open, after |-> after, good |-> TRUE, frames |-> frames]

FrameOf(id, chains) == [id |-> id, chains |-> chains]

\* What comes before an element: the beginning of its array or another element.
Before(index) == IF index = 0 THEN "begin" ELSE "element"

Ends == {"]}", "}", "entry end"}

LEMMA OpensFacts ==
    /\ DOMAIN Opens = {"frames", "frame", "snapshot", "bucket", "entry"}
    /\ Opens["frames"] = "]}" /\ Opens["frame"] = "}" /\ Opens["snapshot"] = "]}"
    /\ Opens["bucket"] = "]}" /\ Opens["entry"] = "entry end"
  BY DEF Opens

LEMMA FrameOfFacts ==
    ASSUME NEW id \in Nat, NEW chains \in Seq(Nat)
    PROVE  FrameOf(id, chains) \in Frame
  BY DEF Frame, FrameOf

\* The last of a sequence, changed or taken away.
LEMMA LastChanged ==
    ASSUME NEW S, NEW s \in Seq(S), NEW x \in S, NEW y \in S
    PROVE  /\ Append(s, x) \in Seq(S) /\ Len(Append(s, x)) = Len(s) + 1
           /\ Append(s, x)[Len(Append(s, x))] = x
           /\ [Append(s, x) EXCEPT ![Len(Append(s, x))] = y] = Append(s, y)
<1> DEFINE n == Len(s) + 1
           p == Append(s, x)
           q == Append(s, y)
<1>1. /\ p \in Seq(S) /\ q \in Seq(S) /\ Len(p) = n /\ Len(q) = n /\ n \in Nat
      /\ p[n] = x /\ q[n] = y /\ \A i \in 1..n : i # n => p[i] = q[i]
  OBVIOUS
<1> HIDE DEF p, q, n
<1>2. p = [i \in 1..n |-> p[i]] /\ q = [i \in 1..n |-> q[i]]
  BY <1>1
<1>3. [p EXCEPT ![n] = y] = [i \in 1..n |-> IF i = n THEN y ELSE p[i]]
  BY <1>2
<1>4. [p EXCEPT ![n] = y] = q
  BY <1>1, <1>2, <1>3
<1> QED
  BY <1>1, <1>4 DEF p, q

LEMMA AppendFacts ==
    ASSUME NEW S, NEW s \in Seq(S), NEW x \in S
    PROVE  /\ Append(s, x) \in Seq(S) /\ Len(Append(s, x)) = Len(s) + 1
           /\ Front(Append(s, x)) = s /\ Last(Append(s, x)) = x
<1>1. Append(s, x) \in Seq(S) /\ Len(Append(s, x)) = Len(s) + 1
  OBVIOUS
<1>2. Last(Append(s, x)) = x
  BY <1>1 DEF Last
<1>3. Front(Append(s, x)) = s
  BY <1>1 DEF Front
<1> QED
  BY <1>1, <1>2, <1>3

LEMMA ChainsChanged ==
    ASSUME NEW id, NEW chains
    PROVE  [FrameOf(id, chains) EXCEPT !.chains = Append(@, 0)] = FrameOf(id, Append(chains, 0))
<1>1. [[id |-> id, chains |-> chains] EXCEPT !.chains = Append(@, 0)]
         = [id |-> id, chains |-> Append(chains, 0)]
  OBVIOUS
<1> QED
  BY <1>1 DEF FrameOf

LEMMA CountChanged ==
    ASSUME NEW i, NEW c, NEW n
    PROVE  [[id |-> i, chains |-> c] EXCEPT !.chains[n] = @ + 1]
              = [id |-> i, chains |-> [c EXCEPT ![n] = @ + 1]]
  OBVIOUS

LEMMA PieceFacts ==
    ASSUME NEW kind \in Kinds PROVE Piece(kind) \in PieceRecord /\ Piece(kind).kind = kind
  BY DEF Piece, PieceRecord

LEMMA ReadsPlain ==
    ASSUME NEW open \in Seq(Ends), NEW after, after # "element", NEW frames,
           NEW kind \in {"frames", "snapshot"}
    PROVE  Leads(Reader(open, after, frames), <<Piece(kind)>>,
                 Reader(Append(open, "]}"), "begin", frames))
<1> DEFINE piece == Piece(kind)
<1>1. kind \in Kinds
  BY DEF Kinds
<1>2. piece \in PieceRecord /\ piece.kind = kind
  BY <1>1, PieceFacts
<1> HIDE DEF piece
<1>3. Taken("reading", Reader(open, after, frames), piece)
         = Reader(Append(open, "]}"), "begin", frames)
  BY <1>2, OpensFacts DEF Taken, Reads, Reader
<1>4. Leads(Reader(open, after, frames), <<piece>>, Reader(Append(open, "]}"), "begin", frames))
  BY <1>2, <1>3, LeadsByPiece
<1> QED
  BY <1>4 DEF piece

LEMMA ReadsFrame ==
    ASSUME NEW open \in Seq(Ends), NEW after, after # "element", NEW frames, NEW id \in Nat
    PROVE  Leads(Reader(open, after, frames), <<[kind |-> "frame", id |-> id]>>,
                 Reader(Append(open, "}"), "begin", Append(frames, FrameOf(id, <<>>))))
<1> DEFINE piece == [kind |-> "frame", id |-> id]
<1>1. piece \in PieceRecord /\ piece.kind = "frame" /\ piece.id = id
  BY DEF PieceRecord, Kinds
<1> HIDE DEF piece
<1>2. Taken("reading", Reader(open, after, frames), piece)
         = Reader(Append(open, "}"), "begin", Append(frames, FrameOf(id, <<>>)))
  BY <1>1, OpensFacts DEF Taken, Reads, Reader, FrameOf
<1>3. Leads(Reader(open, after, frames), <<piece>>,
            Reader(Append(open, "}"), "begin", Append(frames, FrameOf(id, <<>>))))
  BY <1>1, <1>2, LeadsByPiece
<1> QED
  BY <1>3 DEF piece

LEMMA ReadsBucket ==
    ASSUME NEW open \in Seq(Ends), NEW after, after # "element", NEW frames \in Seq(Frame),
           NEW id \in Nat, NEW chains \in Seq(Nat)
    PROVE  Leads(Reader(open, after, Append(frames, FrameOf(id, chains))), <<Piece("bucket")>>,
                 Reader(Append(open, "]}"), "begin",
                        Append(frames, FrameOf(id, Append(chains, 0)))))
<1> DEFINE piece == Piece("bucket")
           after_it == Append(frames, FrameOf(id, Append(chains, 0)))
           before == Append(frames, FrameOf(id, chains))
           frame == FrameOf(id, chains)
<1>1. [before EXCEPT ![Len(before)].chains = Append(@, 0)]
         = Append(frames, FrameOf(id, Append(chains, 0)))
  <2>0. Append(chains, 0) \in Seq(Nat)
    OBVIOUS
  <2>1. frame \in Frame /\ FrameOf(id, Append(chains, 0)) \in Frame
    BY <2>0, FrameOfFacts
  <2>2. [frame EXCEPT !.chains = Append(@, 0)] = FrameOf(id, Append(chains, 0))
    BY ChainsChanged
  <2> HIDE DEF frame
  <2>3. /\ before[Len(before)] = frame
        /\ [before EXCEPT ![Len(before)] = FrameOf(id, Append(chains, 0))]
              = Append(frames, FrameOf(id, Append(chains, 0)))
    BY <2>1, LastChanged DEF frame
  <2> HIDE DEF before
  <2>4. [before EXCEPT ![Len(before)].chains = Append(@, 0)]
           = [before EXCEPT ![Len(before)] = [before[Len(before)] EXCEPT !.chains = Append(@, 0)]]
    OBVIOUS
  <2> QED
    BY <2>2, <2>3, <2>4
<1>2. piece \in PieceRecord /\ piece.kind = "bucket"
  BY DEF Piece, PieceRecord, Kinds
<1> HIDE DEF before, piece
<1>3. Taken("reading", Reader(open, after, before), piece)
         = Reader(Append(open, "]}"), "begin", [before EXCEPT ![Len(before)].chains = Append(@, 0)])
  BY <1>2, OpensFacts DEF Taken, Reads, Reader
<1>4. Taken("reading", Reader(open, after, before), piece)
         = Reader(Append(open, "]}"), "begin", after_it)
  BY <1>1, <1>3
<1> HIDE DEF after_it
<1>5. Leads(Reader(open, after, before), <<piece>>, Reader(Append(open, "]}"), "begin", after_it))
  BY <1>2, <1>4, LeadsByPiece
<1> QED
  BY <1>5 DEF before, piece, after_it

LEMMA ReadsEntry ==
    ASSUME NEW open \in Seq(Ends), NEW after, after # "element", NEW frames \in Seq(Frame),
           NEW id \in Nat, NEW chains \in Seq(Nat), NEW n \in Nat
    PROVE  Leads(Reader(open, after, Append(frames, FrameOf(id, Append(chains, n)))),
                 <<Piece("entry")>>,
                 Reader(Append(open, "entry end"), "begin",
                        Append(frames, FrameOf(id, Append(chains, n + 1)))))
<1> DEFINE piece == Piece("entry")
           counted == Append(chains, n)
           frame == FrameOf(id, counted)
           next == FrameOf(id, Append(chains, n + 1))
           before == Append(frames, frame)
<1>1. [before EXCEPT ![Len(before)].chains[Len(before[Len(before)].chains)] = @ + 1]
         = Append(frames, next)
  <2> DEFINE m == n + 1
             Numbers == Nat
  <2>0. m \in Numbers /\ n \in Numbers /\ chains \in Seq(Numbers)
    OBVIOUS
  <2> HIDE DEF m, Numbers
  <2>a. /\ counted \in Seq(Numbers) /\ counted[Len(counted)] = n
        /\ [counted EXCEPT ![Len(counted)] = m] = Append(chains, m)
    BY <2>0, LastChanged
  <2>b. Append(chains, m) \in Seq(Numbers)
    BY <2>0
  <2>1. /\ counted \in Seq(Nat) /\ counted[Len(counted)] = n
        /\ [counted EXCEPT ![Len(counted)] = n + 1] = Append(chains, n + 1)
        /\ Append(chains, n + 1) \in Seq(Nat)
    BY <2>a, <2>b DEF m, Numbers
  <2> HIDE DEF counted
  <2>2. frame \in Frame /\ next \in Frame /\ frame.chains = counted
    <3>1. frame \in Frame /\ next \in Frame
      BY <2>1, FrameOfFacts
    <3>2. frame.chains = counted
      BY DEF FrameOf
    <3> QED
      BY <3>1, <3>2
  <2>3. [counted EXCEPT ![Len(counted)] = @ + 1] = Append(chains, n + 1)
    BY <2>1
  <2>4. [frame EXCEPT !.chains[Len(counted)] = @ + 1] = next
    <3> DEFINE last == Len(counted)
    <3> HIDE DEF last
    <3>a. [[id |-> id, chains |-> counted] EXCEPT !.chains[last] = @ + 1]
             = [id |-> id, chains |-> [counted EXCEPT ![last] = @ + 1]]
      BY CountChanged, Zenon
    <3>1. [FrameOf(id, counted) EXCEPT !.chains[last] = @ + 1]
             = FrameOf(id, [counted EXCEPT ![last] = @ + 1])
      BY <3>a DEF FrameOf
    <3>2. [counted EXCEPT ![last] = @ + 1] = Append(chains, n + 1)
      BY <2>3 DEF last
    <3>3. [FrameOf(id, counted) EXCEPT !.chains[last] = @ + 1] = FrameOf(id, Append(chains, n + 1))
      BY <3>1, <3>2
    <3>4. [frame EXCEPT !.chains[last] = @ + 1] = next
      BY <3>3
    <3> HIDE DEF frame, next
    <3> QED
      BY <3>4 DEF last
  <2> HIDE DEF frame, next
  <2>5. before[Len(before)] = frame /\ [before EXCEPT ![Len(before)] = next] = Append(frames, next)
    BY <2>2, LastChanged
  <2> HIDE DEF before
  <2>6. [before EXCEPT ![Len(before)].chains[Len(counted)] = @ + 1]
           = [before EXCEPT ![Len(before)] =
                 [before[Len(before)] EXCEPT !.chains[Len(counted)] = @ + 1]]
    OBVIOUS
  <2> QED
    BY <2>2, <2>4, <2>5, <2>6
<1>a. piece \in PieceRecord /\ piece.kind = "entry"
  BY DEF Piece, PieceRecord, Kinds
<1> HIDE DEF before, piece
<1>2. LastFrame(Reader(open, after, before)) = before[Len(before)]
  BY DEF LastFrame, Reader
<1>3. Taken("reading", Reader(open, after, before), piece)
         = Reader(Append(open, "entry end"), "begin",
                  [before EXCEPT ![Len(before)].chains[Len(before[Len(before)].chains)] = @ + 1])
  BY <1>a, <1>2, OpensFacts DEF Taken, Reads, Reader
<1>4. Taken("reading", Reader(open, after, before), piece)
         = Reader(Append(open, "entry end"), "begin", Append(frames, next))
  BY <1>1, <1>3
<1> HIDE DEF next
<1>5. Leads(Reader(open, after, before), <<piece>>,
            Reader(Append(open, "entry end"), "begin", Append(frames, next)))
  BY <1>a, <1>4, LeadsByPiece
<1> QED
  BY <1>5 DEF before, piece, next

LEMMA ReadsEnd ==
    ASSUME NEW open \in Seq(Ends), NEW after, after # "separator", NEW frames,
           NEW kind \in Ends
    PROVE  Leads(Reader(Append(open, kind), after, frames), <<Piece(kind)>>,
                 Reader(open, "element", frames))
<1> DEFINE longer == Append(open, kind)
           piece == Piece(kind)
<1>1. Front(longer) = open /\ Last(longer) = kind
  BY AppendFacts
<1>2. piece \in PieceRecord /\ piece.kind = kind
  BY DEF Piece, PieceRecord, Kinds, Ends
<1> HIDE DEF longer, piece
<1>3. Taken("reading", Reader(longer, after, frames), piece)
         = Reader(Front(longer), "element", frames)
  BY <1>1, <1>2, OpensFacts DEF Taken, Reads, Reader, Ends
<1>4. Leads(Reader(longer, after, frames), <<piece>>, Reader(open, "element", frames))
  BY <1>1, <1>2, <1>3, LeadsByPiece
<1> QED
  BY <1>4 DEF longer, piece

LEMMA ReadsComma ==
    ASSUME NEW open \in Seq(Ends), NEW frames
    PROVE  Leads(Reader(open, "element", frames), <<Piece(",")>>,
                 Reader(open, "separator", frames))
<1> DEFINE piece == Piece(",")
<1>1. piece \in PieceRecord /\ piece.kind = ","
  BY DEF Piece, PieceRecord, Kinds
<1> HIDE DEF piece
<1>2. Taken("reading", Reader(open, "element", frames), piece)
         = Reader(open, "separator", frames)
  BY <1>1, OpensFacts DEF Taken, Reads, Reader
<1>3. Leads(Reader(open, "element", frames), <<piece>>, Reader(open, "separator", frames))
  BY <1>1, <1>2, LeadsByPiece
<1> QED
  BY <1>3 DEF piece

LEMMA ReadsOver ==
    ASSUME NEW open \in Seq(Ends), NEW after, NEW frames, NEW kind \in {"head", "value", "key"}
    PROVE  Leads(Reader(open, after, frames), <<Piece(kind)>>, Reader(open, after, frames))
<1> DEFINE piece == Piece(kind)
<1>1. piece \in PieceRecord /\ piece.kind = kind
  BY DEF Piece, PieceRecord, Kinds
<1> HIDE DEF piece
<1>2. Taken("reading", Reader(open, after, frames), piece) = Reader(open, after, frames)
  BY <1>1, OpensFacts DEF Taken, Reads, Reader
<1>3. Leads(Reader(open, after, frames), <<piece>>, Reader(open, after, frames))
  BY <1>1, <1>2, LeadsByPiece
<1> QED
  BY <1>3 DEF piece

\* What comes before an element: the beginning of its array, or a separator.
Parted(index) == IF index = 0 THEN "begin" ELSE "separator"

LEMMA PartedFacts == \A index : Parted(index) # "element" /\ Before(index) # "separator"
  BY DEF Parted, Before

LEMMA SeparatorReads ==
    ASSUME NEW open \in Seq(Ends), NEW frames, NEW index
    PROVE  Leads(Reader(open, Before(index), frames), Separator(index),
                 Reader(open, Parted(index), frames))
<1>1. CASE index = 0
  <2>1. Separator(index) = <<>> /\ Before(index) = Parted(index)
    BY <1>1 DEF Separator, Before, Parted
  <2> QED
    BY <2>1, LeadsNowhere
<1>2. CASE index # 0
  <2>1. /\ Separator(index) = <<Piece(",")>> /\ Before(index) = "element"
        /\ Parted(index) = "separator"
    BY <1>2 DEF Separator, Before, Parted
  <2> QED
    BY <2>1, ReadsComma
<1> QED
  BY <1>1, <1>2

LEMMA ThreePieces ==
    ASSUME NEW S, NEW a \in S, NEW b \in S, NEW c \in S
    PROVE  <<a, b, c>> = <<a>> \o <<b>> \o <<c>>
<1> DEFINE p == <<a>> \o <<b>> \o <<c>>
           q == <<a, b, c>>
<1>1. p \in Seq(S) /\ q \in Seq(S) /\ Len(p) = 3 /\ Len(q) = 3
  OBVIOUS
<1>2. p[1] = q[1] /\ p[2] = q[2] /\ p[3] = q[3]
  OBVIOUS
<1> HIDE DEF p, q
<1>3. p = [i \in 1..3 |-> p[i]] /\ q = [i \in 1..3 |-> q[i]]
  BY <1>1
<1>4. \A i \in 1..3 : p[i] = q[i]
  BY <1>2
<1>5. p = q
  BY <1>3, <1>4
<1> QED
  BY <1>5 DEF p, q

LEMMA EndsFacts ==
    /\ "]}" \in Ends /\ "}" \in Ends /\ "entry end" \in Ends
    /\ \A open \in Seq(Ends) : \A end \in Ends : Append(open, end) \in Seq(Ends)
<1>1. "]}" \in Ends /\ "}" \in Ends /\ "entry end" \in Ends
  BY DEF Ends
<1>2. \A open \in Seq(Ends) : \A end \in Ends : Append(open, end) \in Seq(Ends)
  OBVIOUS
<1> QED
  BY <1>1, <1>2

\* An entry is counted in the last chain.
LEMMA EntryReads ==
    ASSUME NEW open \in Seq(Ends), NEW frames \in Seq(Frame), NEW id \in Nat,
           NEW chains \in Seq(Nat), NEW n \in Nat, NEW index
    PROVE  Leads(Reader(open, Before(index), Append(frames, FrameOf(id, Append(chains, n)))),
                 EntryPieces(index),
                 Reader(open, "element", Append(frames, FrameOf(id, Append(chains, n + 1)))))
<1> DEFINE old == Append(frames, FrameOf(id, Append(chains, n)))
           new == Append(frames, FrameOf(id, Append(chains, n + 1)))
           inside == Append(open, "entry end")
           a == Piece("entry")
           b == Piece("key")
           c == Piece("entry end")
<1>1. Leads(Reader(open, Before(index), old), Separator(index), Reader(open, Parted(index), old))
  BY SeparatorReads
<1>2. Leads(Reader(open, Parted(index), old), <<a>>, Reader(inside, "begin", new))
  BY PartedFacts, ReadsEntry
<1>3. inside \in Seq(Ends)
  BY EndsFacts
<1> HIDE DEF old, new
<1>4. Leads(Reader(open, Before(index), old), Separator(index) \o <<a>>,
            Reader(inside, "begin", new))
  <2> HIDE DEF a, inside
  <2> QED
    BY <1>1, <1>2, LeadsOn
<1>5. Leads(Reader(inside, "begin", new), <<b>>, Reader(inside, "begin", new))
  <2> HIDE DEF inside
  <2> QED
    BY <1>3, ReadsOver
<1>6. Leads(Reader(inside, "begin", new), <<c>>, Reader(open, "element", new))
  <2>1. "entry end" \in Ends /\ "begin" # "separator"
    BY DEF Ends
  <2> QED
    BY <2>1, ReadsEnd
<1>7. EntryPieces(index) = Separator(index) \o <<a>> \o <<b>> \o <<c>>
  <2>1. /\ a \in PieceRecord /\ b \in PieceRecord /\ c \in PieceRecord
        /\ Separator(index) \in Seq(PieceRecord)
    BY <1>1 DEF Piece, PieceRecord, Kinds, Leads
  <2>2. EntryPieces(index) = Separator(index) \o <<a, b, c>>
    BY DEF EntryPieces
  <2> HIDE DEF a, b, c
  <2>3. <<a, b, c>> = <<a>> \o <<b>> \o <<c>>
    BY SMTT(30), <2>1, ThreePieces
  <2>4. /\ <<a>> \in Seq(PieceRecord) /\ <<b>> \in Seq(PieceRecord) /\ <<c>> \in Seq(PieceRecord)
    BY <2>1
  <2>5. Separator(index) \o (<<a>> \o <<b>> \o <<c>>) = Separator(index) \o <<a>> \o <<b>> \o <<c>>
    BY <2>1, <2>4
  <2> QED
    BY <2>2, <2>3, <2>5
<1> HIDE DEF a, b, c, inside
<1>8. Leads(Reader(open, Before(index), old), Separator(index) \o <<a>> \o <<b>>,
            Reader(inside, "begin", new))
  BY <1>4, <1>5, LeadsOn
<1>9. Leads(Reader(open, Before(index), old), Separator(index) \o <<a>> \o <<b>> \o <<c>>,
            Reader(open, "element", new))
  BY <1>6, <1>8, LeadsOn
<1> QED
  BY <1>7, <1>9 DEF old, new

\* A bucket adds a chain with as many entries as it has.
LEMMA BucketReads ==
    ASSUME NEW open \in Seq(Ends), NEW frames \in Seq(Frame), NEW id \in Nat,
           NEW chains \in Seq(Nat), NEW n \in Nat, NEW index
    PROVE  Leads(Reader(open, Before(index), Append(frames, FrameOf(id, chains))),
                 BucketPieces(index, n),
                 Reader(open, "element", Append(frames, FrameOf(id, Append(chains, n)))))
<1> DEFINE Read(k) == Append(frames, FrameOf(id, Append(chains, k)))
           old == Append(frames, FrameOf(id, chains))
           inside == Append(open, "]}")
           a == Piece("bucket")
           z == Piece("]}")
           parts == [i \in Nat |-> EntryPieces(i - 1)]
           Entries(k) == FlattenSeq([i \in 1..k |-> parts[i]])
           H == {k \in Nat : Leads(Reader(inside, "begin", Read(0)), Entries(k),
                                   Reader(inside, Before(k), Read(k)))}
<1>1. inside \in Seq(Ends)
  BY EndsFacts
<1>2. Leads(Reader(open, Before(index), old), Separator(index), Reader(open, Parted(index), old))
  BY SeparatorReads
<1>3. Leads(Reader(open, Parted(index), old), <<a>>, Reader(inside, "begin", Read(0)))
  BY PartedFacts, ReadsBucket
<1>4. ASSUME NEW k \in Nat
      PROVE  Leads(Reader(inside, Before(k), Read(k)), EntryPieces(k),
                   Reader(inside, "element", Read(k + 1)))
  BY <1>1, EntryReads
<1>5. \A k \in Nat : EntryPieces(k) \in Seq(PieceRecord)
  BY <1>4 DEF Leads
<1>6. \A i \in Nat \ {0} : parts[i] = EntryPieces(i - 1) /\ parts[i] \in Seq(PieceRecord)
  <2> SUFFICES ASSUME NEW i \in Nat \ {0}
               PROVE  parts[i] = EntryPieces(i - 1) /\ parts[i] \in Seq(PieceRecord)
      OBVIOUS
  <2>1. i - 1 \in Nat /\ parts[i] = EntryPieces(i - 1)
    OBVIOUS
  <2> HIDE DEF parts
  <2> QED
    BY <1>5, <2>1
<1>7. [i \in 1..n |-> parts[i]] = [i \in 1..n |-> EntryPieces(i - 1)]
  BY <1>6
<1> HIDE DEF Read, inside, old, parts
<1>8. 0 \in H
  <2>1. \A i \in 1..(0 + 1) : parts[i] \in Seq(PieceRecord)
    BY <1>6
  <2>2. Entries(0) = <<>>
    BY <2>1, FlattenFamily
  <2> HIDE DEF Entries
  <2>3. Leads(Reader(inside, "begin", Read(0)), Entries(0), Reader(inside, "begin", Read(0)))
    BY <2>2, LeadsNowhere
  <2> QED
    BY <2>3 DEF Before
<1>9. ASSUME NEW k \in Nat, k \in H PROVE k + 1 \in H
  <2>1. \A i \in 1..(k + 1) : parts[i] \in Seq(PieceRecord)
    BY <1>6
  <2>2. Entries(k + 1) = Entries(k) \o parts[k + 1]
    BY <2>1, FlattenFamily
  <2>3. parts[k + 1] = EntryPieces(k) /\ Before(k + 1) = "element"
    BY <1>6 DEF Before
  <2> HIDE DEF Entries
  <2>4. Leads(Reader(inside, "begin", Read(0)), Entries(k), Reader(inside, Before(k), Read(k)))
    BY <1>9
  <2>5. Leads(Reader(inside, Before(k), Read(k)), EntryPieces(k),
              Reader(inside, "element", Read(k + 1)))
    BY <1>4
  <2>6. Leads(Reader(inside, "begin", Read(0)), Entries(k) \o EntryPieces(k),
              Reader(inside, "element", Read(k + 1)))
    BY <2>4, <2>5, LeadsOn
  <2>7. Leads(Reader(inside, "begin", Read(0)), Entries(k + 1),
              Reader(inside, Before(k + 1), Read(k + 1)))
    BY <2>2, <2>3, <2>6
  <2>8. k + 1 \in Nat
    OBVIOUS
  <2> QED
    BY <2>7, <2>8
<1>10. Leads(Reader(inside, "begin", Read(0)), Entries(n), Reader(inside, Before(n), Read(n)))
  <2> HIDE DEF H
  <2>1. n \in H
    BY <1>8, <1>9, AllNumbers
  <2> QED
    BY <2>1 DEF H
<1>11. Leads(Reader(inside, Before(n), Read(n)), <<z>>, Reader(open, "element", Read(n)))
  <2>1. "]}" \in Ends /\ Before(n) # "separator"
    BY PartedFacts DEF Ends
  <2> QED
    BY <2>1, ReadsEnd DEF inside
<1>12. BucketPieces(index, n) = Separator(index) \o <<a>> \o Entries(n) \o <<z>>
  BY <1>7 DEF BucketPieces
<1> HIDE DEF a, z, Entries
<1>13. Leads(Reader(open, Before(index), old), Separator(index) \o <<a>>,
             Reader(inside, "begin", Read(0)))
  BY <1>2, <1>3, LeadsOn
<1>14. Leads(Reader(open, Before(index), old), Separator(index) \o <<a>> \o Entries(n),
             Reader(inside, Before(n), Read(n)))
  BY <1>10, <1>13, LeadsOn
<1>15. Leads(Reader(open, Before(index), old), Separator(index) \o <<a>> \o Entries(n) \o <<z>>,
             Reader(open, "element", Read(n)))
  BY <1>11, <1>14, LeadsOn
<1> QED
  BY <1>12, <1>15 DEF Read, old

\* The first chains of a frame.
LEMMA FirstChains ==
    ASSUME NEW chains \in Seq(Nat), NEW k \in 0..(Len(chains) - 1)
    PROVE  /\ SubSeq(chains, 1, k) \in Seq(Nat) /\ chains[k + 1] \in Nat
           /\ SubSeq(chains, 1, k + 1) = Append(SubSeq(chains, 1, k), chains[k + 1])
  OBVIOUS

LEMMA AllChains ==
    ASSUME NEW chains \in Seq(Nat)
    PROVE  SubSeq(chains, 1, Len(chains)) = chains /\ SubSeq(chains, 1, 0) = <<>>
  OBVIOUS

\* A snapshot adds the chains of a frame.
LEMMA SnapshotReads ==
    ASSUME NEW open \in Seq(Ends), NEW frames \in Seq(Frame), NEW id \in Nat,
           NEW chains \in Seq(Nat)
    PROVE  Leads(Reader(open, "begin", Append(frames, FrameOf(id, <<>>))),
                 SnapshotPieces(chains),
                 Reader(open, "element", Append(frames, FrameOf(id, chains))))
<1> DEFINE n == Len(chains)
           Read(k) == Append(frames, FrameOf(id, SubSeq(chains, 1, k)))
           inside == Append(open, "]}")
           a == Piece("snapshot")
           z == Piece("]}")
           parts == [b \in Nat |-> BucketPieces(b - 1, chains[b])]
           Buckets(k) == FlattenSeq([b \in 1..k |-> parts[b]])
           Is(k) == Leads(Reader(inside, "begin", Read(0)), Buckets(k),
                          Reader(inside, Before(k), Read(k)))
           H == {k \in Nat : k <= n => Is(k)}
<1>1. inside \in Seq(Ends) /\ n \in Nat /\ DOMAIN chains = 1..n
  <2>1. n \in Nat /\ DOMAIN chains = 1..n
    OBVIOUS
  <2> QED
    BY <2>1, EndsFacts
<1>0. n \in Nat
  OBVIOUS
<1>2. Read(0) = Append(frames, FrameOf(id, <<>>)) /\ Read(n) = Append(frames, FrameOf(id, chains))
  BY AllChains
<1>3. Leads(Reader(open, "begin", Read(0)), <<a>>, Reader(inside, "begin", Read(0)))
  <2> HIDE DEF Read
  <2>1. "snapshot" \in {"frames", "snapshot"} /\ "begin" # "element"
    OBVIOUS
  <2> QED
    BY <2>1, ReadsPlain
<1> HIDE DEF n
<1>4. ASSUME NEW k \in 0..(n - 1)
      PROVE  Leads(Reader(inside, Before(k), Read(k)), BucketPieces(k, chains[k + 1]),
                   Reader(inside, "element", Read(k + 1)))
  <2>1. /\ SubSeq(chains, 1, k) \in Seq(Nat) /\ chains[k + 1] \in Nat
        /\ SubSeq(chains, 1, k + 1) = Append(SubSeq(chains, 1, k), chains[k + 1])
    BY FirstChains DEF n
  <2> HIDE DEF inside
  <2>2. Leads(Reader(inside, Before(k), Append(frames, FrameOf(id, SubSeq(chains, 1, k)))),
              BucketPieces(k, chains[k + 1]),
              Reader(inside, "element",
                     Append(frames, FrameOf(id, Append(SubSeq(chains, 1, k), chains[k + 1])))))
    BY <1>1, <2>1, BucketReads
  <2> QED
    BY <2>1, <2>2
<1>5. \A k \in 0..(n - 1) : BucketPieces(k, chains[k + 1]) \in Seq(PieceRecord)
  BY <1>4 DEF Leads
<1>6. \A b \in 1..n : parts[b] = BucketPieces(b - 1, chains[b]) /\ parts[b] \in Seq(PieceRecord)
  <2> SUFFICES ASSUME NEW b \in 1..n
               PROVE  parts[b] = BucketPieces(b - 1, chains[b]) /\ parts[b] \in Seq(PieceRecord)
      OBVIOUS
  <2>0. b \in Nat /\ b - 1 \in 0..(n - 1) /\ (b - 1) + 1 = b
    BY <1>0
  <2>1. b - 1 \in 0..(n - 1) /\ parts[b] = BucketPieces(b - 1, chains[b]) /\ (b - 1) + 1 = b
    BY <2>0
  <2> HIDE DEF parts
  <2> QED
    BY <1>5, <2>1
<1>7. [b \in 1..n |-> parts[b]] = [b \in DOMAIN chains |-> BucketPieces(b - 1, chains[b])]
  BY <1>1, <1>6
<1> HIDE DEF Read, inside, parts
<1>8. 0 \in H
  <2>1. Buckets(0) = <<>>
    <3>1. [b \in 1..0 |-> parts[b]] = <<>>
      OBVIOUS
    <3>2. Len(<<>>) = 0
      OBVIOUS
    <3> QED
      BY <3>1, <3>2 DEF FlattenSeq
  <2> HIDE DEF Buckets
  <2>2. Leads(Reader(inside, "begin", Read(0)), Buckets(0), Reader(inside, "begin", Read(0)))
    BY <2>1, LeadsNowhere
  <2> QED
    BY <2>2 DEF Before
<1>9. ASSUME NEW k \in Nat, k \in H PROVE k + 1 \in H
  <2> SUFFICES ASSUME k + 1 <= n PROVE Is(k + 1)
      OBVIOUS
  <2>1. \A b \in 1..(k + 1) : parts[b] \in Seq(PieceRecord)
    BY <1>1, <1>6
  <2>2. Buckets(k + 1) = Buckets(k) \o parts[k + 1]
    BY <2>1, FlattenFamily
  <2>3. k \in 0..(n - 1) /\ k + 1 \in 1..n /\ (k + 1) - 1 = k /\ k <= n
    BY <1>1
  <2>4. parts[k + 1] = BucketPieces(k, chains[k + 1]) /\ Before(k + 1) = "element"
    BY <1>6, <2>3 DEF Before
  <2> HIDE DEF Buckets
  <2>5. Is(k)
    BY <1>9, <2>3
  <2>6. Leads(Reader(inside, "begin", Read(0)), Buckets(k) \o BucketPieces(k, chains[k + 1]),
              Reader(inside, "element", Read(k + 1)))
    BY <1>4, <2>3, <2>5, LeadsOn
  <2> QED
    BY <2>2, <2>4, <2>6
<1>10. Is(n)
  <2> HIDE DEF H, Is
  <2>1. n \in H
    BY <1>1, <1>8, <1>9, AllNumbers
  <2>2. n <= n
    BY <1>1
  <2> QED
    BY <2>1, <2>2 DEF H
<1>11. Leads(Reader(inside, Before(n), Read(n)), <<z>>, Reader(open, "element", Read(n)))
  <2>1. "]}" \in Ends /\ Before(n) # "separator"
    BY PartedFacts DEF Ends
  <2> QED
    BY <2>1, ReadsEnd DEF inside
<1>12. SnapshotPieces(chains) = <<a>> \o Buckets(n) \o <<z>>
  BY <1>7 DEF SnapshotPieces
<1> HIDE DEF a, z, Buckets
<1>13. Leads(Reader(open, "begin", Read(0)), <<a>> \o Buckets(n), Reader(inside, Before(n), Read(n)))
  BY <1>3, <1>10, LeadsOn
<1>14. Leads(Reader(open, "begin", Read(0)), <<a>> \o Buckets(n) \o <<z>>,
             Reader(open, "element", Read(n)))
  BY <1>11, <1>13, LeadsOn
<1> QED
  BY <1>2, <1>12, <1>14

\* A frame is added to the frames, with its separator.
LEMMA FrameReads ==
    ASSUME NEW frames \in Seq(Frame), NEW frame \in Frame, NEW index
    PROVE  Leads(Reader(<<"]}">>, Before(index), frames), Separator(index) \o FramePieces(frame),
                 Reader(<<"]}">>, "element", Append(frames, frame)))
<1> DEFINE open == <<"]}">>
           inside == Append(open, "}")
           head == <<[kind |-> "frame", id |-> frame.id]>>
           new == Append(frames, FrameOf(frame.id, <<>>))
           whole == Append(frames, FrameOf(frame.id, frame.chains))
           body == SnapshotPieces(frame.chains)
           end == <<Piece("}")>>
<1>1. /\ frame.id \in Nat /\ frame.chains \in Seq(Nat) /\ FrameOf(frame.id, frame.chains) = frame
      /\ open \in Seq(Ends) /\ inside \in Seq(Ends)
  BY DEF Frame, FrameOf, Ends
<1>2. Leads(Reader(open, Before(index), frames), Separator(index), Reader(open, Parted(index), frames))
  BY <1>1, SeparatorReads
<1>3. Leads(Reader(open, Parted(index), frames), head, Reader(inside, "begin", new))
  <2> HIDE DEF open
  <2> QED
    BY <1>1, PartedFacts, ReadsFrame
<1>4. Leads(Reader(inside, "begin", new), body, Reader(inside, "element", whole))
  <2> HIDE DEF inside
  <2> QED
    BY <1>1, SnapshotReads
<1>5. Leads(Reader(inside, "element", whole), end, Reader(open, "element", whole))
  <2>1. "}" \in Ends /\ "element" # "separator"
    BY DEF Ends
  <2> HIDE DEF open, whole
  <2> QED
    BY <1>1, <2>1, ReadsEnd
<1>6. FramePieces(frame) = head \o body \o end
  BY DEF FramePieces
<1> HIDE DEF open, inside, head, new, body, end
<1>7. Leads(Reader(open, Parted(index), frames), head \o body, Reader(inside, "element", whole))
  BY <1>3, <1>4, LeadsOn
<1>8. Leads(Reader(open, Parted(index), frames), head \o body \o end, Reader(open, "element", whole))
  BY <1>5, <1>7, LeadsOn
<1>9. Leads(Reader(open, Before(index), frames), Separator(index) \o (head \o body \o end),
            Reader(open, "element", whole))
  BY <1>2, <1>8, LeadsOn
<1> QED
  BY <1>1, <1>6, <1>9 DEF open

-----------------------------------------------------------------------------
(* The document as it grows. *)

\* The first frames that were asked for.
FirstFrames(n, frames) ==
    /\ frames \in Seq(Frame) /\ Len(frames) = n
    /\ \A i \in 1..n : frames[i] \in FrameAt(i - 1)

\* What a reader has met when it has read what was begun: as many frames, each the one that
\* was asked for.
HasMet(index, reader) ==
    \E frames :
        IF index <= FrameCount
        THEN FirstFrames(index, frames) /\ reader = Reader(<<"]}">>, Before(index), frames)
        ELSE FirstFrames(FrameCount, frames) /\ reader = Reader(<<>>, "element", frames)

LEMMA AppendedFacts ==
    ASSUME NEW S, NEW s \in Seq(S), NEW x \in S
    PROVE  /\ Append(s, x) \in Seq(S) /\ Len(Append(s, x)) = Len(s) + 1
           /\ Append(s, x)[Len(s) + 1] = x /\ \A i \in 1..Len(s) : Append(s, x)[i] = s[i]
  OBVIOUS

LEMMA NoneAround ==
    ASSUME NEW pieces \in Seq(PieceRecord)
    PROVE  <<>> \o pieces = pieces /\ pieces \o <<>> = pieces
  OBVIOUS

\* What is written and what is to be written next lead there.
IsRead == \E reader : Leads(EmptyReader, text \o rest, reader) /\ HasMet(frame_index, reader)

\* What is left to write is not empty while a capacity is looked for.
DocumentTypes ==
    /\ retained \in Seq(Frame)
    /\ asked \in [kind : {"timeline", "result"}, first : Nat, count : Nat]
    /\ frame_index \in 0..(FrameCount + 1)
    /\ text \in Seq(PieceRecord) /\ rest \in Seq(PieceRecord)
    /\ pc = "growing" => rest # <<>>

\* builder.length is what the pieces written come to.
IsCounted == length = Result("length", 0, text)

\* The copy is made of a document that is at its end.
HasArrived ==
    outcome = "OK" => /\ pc = "returned" /\ bytes = text /\ rest = <<>>
                      /\ frame_index = FrameCount + 1 /\ length <= Int32Max

DocumentInv == DocumentTypes /\ IsRead /\ IsCounted /\ HasArrived

LEMMA FrameCountFacts ==
    ASSUME DocumentTypes
    PROVE  /\ FrameCount \in Nat
           /\ \A i \in 0..(FrameCount - 1) : FrameAt(i) \subseteq Frame
<1>1. Len(retained) \in Nat /\ asked.count \in Nat
  BY DEF DocumentTypes
<1>2. ASSUME NEW i \in 0..(FrameCount - 1) PROVE FrameAt(i) \subseteq Frame
  <2>1. CASE asked.kind = "timeline"
    <3>1. i + 1 \in 1..Len(retained)
      BY <1>1, <2>1 DEF FrameCount
    <3>2. retained[i + 1] \in Frame
      BY <3>1 DEF DocumentTypes
    <3> QED
      BY <2>1, <3>2 DEF FrameAt
  <2>2. CASE asked.kind # "timeline"
    <3>1. ToSet(retained) \subseteq Frame
      BY DEF DocumentTypes, ToSet
    <3> QED
      BY <2>2, <3>1 DEF FrameAt
  <2> QED
    BY <2>1, <2>2
<1> QED
  BY <1>1, <1>2 DEF FrameCount

\* The head of a document opens its array of frames.
LEMMA HeadReads ==
    Leads(EmptyReader, HeadPieces, Reader(<<"]}">>, "begin", <<>>))
<1> DEFINE open == <<>>
           empty == Reader(open, "begin", <<>>)
           after == Reader(<<"]}">>, "begin", <<>>)
           a == Piece("head")
           b == Piece("value")
           c == Piece("frames")
<1>1. /\ EmptyReader = empty /\ open \in Seq(Ends) /\ Append(open, "]}") = <<"]}">>
      /\ "begin" # "element"
  BY DEF EmptyReader, Reader
<1>2. Leads(empty, <<c>>, after)
  <2>1. "frames" \in {"frames", "snapshot"}
    OBVIOUS
  <2> HIDE DEF open
  <2>2. Leads(empty, <<c>>, Reader(Append(open, "]}"), "begin", <<>>))
    BY <1>1, <2>1, ReadsPlain
  <2> QED
    BY <1>1, <2>2
<1>3. Leads(empty, <<a>>, empty) /\ Leads(empty, <<b>>, empty)
  <2>1. "head" \in {"head", "value", "key"} /\ "value" \in {"head", "value", "key"}
    OBVIOUS
  <2> HIDE DEF open
  <2> QED
    BY <1>1, <2>1, ReadsOver
<1>4. HeadPieces = <<c>> \/ HeadPieces = <<a, b, c>>
  BY DEF HeadPieces
<1>5. <<a, b, c>> = <<a>> \o <<b>> \o <<c>>
  <2>1. a \in PieceRecord /\ b \in PieceRecord /\ c \in PieceRecord
    BY DEF Piece, PieceRecord, Kinds
  <2> HIDE DEF a, b, c
  <2> QED
    BY <2>1, ThreePieces
<1> HIDE DEF a, b, c, empty, after
<1>6. Leads(empty, <<a>> \o <<b>>, empty)
  BY <1>3, LeadsOn
<1>7. Leads(empty, <<a>> \o <<b>> \o <<c>>, after)
  BY <1>2, <1>6, LeadsOn
<1> QED
  BY <1>1, <1>2, <1>4, <1>5, <1>7 DEF after

\* It holds at first.
LEMMA InitDocument == Init => DocumentInv
<1> SUFFICES ASSUME Init PROVE DocumentInv
    OBVIOUS
<1>1. /\ retained \in Seq(Frame)
      /\ asked \in [kind : {"timeline", "result"}, first : Nat, count : Nat]
      /\ pc = "appending" /\ frame_index = 0 /\ rest = HeadPieces /\ text = <<>> /\ length = 0
      /\ outcome = "none"
  BY DocumentAssumption DEF Init, Frame
<1>2. Leads(EmptyReader, rest, Reader(<<"]}">>, "begin", <<>>)) /\ rest \in Seq(PieceRecord)
  BY <1>1, HeadReads DEF Leads
<1>3. /\ FrameCount \in Nat /\ text \in Seq(PieceRecord)
  BY <1>1 DEF FrameCount
<1>4. DocumentTypes
  <2>1. 0 \in 0..(FrameCount + 1)
    BY <1>3
  <2> QED
    BY <1>1, <1>2, <1>3, <2>1 DEF DocumentTypes
<1>5. HasMet(frame_index, Reader(<<"]}">>, "begin", <<>>))
  <2> DEFINE frames == <<>>
  <2>1. FirstFrames(0, frames) /\ Before(0) = "begin" /\ 0 <= FrameCount
    BY <1>3 DEF FirstFrames, Before
  <2> HIDE DEF frames
  <2>2. HasMet(frame_index, Reader(<<"]}">>, "begin", frames))
    BY <1>1, <2>1 DEF HasMet
  <2> QED
    BY <2>2 DEF frames
<1>6. IsRead
  <2>1. text \o rest = rest
    BY <1>1, <1>2, NoneAround
  <2> QED
    BY <1>2, <1>5, <2>1 DEF IsRead
<1>7. IsCounted
  <2>1. Len(text) = 0
    BY <1>1
  <2>2. Result("length", 0, text) = 0
    BY <1>3, <2>1, ResultOfNone
  <2> QED
    BY <1>1, <2>2 DEF IsCounted
<1> QED
  BY <1>1, <1>4, <1>6, <1>7 DEF DocumentInv, HasArrived

\* A piece that is written was to be written next; with its size the length is counted on.
LEMMA WritesKeep ==
    ASSUME BufferInv, DocumentInv, rest # <<>>, CanReserve(NextSize), Writes, pc # "returned",
           pc' = "appending", UNCHANGED <<retained, asked, frame_index, outcome, bytes>>
    PROVE  DocumentInv'
<1> DEFINE piece == Head(rest)
           size == NextSize
<1>1. /\ piece \in PieceRecord /\ Tail(rest) \in Seq(PieceRecord) /\ text \in Seq(PieceRecord)
      /\ Append(text, piece) \o Tail(rest) = text \o rest /\ Append(text, piece) \in Seq(PieceRecord)
  BY SMTT(30) DEF DocumentInv, DocumentTypes
<1>2. /\ text' = Append(text, piece) /\ rest' = Tail(rest) /\ length' = Wrap(length + size)
  BY DEF Writes
<1>3. DocumentTypes'
  BY <1>1, <1>2 DEF DocumentInv, DocumentTypes, FrameCount
<1>4. IsRead'
  BY <1>1, <1>2 DEF DocumentInv, IsRead, HasMet, FirstFrames, FrameCount, FrameAt
<1>5. IsCounted'
  <2>1. size \in Nat /\ size = SizeOf(piece)
    BY SizesAreNumbers DEF NextSize
  <2> HIDE DEF size, piece
  <2>2. length' = length + size
    BY <1>2, <2>1, RequiredIsTrue DEF size
  <2>3. Result("length", 0, Append(text, piece)) = Taken("length", Result("length", 0, text), piece)
    BY <1>1, ResultOfAppend
  <2>4. Taken("length", length, piece) = length + size
    BY <2>1 DEF Taken
  <2> QED
    BY <1>2, <2>2, <2>3, <2>4 DEF DocumentInv, IsCounted
<1>6. HasArrived'
  BY DEF DocumentInv, HasArrived
<1> QED
  BY <1>3, <1>4, <1>5, <1>6 DEF DocumentInv

\* While a capacity is looked for, and when a call fails, the document stays as it is.
LEMMA StaysKeeps ==
    ASSUME DocumentInv,
           UNCHANGED <<retained, asked, frame_index, rest, text, length, bytes>>,
           pc' = "growing" => rest # <<>>,
           outcome' = "OK" => outcome = "OK" /\ pc' = pc
    PROVE  DocumentInv'
<1>1. DocumentTypes'
  BY DEF DocumentInv, DocumentTypes, FrameCount
<1>2. IsRead'
  BY DEF DocumentInv, IsRead, HasMet, FirstFrames, FrameCount, FrameAt
<1>3. IsCounted' /\ HasArrived'
  BY DEF DocumentInv, IsCounted, HasArrived, FrameCount
<1> QED
  BY <1>1, <1>2, <1>3 DEF DocumentInv

\* A frame that is begun is the one that was asked for at its place.
LEMMA BeginFrameKeeps == ASSUME DocumentInv, BeginFrame PROVE DocumentInv'
<1>1. /\ pc = "appending" /\ rest = <<>> /\ frame_index < FrameCount
      /\ frame_index' = frame_index + 1
      /\ UNCHANGED <<retained, asked, pc, text, length, outcome, bytes>>
  BY DEF BeginFrame, buffervars
<1>2. PICK frame \in FrameAt(frame_index) : rest' = Separator(frame_index) \o FramePieces(frame)
  BY DEF BeginFrame
<1>3. FrameCount \in Nat /\ frame_index \in Nat /\ text \in Seq(PieceRecord)
  BY FrameCountFacts DEF DocumentInv, DocumentTypes
<1>4. frame \in Frame
  BY <1>1, <1>2, <1>3, FrameCountFacts DEF DocumentInv
<1>5. PICK reader : Leads(EmptyReader, text, reader) /\ HasMet(frame_index, reader)
  <2>1. text \o rest = text
    BY <1>1, <1>3, NoneAround
  <2> QED
    BY <2>1 DEF DocumentInv, IsRead
<1>a. PICK frames : FirstFrames(frame_index, frames)
                    /\ reader = Reader(<<"]}">>, Before(frame_index), frames)
  <2>1. frame_index <= FrameCount
    BY <1>1, <1>3
  <2> QED
    BY <1>5, <2>1 DEF HasMet
<1>6. /\ frames \in Seq(Frame) /\ Len(frames) = frame_index
      /\ \A i \in 1..frame_index : frames[i] \in FrameAt(i - 1)
      /\ reader = Reader(<<"]}">>, Before(frame_index), frames)
  BY <1>a DEF FirstFrames
<1> DEFINE longer == Append(frames, frame)
           after == Reader(<<"]}">>, "element", longer)
<1>7. Leads(reader, rest', after)
  BY <1>2, <1>4, <1>6, FrameReads
<1>8. /\ longer \in Seq(Frame) /\ Len(longer) = frame_index + 1
      /\ \A i \in 1..(frame_index + 1) : longer[i] \in FrameAt(i - 1)
  <2>0. frames \in Seq(Frame)
    BY <1>6
  <2>1. /\ longer \in Seq(Frame) /\ Len(longer) = Len(frames) + 1
        /\ longer[Len(frames) + 1] = frame /\ \A i \in 1..Len(frames) : longer[i] = frames[i]
    BY <1>4, <2>0, AppendedFacts
  <2> HIDE DEF longer
  <2>2. ASSUME NEW i \in 1..(frame_index + 1) PROVE longer[i] \in FrameAt(i - 1)
    <3>1. CASE i = frame_index + 1
      <4>1. i - 1 = frame_index
        BY <1>3, <3>1
      <4>2. longer[i] = frame
        BY <1>6, <2>1, <3>1
      <4> QED
        BY <1>2, <4>1, <4>2
    <3>2. CASE i # frame_index + 1
      <4>1. i \in 1..frame_index
        BY <1>3, <3>2
      <4>2. longer[i] = frames[i]
        BY <1>6, <2>1, <4>1
      <4> QED
        BY <1>6, <4>1, <4>2
    <3> QED
      BY <3>1, <3>2
  <2> QED
    BY <1>6, <2>1, <2>2
<1> HIDE DEF longer
<1>9. HasMet(frame_index, after)'
  <2>1. FrameCount' = FrameCount /\ \A i : FrameAt(i)' = FrameAt(i)
    BY <1>1 DEF FrameCount, FrameAt
  <2>2. Before(frame_index + 1) = "element" /\ frame_index + 1 <= FrameCount
    BY <1>1, <1>3 DEF Before
  <2> QED
    BY <1>1, <1>8, <2>1, <2>2 DEF HasMet, FirstFrames
<1> HIDE DEF after
<1>10. Leads(EmptyReader, text \o rest', after)
  BY <1>5, <1>7, LeadsOn
<1>11. IsRead'
  BY <1>1, <1>9, <1>10 DEF IsRead
<1>12. DocumentTypes'
  <2>1. rest' \in Seq(PieceRecord)
    BY <1>7 DEF Leads
  <2>2. frame_index + 1 \in 0..(FrameCount + 1) /\ FrameCount' = FrameCount
    BY <1>1, <1>3 DEF FrameCount
  <2> QED
    BY <1>1, <2>1, <2>2 DEF DocumentInv, DocumentTypes
<1>13. IsCounted' /\ HasArrived'
  BY <1>1 DEF DocumentInv, IsCounted, HasArrived
<1> QED
  BY <1>11, <1>12, <1>13 DEF DocumentInv

\* The end of a document closes its array.
LEMMA EndDocumentKeeps == ASSUME DocumentInv, EndDocument PROVE DocumentInv'
<1>1. /\ pc = "appending" /\ rest = <<>> /\ frame_index = FrameCount
      /\ rest' = <<Piece("]}")>> /\ frame_index' = frame_index + 1
      /\ UNCHANGED <<retained, asked, pc, text, length, outcome, bytes>>
  BY DEF EndDocument, buffervars
<1>2. FrameCount \in Nat /\ text \in Seq(PieceRecord)
  BY FrameCountFacts DEF DocumentInv, DocumentTypes
<1>3. PICK reader : Leads(EmptyReader, text, reader) /\ HasMet(frame_index, reader)
  <2>1. text \o rest = text
    BY <1>1, <1>2, NoneAround
  <2> QED
    BY <2>1 DEF DocumentInv, IsRead
<1>4. PICK frames : FirstFrames(FrameCount, frames)
                    /\ reader = Reader(<<"]}">>, Before(FrameCount), frames)
  <2>1. frame_index = FrameCount
    BY <1>1
  <2>2. HasMet(FrameCount, reader)
    BY <1>3, <2>1
  <2>3. FrameCount <= FrameCount
    BY <1>2
  <2> QED
    BY <2>2, <2>3 DEF HasMet
<1> DEFINE open == <<>>
           after == Reader(open, "element", frames)
<1>5. Leads(reader, rest', after)
  <2>1. open \in Seq(Ends) /\ Append(open, "]}") = <<"]}">>
    OBVIOUS
  <2> HIDE DEF open
  <2>2. Leads(Reader(Append(open, "]}"), Before(FrameCount), frames), <<Piece("]}")>>, after)
    BY <2>1, PartedFacts, EndsFacts, ReadsEnd
  <2> QED
    BY <1>1, <1>4, <2>1, <2>2
<1>6. HasMet(frame_index, after)'
  <2>1. FrameCount' = FrameCount /\ \A i : FrameAt(i)' = FrameAt(i)
    BY <1>1 DEF FrameCount, FrameAt
  <2>2. ~(FrameCount + 1 <= FrameCount)
    BY <1>2
  <2> QED
    BY <1>1, <1>4, <2>1, <2>2 DEF HasMet, FirstFrames
<1> HIDE DEF after
<1>7. Leads(EmptyReader, text \o rest', after)
  BY <1>3, <1>5, LeadsOn
<1>8. IsRead'
  BY <1>1, <1>6, <1>7 DEF IsRead
<1>9. DocumentTypes'
  <2>1. rest' \in Seq(PieceRecord)
    BY <1>5 DEF Leads
  <2>2. FrameCount + 1 \in 0..(FrameCount + 1)
    BY <1>2
  <2>3. FrameCount' = FrameCount
    BY <1>1 DEF FrameCount
  <2> QED
    BY <1>1, <2>1, <2>2, <2>3 DEF DocumentInv, DocumentTypes
<1>10. IsCounted' /\ HasArrived'
  BY <1>1 DEF DocumentInv, IsCounted, HasArrived
<1> QED
  BY <1>8, <1>9, <1>10 DEF DocumentInv

\* The copy is the whole document.
LEMMA CopyJsonKeeps == ASSUME DocumentInv, CopyJson PROVE DocumentInv'
<1>1. /\ rest = <<>> /\ frame_index = FrameCount + 1 /\ length <= Int32Max
      /\ bytes' = text /\ pc' = "returned"
      /\ UNCHANGED <<retained, asked, frame_index, rest, text, length>>
  BY DEF CopyJson, IsEncoded, Returns
<1>2. DocumentTypes' /\ IsRead'
  BY <1>1 DEF DocumentInv, DocumentTypes, IsRead, HasMet, FirstFrames, FrameCount, FrameAt
<1>3. IsCounted' /\ HasArrived'
  BY <1>1 DEF DocumentInv, IsCounted, HasArrived, FrameCount
<1> QED
  BY <1>2, <1>3 DEF DocumentInv

\* Every step keeps the invariant.
LEMMA NextKeepsDocument == BufferInv /\ DocumentInv /\ [Next]_vars => DocumentInv'
<1> SUFFICES ASSUME BufferInv, DocumentInv, [Next]_vars PROVE DocumentInv'
    OBVIOUS
<1>1. CASE UNCHANGED vars
  BY <1>1, StaysKeeps DEF vars, buffervars, DocumentInv, DocumentTypes
<1>2. CASE AppendPiece
  <2>1. /\ pc = "appending" /\ rest # <<>> /\ CanReserve(NextSize)
        /\ UNCHANGED <<retained, asked, frame_index, outcome, bytes>>
    BY <1>2 DEF AppendPiece
  <2>2. CASE Required(NextSize) <= capacity
    BY <1>2, <2>1, <2>2, WritesKeep DEF AppendPiece
  <2>3. CASE ~(Required(NextSize) <= capacity)
    <3>1. pc' = "growing" /\ UNCHANGED <<rest, text, length>>
      BY <1>2, <2>3 DEF AppendPiece
    <3>2. outcome # "OK"
      BY <2>1 DEF DocumentInv, HasArrived
    <3> QED
      BY <2>1, <3>1, <3>2, StaysKeeps
  <2> QED
    BY <2>2, <2>3
<1>3. CASE Grow
  BY <1>3, StaysKeeps DEF Grow, DocumentInv, DocumentTypes
<1>4. CASE Reallocate
  <2>1. /\ pc = "growing" /\ pc' = "appending" /\ Writes
        /\ UNCHANGED <<retained, asked, frame_index, outcome, bytes>>
    BY <1>4 DEF Reallocate
  <2>2. rest # <<>> /\ CanReserve(NextSize)
    BY <2>1 DEF DocumentInv, DocumentTypes, BufferInv, IsChecked
  <2> QED
    BY <2>1, <2>2, WritesKeep
<1>5. CASE IsTooLong \/ HasNoMemory \/ MissesFrame \/ CannotCopy
  <2>1. PICK status \in {"NO_MEMORY", "NOT_FOUND", "TOO_LARGE", "NO_ARRAY"} : Fails(status)
    BY <1>5 DEF IsTooLong, HasNoMemory, MissesFrame, CannotCopy
  <2> QED
    BY <2>1, StaysKeeps DEF Fails, Returns
<1>6. CASE BeginFrame
  BY <1>6, BeginFrameKeeps
<1>7. CASE EndDocument
  BY <1>7, EndDocumentKeeps
<1>8. CASE CopyJson
  BY <1>8, CopyJsonKeeps
<1> QED
  BY <1>1, <1>2, <1>3, <1>4, <1>5, <1>6, <1>7, <1>8 DEF Next

\* A document that has arrived is read to its end.
LEMMA ArrivedIsRead == DocumentInv => ArrivesWhole
<1> SUFFICES ASSUME DocumentInv, outcome = "OK"
             PROVE  /\ length = FoldLeft(LAMBDA sum, piece : sum + SizeOf(piece), 0, bytes)
                    /\ length <= Int32Max
                    /\ LET reader == Parsed(bytes)
                       IN /\ reader.good /\ reader.open = <<>>
                          /\ Len(reader.frames) = FrameCount
                          /\ \A i \in 1..FrameCount : reader.frames[i] \in FrameAt(i - 1)
    BY DEF ArrivesWhole
<1>1. /\ bytes = text /\ rest = <<>> /\ frame_index = FrameCount + 1 /\ length <= Int32Max
      /\ text \in Seq(PieceRecord) /\ length = Result("length", 0, bytes)
  BY DEF DocumentInv, DocumentTypes, IsCounted, HasArrived
<1>2. length = FoldLeft(LAMBDA sum, piece : sum + SizeOf(piece), 0, bytes)
  BY <1>1, LengthIsResult
<1>3. PICK reader : Leads(EmptyReader, bytes, reader) /\ HasMet(FrameCount + 1, reader)
  <2>1. text \o rest = text
    BY <1>1, NoneAround
  <2> QED
    BY <1>1, <2>1 DEF DocumentInv, IsRead
<1>4. Parsed(bytes) = reader
  BY <1>3, ParsedIsResult DEF Leads
<1>5. FrameCount \in Nat
  BY FrameCountFacts DEF DocumentInv
<1>a. PICK frames : FirstFrames(FrameCount, frames) /\ reader = Reader(<<>>, "element", frames)
  <2>1. ~(FrameCount + 1 <= FrameCount)
    BY <1>5
  <2> QED
    BY <1>3, <2>1 DEF HasMet
<1>6. /\ Len(frames) = FrameCount
      /\ \A i \in 1..FrameCount : frames[i] \in FrameAt(i - 1)
      /\ reader = Reader(<<>>, "element", frames)
  BY <1>a DEF FirstFrames
<1>7. reader.good /\ reader.open = <<>> /\ reader.frames = frames
  BY <1>6 DEF Reader
<1> QED
  BY <1>1, <1>2, <1>4, <1>6, <1>7

\* It holds in every behaviour; what was checked before a growth is in BufferInv.
LEMMA DocumentInvHolds == Spec => []DocumentInv
  BY InitDocument, NextKeepsDocument, BufferInvHolds, PTL DEF Spec

-----------------------------------------------------------------------------
(* The theorems. *)

\* No append writes past the buffer, NUL included, however near to SIZE_MAX the document
\* comes (hash_json.c:25-67).
THEOREM NoWritePastBuffer == Spec => []WritesFit
<1>1. BufferInv => WritesFit
  BY DEF BufferInv
<1> QED
  BY <1>1, BufferInvHolds, PTL

\* Every return of the encoder and of the copy has freed the buffer, once.
THEOREM NoBufferIsLeaked == Spec => []BufferIsFreedOnce
<1>1. BufferInv => BufferIsFreedOnce
  BY DEF BufferInv
<1> QED
  BY <1>1, BufferInvHolds, PTL

\* A document that arrives in Kotlin is complete (hash_json.c:206-323, NativeModels.kt): its
\* length is that of its pieces and fits a Java array, its separators and brackets match, and
\* it is read to the frames that were asked for, in their order, each with every chain of its
\* snapshot as long as it was.
THEOREM DocumentArrivesWhole == Spec => []ArrivesWhole
  BY DocumentInvHolds, ArrivedIsRead, PTL

-----------------------------------------------------------------------------
(* How long an encoding can run. *)

\* What is left of an encoding: the frames to begin and the end, then the pieces to append,
\* then the bytes that the capacity looked for still lacks.
FramesLeft == (FrameCount + 1) - frame_index

PiecesLeft == Len(rest)

BytesLeft ==
    IF pc = "appending" THEN SizeMax + 1
    ELSE IF pc = "growing" /\ wanted < Required(NextSize) THEN Required(NextSize) - wanted
    ELSE 0

EncodingIsShort == FramesLeft \in Nat /\ PiecesLeft \in Nat /\ BytesLeft \in Nat

\* Each comes before the next.
LessIsLeft ==
    \/ FramesLeft' < FramesLeft
    \/ FramesLeft' = FramesLeft /\ PiecesLeft' < PiecesLeft
    \/ FramesLeft' = FramesLeft /\ PiecesLeft' = PiecesLeft /\ BytesLeft' < BytesLeft

LEMMA LeftIsNumbers == ASSUME BufferInv, DocumentInv PROVE EncodingIsShort
<1>1. FrameCount \in Nat /\ frame_index \in 0..(FrameCount + 1) /\ Len(rest) \in Nat
  BY FrameCountFacts DEF DocumentInv, DocumentTypes
<1>2. FramesLeft \in Nat
  BY <1>1 DEF FramesLeft
<1>3. BytesLeft \in Nat
  <2>1. Required(NextSize) \in Nat
    <3>1. length + NextSize + 1 \in Nat
      BY SizesAreNumbers DEF NextSize, BufferInv, BufferTypes
    <3> QED
      BY <3>1, EncoderAssumption DEF Required, Wrap
  <2>2. wanted \in Nat /\ SizeMax + 1 \in Nat
    BY EncoderAssumption DEF BufferInv, BufferTypes
  <2> QED
    BY <2>1, <2>2 DEF BytesLeft
<1> QED
  BY <1>1, <1>2, <1>3 DEF EncodingIsShort, PiecesLeft

\* A piece that is written is not left.
LEMMA WritingFalls ==
    ASSUME DocumentInv, rest # <<>>, Writes, UNCHANGED <<retained, asked, frame_index>>
    PROVE  LessIsLeft
<1>1. rest \in Seq(PieceRecord) /\ rest' = Tail(rest)
  BY DEF DocumentInv, DocumentTypes, Writes
<1>2. PiecesLeft' < PiecesLeft
  BY <1>1 DEF PiecesLeft
<1>3. FramesLeft' = FramesLeft
  BY DEF FramesLeft, FrameCount
<1> QED
  BY <1>2, <1>3 DEF LessIsLeft

\* A capacity that is doubled has come nearer, and one that is not is what was required.
LEMMA GrowingFalls == ASSUME BufferInv, DocumentInv, Grow PROVE LessIsLeft
<1> DEFINE size == NextSize
           need == Required(size)
<1>1. /\ pc = "growing" /\ pc' = "growing" /\ wanted < need /\ wanted' = Grown(size)
      /\ UNCHANGED <<retained, asked, frame_index, rest, length>>
  BY DEF Grow
<1>2. size \in Nat /\ CanReserve(size)
  BY <1>1, SizesAreNumbers DEF NextSize, BufferInv, IsChecked
<1>3. need \in Nat /\ need <= SizeMax /\ SizeMax \in Nat
      /\ wanted \in Nat /\ 0 < wanted /\ wanted <= SizeMax
  <2>1. length \in Nat /\ need = length + size + 1 /\ need <= SizeMax
    BY <1>2, RequiredIsTrue DEF BufferInv, BufferTypes
  <2> HIDE DEF need, size
  <2> QED
    BY <1>2, <2>1, EncoderAssumption DEF BufferInv, BufferTypes
<1>4. wanted' \in Nat /\ wanted' > wanted
  <2>1. CASE wanted > SizeMax \div 2
    <3>1. wanted' = need
      BY <1>1, <2>1 DEF Grown
    <3> HIDE DEF need
    <3> QED
      BY <1>1, <1>3, <3>1
  <2>2. CASE ~(wanted > SizeMax \div 2)
    <3>1. 2 * wanted \in Nat /\ 2 * wanted <= SizeMax
      <4> HIDE DEF need
      <4> QED
        BY <1>3, <2>2
    <3>2. wanted' = 2 * wanted
      BY <1>1, <2>2, <3>1, WrapKeeps DEF Grown
    <3> HIDE DEF need
    <3> QED
      BY <1>3, <3>2
  <2> QED
    BY <2>1, <2>2
<1>5. Required(NextSize)' = need
  BY <1>1 DEF Required, NextSize, Wrap
<1>6. /\ BytesLeft = need - wanted
      /\ BytesLeft' = IF wanted' < need THEN need - wanted' ELSE 0
  BY <1>1, <1>5 DEF BytesLeft
<1>7. BytesLeft' < BytesLeft
  <2> HIDE DEF need
  <2> QED
    BY <1>1, <1>3, <1>4, <1>6
<1>8. FramesLeft' = FramesLeft /\ PiecesLeft' = PiecesLeft
  BY <1>1 DEF FramesLeft, FrameCount, PiecesLeft
<1> QED
  BY <1>7, <1>8 DEF LessIsLeft

\* A search for a capacity begins with less than a size_t can hold to be found.
LEMMA SearchFalls ==
    ASSUME BufferInv, BufferInv', pc = "appending", pc' = "growing",
           UNCHANGED <<retained, asked, frame_index, rest>>
    PROVE  LessIsLeft
<1> DEFINE need == Required(NextSize)'
<1>1. need \in Nat /\ need <= SizeMax
  <2>1. NextSize' \in Nat
    BY SizesAreNumbers DEF NextSize
  <2>2. length' \in Nat
    BY DEF BufferInv, BufferTypes
  <2>3. need = (length' + NextSize' + 1) % (SizeMax + 1)
    BY DEF Required, Wrap
  <2>4. length' + NextSize' + 1 \in Nat
    <3>1. \A m, n \in Nat : m + n + 1 \in Nat
      OBVIOUS
    <3> QED
      BY <2>1, <2>2, <3>1, Zenon
  <2>5. \A n \in Nat : n % (SizeMax + 1) \in Nat /\ n % (SizeMax + 1) <= SizeMax
    BY EncoderAssumption
  <2> QED
    BY <2>3, <2>4, <2>5, Zenon
<1>2. wanted' \in Nat /\ SizeMax \in Nat
  BY EncoderAssumption DEF BufferInv, BufferTypes
<1>3. BytesLeft' = (IF wanted' < need THEN need - wanted' ELSE 0) /\ BytesLeft = SizeMax + 1
  BY DEF BytesLeft
<1>4. BytesLeft' < BytesLeft
  <2>1. (IF wanted' < need THEN need - wanted' ELSE 0) < SizeMax + 1
    <3>1. \A w, n \in Nat : n <= SizeMax => (IF w < n THEN n - w ELSE 0) < SizeMax + 1
      BY <1>2
    <3> QED
      BY <1>1, <1>2, <3>1, Zenon
  <2> QED
    BY <1>3, <2>1, Zenon
<1>5. FramesLeft' = FramesLeft /\ PiecesLeft' = PiecesLeft
  BY DEF FramesLeft, FrameCount, PiecesLeft
<1> QED
  BY <1>4, <1>5 DEF LessIsLeft

\* A frame that is begun is not left, however many pieces it brings.
LEMMA BeginningFalls ==
    ASSUME DocumentInv, frame_index' = frame_index + 1, UNCHANGED <<retained, asked>>
    PROVE  LessIsLeft
<1>1. FrameCount \in Nat /\ frame_index \in Nat
  BY FrameCountFacts DEF DocumentInv, DocumentTypes
<1>2. FrameCount' = FrameCount
  BY DEF FrameCount
<1>3. FramesLeft' = (FrameCount + 1) - (frame_index + 1)
  BY <1>2 DEF FramesLeft
<1> QED
  BY <1>1, <1>3 DEF FramesLeft, LessIsLeft

LEMMA LeftFalls ==
    ASSUME BufferInv, BufferInv', DocumentInv, Next
    PROVE  pc # "returned" /\ (pc' = "returned" \/ LessIsLeft)
<1>1. CASE AppendPiece
  <2>1. CASE Required(NextSize) <= capacity
    BY <1>1, <2>1, WritingFalls DEF AppendPiece
  <2>2. CASE ~(Required(NextSize) <= capacity)
    BY <1>1, <2>2, SearchFalls DEF AppendPiece
  <2> QED
    BY <1>1, <2>1, <2>2 DEF AppendPiece
<1>2. CASE Grow
  BY <1>2, GrowingFalls DEF Grow
<1>3. CASE Reallocate
  <2>1. rest # <<>>
    BY <1>3 DEF Reallocate, DocumentInv, DocumentTypes
  <2> QED
    BY <1>3, <2>1, WritingFalls DEF Reallocate
<1>4. CASE BeginFrame \/ EndDocument
  BY <1>4, BeginningFalls DEF BeginFrame, EndDocument
<1>5. CASE IsTooLong \/ HasNoMemory \/ MissesFrame \/ CopyJson \/ CannotCopy
  BY <1>5 DEF IsTooLong, HasNoMemory, MissesFrame, CopyJson, CannotCopy, IsEncoded, Fails, Returns
<1> QED
  BY <1>1, <1>2, <1>3, <1>4, <1>5 DEF Next

\* An encoding comes nearer to its end with every step, and does nothing after it: a search
\* for a capacity ends, near to SIZE_MAX too, before a piece is written, the pieces of a
\* frame before the next is begun, and the frames are no more than were asked for
\* (hash_json.c:25-67 and :206-323).
THEOREM EncodingsAreShort ==
    Spec => []EncodingIsShort /\ [][pc # "returned" /\ (pc' = "returned" \/ LessIsLeft)]_vars
<1>1. BufferInv /\ DocumentInv => EncodingIsShort
  BY LeftIsNumbers
<1>2. BufferInv /\ BufferInv' /\ DocumentInv /\ [Next]_vars =>
          [pc # "returned" /\ (pc' = "returned" \/ LessIsLeft)]_vars
  BY LeftFalls
<1> QED
  BY <1>1, <1>2, BufferInvHolds, DocumentInvHolds, PTL DEF Spec

=============================================================================
