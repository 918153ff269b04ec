----------------------------- MODULE JsonEncoder -----------------------------
(***************************************************************************)
(* The encoding of a result or of a timeline (hash_json.c), its copy into a*)
(* Java array (hti_jni_copy_json) and what NativeModels.kt reads from it.  *)
(*                                                                         *)
(* A document is appended piece by piece to a buffer that grows; a piece   *)
(* is what one append writes, a frame is its id and the number of entries  *)
(* in each bucket of its snapshot.                                         *)
(***************************************************************************)
EXTENDS Naturals, Sequences, SequencesExt

CONSTANTS
    SizeMax,            \* SIZE_MAX
    InitialCapacity,    \* 256, the first capacity of a buffer
    Int32Max,           \* INT32_MAX, the longest Java array
    PieceSize,          \* how many bytes a piece of each kind has
    Timelines,          \* the retained frames, oldest first, that may be met
    Requests            \* what may be asked: the timeline, or the frames of a result

ASSUME EncoderAssumption ==
    /\ SizeMax \in Nat /\ InitialCapacity \in 1..SizeMax
    /\ Int32Max \in Nat
    /\ \A kind \in DOMAIN PieceSize : PieceSize[kind] \in Nat

\* A frame of a timeline or of a result has an id and the lengths of its chains.
ASSUME DocumentAssumption ==
    /\ Timelines \subseteq Seq([id : Nat, chains : Seq(Nat)])
    /\ Requests \subseteq [kind : {"timeline", "result"}, first : Nat, count : Nat]

VARIABLES
    retained,           \* the frames of session->timeline
    asked,              \* [kind, first, count]
    pc,                 \* "appending", "growing", "returned"
    frame_index,        \* how many frames have been begun; one more once the end has
    rest,               \* the pieces to append before the next frame
    text,               \* the pieces appended
    length, capacity,   \* builder.length and builder.capacity
    wanted,             \* the capacity that hti_json_reserve is looking for
    blocks,             \* how many buffers are allocated
    outcome, bytes      \* how the call ended, and the Java array it returned

buffervars == <<length, capacity, wanted, blocks>>
vars == <<retained, asked, pc, frame_index, rest, text, buffervars, outcome, bytes>>

-----------------------------------------------------------------------------
(* The pieces of a document. *)

Piece(kind) == [kind |-> kind, id |-> 0]

\* Mutant: a separator before every element.
SeparatorAlways(index) == <<Piece(",")>>

Separator(index) == IF index = 0 THEN <<>> ELSE <<Piece(",")>>

EntryPieces(chain_index) ==
    Separator(chain_index) \o <<Piece("entry"), Piece("key"), Piece("entry end")>>

BucketPieces(bucket_index, chain_length) ==
    Separator(bucket_index) \o <<Piece("bucket")>>
        \o FlattenSeq([i \in 1..chain_length |-> EntryPieces(i - 1)])
        \o <<Piece("]}")>>

SnapshotPieces(chains) ==
    <<Piece("snapshot")>>
        \o FlattenSeq([b \in DOMAIN chains |-> BucketPieces(b - 1, chains[b])])
        \o <<Piece("]}")>>

FramePieces(frame) ==
    <<[kind |-> "frame", id |-> frame.id]>> \o SnapshotPieces(frame.chains) \o <<Piece("}")>>

\* The head of a timeline and of a result: number, statuses and value come first in this.
HeadPieces ==
    IF asked.kind = "timeline" THEN <<Piece("frames")>>
    ELSE <<Piece("head"), Piece("value"), Piece("frames")>>

FrameCount == IF asked.kind = "timeline" THEN Len(retained) ELSE asked.count

\* hti_session_frame_at and hti_session_frame_by_id, as a set.
FrameAt(index) ==
    IF asked.kind = "timeline" THEN {retained[index + 1]}
    ELSE {frame \in ToSet(retained) : frame.id = asked.first + index}

-----------------------------------------------------------------------------
(* The steps of the encoder. *)

Init ==
    /\ retained \in Timelines /\ asked \in Requests
    /\ pc = "appending" /\ frame_index = 0 /\ rest = HeadPieces /\ text = <<>>
    /\ length = 0 /\ capacity = 0 /\ wanted = InitialCapacity /\ blocks = 0
    /\ outcome = "none" /\ bytes = <<>>

Wrap(n) == n % (SizeMax + 1)

\* Mutant: an addition is not checked.
CanReserveAnything(size) == TRUE

CanReserve(size) == size <= SizeMax - length - 1

Required(size) == Wrap(length + size + 1)

\* Mutant: the capacity is doubled without a limit.
Doubled(size) == Wrap(2 * wanted)

\* One turn of the loop in hti_json_reserve.
Grown(size) == IF wanted > SizeMax \div 2 THEN Required(size) ELSE Wrap(2 * wanted)

SizeOf(piece) == IF piece.kind \in DOMAIN PieceSize THEN PieceSize[piece.kind] ELSE 0

NextSize == SizeOf(Head(rest))

\* memcpy or vsnprintf, and the NUL.
Writes ==
    /\ text' = Append(text, Head(rest))
    /\ length' = Wrap(length + NextSize)
    /\ rest' = Tail(rest)

\* Mutant: a return in the middle of a document forgets the buffer.
FreesWholeDocuments == blocks' = IF rest = <<>> THEN 0 ELSE blocks

\* free(builder.data), which may be NULL, or hti_json_free.
Frees == blocks' = IF capacity = 0 THEN blocks ELSE blocks - 1

Returns(how) == pc' = "returned" /\ outcome' = how

Fails(status) ==
    /\ Frees
    /\ Returns(status)
    /\ UNCHANGED <<retained, asked, frame_index, rest, text, length, capacity, wanted, bytes>>

\* A piece that fits is written; one that does not begins a search for a capacity.
AppendPiece ==
    /\ pc = "appending" /\ rest # <<>>
    /\ CanReserve(NextSize)
    /\ IF Required(NextSize) <= capacity
       THEN Writes /\ UNCHANGED <<pc, wanted>>
       ELSE /\ pc' = "growing"
            /\ wanted' = IF capacity = 0 THEN InitialCapacity ELSE capacity
            /\ UNCHANGED <<rest, text, length>>
    /\ UNCHANGED <<retained, asked, frame_index, capacity, blocks, outcome, bytes>>

IsTooLong == pc = "appending" /\ rest # <<>> /\ ~CanReserve(NextSize) /\ Fails("NO_MEMORY")

Grow ==
    /\ pc = "growing" /\ wanted < Required(NextSize)
    /\ wanted' = Grown(NextSize)
    /\ UNCHANGED <<retained, asked, pc, frame_index, rest, text, length, capacity, blocks,
                   outcome, bytes>>

\* realloc gives a buffer in place of the old one, if there was one; the piece is written.
Reallocate ==
    /\ pc = "growing" /\ wanted >= Required(NextSize)
    /\ capacity' = wanted
    /\ blocks' = IF capacity = 0 THEN blocks + 1 ELSE blocks
    /\ Writes
    /\ pc' = "appending"
    /\ UNCHANGED <<retained, asked, frame_index, wanted, outcome, bytes>>

\* realloc gives nothing and leaves the old buffer.
HasNoMemory == pc = "growing" /\ wanted >= Required(NextSize) /\ Fails("NO_MEMORY")

\* A frame is found and begun.
BeginFrame ==
    /\ pc = "appending" /\ rest = <<>> /\ frame_index < FrameCount
    /\ \E frame \in FrameAt(frame_index) : rest' = Separator(frame_index) \o FramePieces(frame)
    /\ frame_index' = frame_index + 1
    /\ UNCHANGED <<retained, asked, pc, text, buffervars, outcome, bytes>>

\* A frame of the result has left the timeline since.
MissesFrame ==
    /\ pc = "appending" /\ rest = <<>> /\ frame_index < FrameCount
    /\ FrameAt(frame_index) = {}
    /\ Fails("NOT_FOUND")

EndDocument ==
    /\ pc = "appending" /\ rest = <<>> /\ frame_index = FrameCount
    /\ rest' = <<Piece("]}")>>
    /\ frame_index' = frame_index + 1
    /\ UNCHANGED <<retained, asked, pc, text, buffervars, outcome, bytes>>

IsEncoded == pc = "appending" /\ rest = <<>> /\ frame_index = FrameCount + 1

\* hti_jni_copy_json: the array is made and the buffer freed.
CopyJson ==
    /\ IsEncoded /\ length <= Int32Max
    /\ bytes' = text
    /\ Frees
    /\ Returns("OK")
    /\ UNCHANGED <<retained, asked, frame_index, rest, text, length, capacity, wanted>>

\* The document is too long for an array, or Java has no memory for it or throws.
CannotCopy ==
    /\ IsEncoded
    /\ IF length > Int32Max THEN Fails("TOO_LARGE") ELSE Fails("NO_ARRAY")

Next ==
    \/ AppendPiece \/ IsTooLong \/ Grow \/ Reallocate \/ HasNoMemory
    \/ BeginFrame \/ MissesFrame \/ EndDocument
    \/ CopyJson \/ CannotCopy

Spec == Init /\ [][Next]_vars /\ WF_vars(Next)

-----------------------------------------------------------------------------
(* What NativeJson reads: the arrays, and in them their elements.  "after" is what comes *)
(* before the next piece: the beginning of an array, an element or a separator.          *)

Opens == [frames |-> "]}", frame |-> "}", snapshot |-> "]}", bucket |-> "]}", entry |-> "entry end"]

LastFrame(reader) == reader.frames[Len(reader.frames)]

Reads(reader, piece) ==
    CASE piece.kind \in DOMAIN Opens ->
            [open |-> Append(reader.open, Opens[piece.kind]),
             after |-> "begin",
             good |-> reader.good /\ reader.after # "element",
             frames |->
                CASE piece.kind = "frame" ->
                        Append(reader.frames, [id |-> piece.id, chains |-> <<>>])
                  [] piece.kind = "bucket" ->
                        [reader.frames EXCEPT ![Len(reader.frames)].chains = Append(@, 0)]
                  [] piece.kind = "entry" ->
                        [reader.frames EXCEPT
                            ![Len(reader.frames)].chains[Len(LastFrame(reader).chains)] = @ + 1]
                  [] OTHER -> reader.frames]
      [] piece.kind = "," ->
            [reader EXCEPT !.after = "separator", !.good = @ /\ reader.after = "element"]
      [] piece.kind \in {"]}", "}", "entry end"} ->
            [reader EXCEPT
                !.open = Front(@), !.after = "element",
                !.good = @ /\ reader.after # "separator" /\ Last(reader.open) = piece.kind]
      [] OTHER -> reader

Parsed(document) ==
    FoldLeft(Reads, [open |-> <<>>, after |-> "begin", good |-> TRUE, frames |-> <<>>], document)

-----------------------------------------------------------------------------
(* What the encoding promises. *)

\* What has been written lies in the buffer with its NUL, whichever way the capacity grew,
\* and the capacity is one that a size_t can hold.
WritesFit ==
    /\ capacity <= SizeMax
    /\ IF capacity = 0 THEN length = 0 ELSE length + 1 <= capacity

\* The buffer exists while the document is appended, and every return has freed it once:
\* the one that delivers the copy and each that fails.
BufferIsFreedOnce ==
    blocks = IF capacity = 0 \/ pc = "returned" THEN 0 ELSE 1

\* A document that arrives has the length that is told, no more than an array can have; it
\* can be read to its end and holds exactly the frames that were asked for, in order, with
\* every bucket and entry of theirs (hash_json.c:206-323).  One with a frame missing does
\* not arrive.
ArrivesWhole ==
    outcome = "OK" =>
        /\ length = FoldLeft(LAMBDA sum, piece : sum + SizeOf(piece), 0, bytes)
        /\ length <= Int32Max
        /\ LET reader == Parsed(bytes)
           IN /\ reader.good /\ reader.open = <<>>
              /\ Len(reader.frames) = FrameCount
              /\ \A i \in 1..FrameCount : reader.frames[i] \in FrameAt(i - 1)

\* An encoding ends, however near to the largest size the document comes.
EncodingEnds == <>(pc = "returned")

=============================================================================
