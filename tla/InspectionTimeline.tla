------------------------- MODULE InspectionTimeline -------------------------
(***************************************************************************)
(* The ring of frames of native/inspection/src/inspection_timeline.c, with *)
(* the ownership of the snapshots that its one caller hands to it          *)
(* (hti_append_owned_snapshot in hash_inspector.c).                        *)
(*                                                                         *)
(* A snapshot is known by its identity only.  heap holds those that are    *)
(* allocated and not yet released, so that a snapshot that nobody releases *)
(* stays in it, and one that is released too early is missing from it.     *)
(***************************************************************************)
EXTENDS Naturals, Sequences, FiniteSets

CONSTANTS
    MaxFrames,  \* INSPECT_TIMELINE_MAX_FRAMES
    IdMax,      \* UINT64_MAX, scaled down
    Events,     \* what the adapter says of a frame
    Snapshots,  \* the addresses an allocation may return
    Asked,      \* the positions and ids that a caller asks for
    NULL        \* the null pointer, and an empty slot

ASSUME RingAssumption ==
    /\ MaxFrames \in Nat \ {0}
    /\ IdMax \in Nat \ {0}
    /\ Asked \subseteq Nat

VARIABLES
    frames,         \* timeline->frames
    head,           \* timeline->head
    count,          \* timeline->count
    next_frame_id,  \* timeline->next_frame_id, 0 when there is no timeline
    owned,          \* the caller's snapshot, or NULL
    heap,           \* the allocated snapshots
    answer          \* what the last call returned

ring == <<frames, head, count, next_frame_id>>
vars == <<ring, owned, heap, answer>>

Slots == 0..(MaxFrames - 1)

Frame == [frame_id : Nat, event : Events, snapshot : Snapshots]

ASSUME NullAssumption == NULL \notin Frame /\ NULL \notin Snapshots

\* The slot of the index-th retained frame.
SlotOf(index) == (head + index) % MaxFrames

Answer(call, argument, status, found) ==
    answer' = [call |-> call, argument |-> argument, status |-> status, frames |-> found]

Silent == [call |-> "none", argument |-> 0, status |-> "OK", frames |-> {}]

Exists == next_frame_id > 0

Init ==
    /\ frames = [s \in Slots |-> NULL] /\ head = 0 /\ count = 0 /\ next_frame_id = 0
    /\ owned = NULL /\ heap = {}
    /\ answer = Silent

Create ==
    /\ ~ Exists
    /\ next_frame_id' = 1
    /\ UNCHANGED <<frames, head, count, owned, heap, answer>>

\* The frames that the loops of destroy and get_by_id visit.
Retained == {frames[SlotOf(i)] : i \in 0..(count - 1)}

\* Releases the snapshot of every frame it visits; the caller has none in flight.
Destroy ==
    /\ Exists /\ owned = NULL
    /\ heap' = heap \ {f.snapshot : f \in Retained}
    /\ frames' = [s \in Slots |-> NULL] /\ head' = 0 /\ count' = 0 /\ next_frame_id' = 0
    /\ answer' = Silent
    /\ UNCHANGED owned

\* The caller allocates a snapshot, to append it next.
Capture ==
    /\ Exists /\ owned = NULL
    /\ \E s \in Snapshots \ heap : owned' = s /\ heap' = heap \cup {s}
    /\ UNCHANGED <<ring, answer>>

\* The caller releases the snapshot that the timeline has not taken.
AppendOverflows ==
    /\ owned # NULL
    /\ next_frame_id = IdMax
    /\ heap' = heap \ {owned} /\ owned' = NULL
    /\ Answer("append", next_frame_id, "OVERFLOW", {})
    /\ UNCHANGED ring

Full == count = MaxFrames

\* Mutants: the evicted snapshot is forgotten, the head stays.
ForgetsSnapshot == {}
HeadStays == head

\* In a full ring the oldest frame goes first: what is released, and the head and
\* the count that are left.
ReleasedSnapshots == IF Full THEN {frames[head].snapshot} ELSE {}
HeadLeft == IF Full THEN (head + 1) % MaxFrames ELSE head
CountLeft == IF Full THEN count - 1 ELSE count

NewFrame(e) == [frame_id |-> next_frame_id, event |-> e, snapshot |-> owned]

\* The new frame goes to the slot after the newest frame that is left.
AppendFrame(e) ==
    /\ owned # NULL
    /\ next_frame_id # IdMax
    /\ heap' = heap \ ReleasedSnapshots
    /\ head' = HeadLeft
    /\ count' = CountLeft + 1
    /\ frames' = [frames EXCEPT ![(HeadLeft + CountLeft) % MaxFrames] = NewFrame(e)]
    /\ next_frame_id' = next_frame_id + 1
    /\ owned' = NULL
    /\ Answer("append", next_frame_id, "OK", {})

\* A read looks at the frames and changes nothing.
Finds(call, argument, found) ==
    /\ Exists
    /\ Answer(call, argument, IF found = {} THEN "NOT_FOUND" ELSE "OK", found)
    /\ UNCHANGED <<ring, owned, heap>>

\* Mutant: the index is taken for a slot.
GetAtIgnoringHead(index) == Finds("get_at", index, IF index < count THEN {frames[index]} ELSE {})

GetAt(index) == Finds("get_at", index, IF index < count THEN {frames[SlotOf(index)]} ELSE {})

GetById(id) == Finds("get_by_id", id, {f \in Retained : f.frame_id = id})

Next ==
    \/ Create \/ Destroy \/ Capture \/ AppendOverflows
    \/ \E e \in Events : AppendFrame(e)
    \/ \E n \in Asked : GetAt(n) \/ GetById(n)

Spec == Init /\ [][Next]_vars

-----------------------------------------------------------------------------
(* What the timeline promises. *)

\* The variables have their types.
TypeOK ==
    /\ frames \in [Slots -> Frame \cup {NULL}]
    /\ head \in Slots
    /\ count \in 0..MaxFrames
    /\ next_frame_id \in 0..IdMax
    /\ owned \in Snapshots \cup {NULL}
    /\ heap \subseteq Snapshots

\* Wherever the head is, the frames from it on are numbered without a gap up to
\* the last id given, and every other slot is empty (the slot arithmetic of
\* inspect_timeline_append at the wrap-around and in a full ring).
FramesInOrder ==
    /\ \A i \in 0..(count - 1) :
          /\ frames[SlotOf(i)] # NULL
          /\ frames[SlotOf(i)].frame_id + count = next_frame_id + i
    /\ \A i \in count..(MaxFrames - 1) : frames[SlotOf(i)] = NULL
    /\ (count < MaxFrames => next_frame_id <= count + 1)

\* A snapshot is allocated exactly while a retained frame or the caller owns it,
\* and it has one owner: no eviction, refusal or destruction leaks it or releases
\* it twice, and no frame that can be read has lost its snapshot.
SnapshotsHaveOneOwner ==
    LET frozen == {s \in Slots : frames[s] # NULL}
    IN /\ heap = {frames[s].snapshot : s \in frozen} \cup ({owned} \ {NULL})
       /\ \A s, t \in frozen : frames[s].snapshot = frames[t].snapshot => s = t
       /\ \A s \in frozen : frames[s].snapshot # owned

Carried(f) ==
    [frame_id |-> f.frame_id, payload |-> [event |-> f.event, snapshot |-> f.snapshot]]

Log == INSTANCE BoundedLog WITH
    Limit <- MaxFrames,
    Payloads <- [event : Events, snapshot : Snapshots],
    open <- Exists,
    next_id <- IF Exists THEN next_frame_id ELSE 1,
    log <- [i \in 1..count |-> Carried(frames[SlotOf(i - 1)])],
    answer <- [answer EXCEPT !.frames = {Carried(f) : f \in @}]

\* The ring is a log of the newest frames: an append drops the oldest frame when
\* there is no room, the frames that stay keep their ids and what they carry, and a
\* read by position or by id finds what the log holds.
ImplementsLog == Log!Spec

=============================================================================
