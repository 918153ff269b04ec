-------------------------- MODULE InspectorViewModel --------------------------
(***************************************************************************)
(* The view model of InspectorViewModel.kt: it drives one native session at*)
(* a time and shows copies of its frames.  It learns of the session only   *)
(* from the documents that its calls return, and each may fail to arrive:  *)
(* the session has no memory for a snapshot, the encoder none for the      *)
(* document, the Java heap none for the copy.                              *)
(*                                                                         *)
(* Everything runs on the one UI thread; `at' is where that thread is.  The*)
(* session is SessionContract's.  `lost' is no state of the code: it holds *)
(* the frames of the session of which no document told.                    *)
(***************************************************************************)
EXTENDS SessionContract, SequencesExt

CONSTANTS
    Faults,         \* what may fail: "capture", "encode", "create", "java heap"
    Demo,           \* the calls of runDeterministicDemo
    SessionsMax,    \* a bound on the sessions of a process
    NULL

ASSUME ViewModelAssumption ==
    /\ Faults \subseteq {"capture", "encode", "create", "java heap"}
    /\ MaxFrames \in Nat /\ MaxFrames >= MaxRecorded /\ FrameIdMax \in Nat
    /\ NULL \notin Nat

VARIABLES
    at,              \* where the UI thread is
    demo,            \* the calls of the demo that have begun, or NULL outside of it
    sessions,        \* how many sessions have been created
    heap,            \* the native sessions that exist
    session,         \* viewModel.session: the one that it holds, or NULL
    frames,          \* viewModel.frames
    selectedFrameId, \* viewModel.selectedFrameId, or NULL
    quarantined,     \* viewModel.quarantined
    outcome,         \* what viewModel.outcome reports
    lost             \* the ids of the frames that no document brought

native == <<sessions, heap>>
shown == <<frames, selectedFrameId, quarantined>>
vars == <<contractvars, at, demo, native, session, shown, outcome, lost>>

-----------------------------------------------------------------------------

\* A frame as NativeJson.parseFrame copies it, and the session it is of.
Copies(log) == [i \in DOMAIN log |-> [frame |-> log[i], of |-> session]]

\* The frames that the last call has recorded.
Recorded == SubSeq(timeline, Len(timeline) - recorded + 1, Len(timeline))

IdsOf(log) == {log[i].frame_id : i \in DOMAIN log}

\* frames.lastOrNull()?.frameId
LiveId(fs) == IF fs = <<>> THEN NULL ELSE Last(fs).frame.frame_id

\* Mutant: take(64) for takeLast(64).
CappedOldest(fs, new) ==
    IF Len(fs \o new) <= MaxFrames THEN fs \o new ELSE SubSeq(fs \o new, 1, MaxFrames)

\* (frames + result.frames).takeLast(64)
Capped(fs, new) == Log!Newest(fs \o new)

\* What the events of a result make of the flag, in their order.
FlagAfter(flag, new) ==
    FoldLeft(LAMBDA f, frame : CASE frame.payload = "corrupted" -> TRUE
                                 [] frame.payload = "restored"  -> FALSE
                                 [] OTHER -> f, flag, new)

\* Where the thread goes when a call of the view model is over.
Rests == IF demo = NULL THEN "idle" ELSE "demo"

\* A call is over; only its outcome tells of it.
Reports(text) ==
    /\ at' = Rests /\ outcome' = text
    /\ UNCHANGED <<demo, native, session, shown>>

NoSession == UNCHANGED <<contractvars, native, lost>>

Init ==
    /\ ContractInit
    /\ at = "absent" /\ demo = NULL
    /\ sessions = 0 /\ heap = {} /\ session = NULL
    /\ frames = <<>> /\ selectedFrameId = NULL /\ quarantined = FALSE
    /\ outcome = "none" /\ lost = {}

\* The process ends, by an exception that nothing catches, with all it holds.
Crashes ==
    /\ Gone
    /\ at' = "absent" /\ demo' = NULL
    /\ sessions' = 0 /\ heap' = {} /\ session' = NULL
    /\ frames' = <<>> /\ selectedFrameId' = NULL /\ quarantined' = FALSE
    /\ outcome' = "none" /\ lost' = {}

-----------------------------------------------------------------------------
(* Sessions come and go: the constructor, reset and onCleared. *)

\* NativeHashSession.create and the assignment of what it returns.
Opens(next) ==
    /\ Create
    /\ sessions' = sessions + 1
    /\ session' = sessions' /\ heap' = heap \cup {sessions'}
    /\ at' = next
    /\ lost' = {}
    /\ UNCHANGED <<demo, shown, outcome>>

\* Mutant: the view model lets go of the session without closing it.
DropsSession == session' = NULL /\ heap' = heap

\* closeSession
ClosesSession == session' = NULL /\ heap' = heap \ {session}

\* The native side of it, when there is a session to close.
DestroysSession == IF session = NULL THEN UNCHANGED contractvars ELSE Destroy

\* The view model is constructed; when it has no session the constructor throws and the
\* process dies, as before it.
Construct == at = "absent" /\ sessions < SessionsMax /\ Opens("constructing")

\* The user's reset, and the demo's.
Reset(steps) ==
    /\ at = "idle" /\ sessions < SessionsMax
    /\ DestroysSession /\ ClosesSession
    /\ lost' = {}
    /\ at' = "recreating" /\ demo' = steps
    /\ UNCHANGED <<sessions, shown, outcome>>

Recreate == at = "recreating" /\ Opens("reseeding")

RecreateFails == at = "recreating" /\ "create" \in Faults /\ Reports("failed") /\ NoSession

\* Mutant: a reset does not clear the flag.
SeedsKeepingFlag ==
    /\ frames' = Copies(timeline) /\ selectedFrameId' = LiveId(frames')
    /\ UNCHANGED quarantined

\* timeline() has been copied: all is as in the new session.
Seeds ==
    /\ frames' = Copies(timeline) /\ selectedFrameId' = LiveId(frames')
    /\ quarantined' = FALSE

Seed ==
    /\ at \in {"constructing", "reseeding"}
    /\ Seeds
    /\ at' = Rests /\ outcome' = "ready"
    /\ UNCHANGED <<contractvars, demo, native, session, lost>>

\* timeline() throws: the new session is kept, and so is what is shown.
SeedFails ==
    /\ at = "reseeding" /\ "encode" \in Faults
    /\ Reports("failed")
    /\ lost' = lost \cup IdsOf(timeline)
    /\ UNCHANGED <<contractvars, native>>

\* In the constructor nothing catches it.
ConstructFails == at = "constructing" /\ "encode" \in Faults /\ Crashes

\* onCleared: the view model is no more, its process may have another.
Clear ==
    /\ at = "idle"
    /\ DestroysSession /\ ClosesSession
    /\ at' = "absent" /\ sessions' = 0 /\ lost' = {}
    /\ frames' = <<>> /\ selectedFrameId' = NULL /\ quarantined' = FALSE /\ outcome' = "none"
    /\ UNCHANGED demo

-----------------------------------------------------------------------------
(* Calls: put, lookup, delete (one as another here), validate, corruptSize, restore. *)

\* requireSession throws.
CallsNothing == session = NULL /\ Reports("failed") /\ NoSession

\* The session takes the call, and without a fault records it.
Takes(op) ==
    \/ /\ \/ op = "table" /\ Begin
          \/ op = "validate" /\ Judge
          \/ op = "corrupt" /\ Corrupt
          \/ op = "corrupt" /\ ~ in_quarantine /\ "capture" \in Faults /\ Judge
          \/ op = "restore" /\ Restore
       /\ stage' = "idle" /\ "capture" \notin Faults => recorded' > 0
    \/ /\ \/ op \in {"table", "corrupt"} /\ in_quarantine
          \/ op = "restore" /\ ~ in_quarantine
       /\ Reject

CallsSession(op) ==
    /\ session # NULL
    /\ next_frame_id + (IF op = "table" THEN MaxRecorded ELSE 1) <= FrameIdMax
    /\ Takes(op)
    /\ at' = "calling"
    /\ UNCHANGED <<native, session, shown, outcome, lost>>

\* MainActivity enables Corrupt and Restore by the flag that is shown.
Enabled(op) ==
    CASE op = "corrupt" -> ~ quarantined
      [] op = "restore" -> quarantined
      [] OTHER          -> TRUE

Ops == {"table", "validate", "corrupt", "restore"}

Call(op) ==
    /\ at = "idle" /\ Enabled(op)
    /\ \/ CallsNothing
       \/ CallsSession(op) /\ UNCHANGED demo

\* The native call runs on.
Proceed ==
    /\ at = "calling"
    /\ GoOn \/ (End /\ ("capture" \notin Faults => recorded' > 0))
    /\ UNCHANGED <<at, demo, native, session, shown, outcome, lost>>

\* Mutant: the new frames are shown, and the selection stays with an old one.
KeepsHistorical(new) ==
    IF selectedFrameId = LiveId(frames) THEN LiveId(Capped(frames, new)) ELSE selectedFrameId

\* Where new frames take the selection: to the newest of them.
Selects(new) == LiveId(Capped(frames, new))

\* consume: the result has been copied.
Consume ==
    /\ at = "calling" /\ stage = "idle"
    /\ LET new == Copies(Recorded)
       IN IF new = <<>> THEN UNCHANGED <<frames, selectedFrameId>>
          ELSE frames' = Capped(frames, new) /\ selectedFrameId' = Selects(new)
    /\ quarantined' = FlagAfter(quarantined, Recorded)
    /\ at' = Rests /\ outcome' = "done"
    /\ UNCHANGED <<contractvars, demo, native, session, lost>>

\* consume: the call was made, its result could not be encoded or copied.
ConsumeFails ==
    /\ at = "calling" /\ stage = "idle" /\ "encode" \in Faults
    /\ Reports("failed")
    /\ lost' = lost \cup IdsOf(Recorded)
    /\ UNCHANGED <<contractvars, native>>

\* NewByteArray throws OutOfMemoryError, which is no RuntimeException.
OutOfJavaHeap ==
    /\ at \in {"constructing", "reseeding", "calling"} /\ stage = "idle"
    /\ "java heap" \in Faults
    /\ Crashes

-----------------------------------------------------------------------------
(* runDeterministicDemo and the selection. *)

\* Its calls, whatever became of those before them and of the reset.
DemoCall ==
    /\ at = "demo" /\ demo < Len(Demo)
    /\ demo' = demo + 1
    /\ \/ /\ session = NULL /\ outcome' = "failed"
          /\ UNCHANGED <<at, session, shown>> /\ NoSession
       \/ CallsSession(Demo[demo + 1])

DemoEnds ==
    /\ at = "demo" /\ demo = Len(Demo)
    /\ demo' = NULL /\ at' = "idle"
    /\ outcome' = "demo complete, corruption active"
    /\ UNCHANGED <<session, shown>> /\ NoSession

SelectFrame(i) ==
    /\ at = "idle"
    /\ selectedFrameId' = frames[i].frame.frame_id
    /\ UNCHANGED <<at, demo, session, frames, quarantined, outcome>> /\ NoSession

SelectLive ==
    /\ at = "idle"
    /\ selectedFrameId' = LiveId(frames)
    /\ UNCHANGED <<at, demo, session, frames, quarantined, outcome>> /\ NoSession

-----------------------------------------------------------------------------

\* What the thread does next once it does something.
GoesOn ==
    \/ Recreate \/ RecreateFails \/ Seed \/ SeedFails \/ ConstructFails
    \/ Proceed \/ Consume \/ ConsumeFails \/ OutOfJavaHeap
    \/ DemoCall \/ DemoEnds

User ==
    \/ Construct \/ Clear
    \/ Reset(NULL) \/ Reset(0)
    \/ \E op \in Ops : Call(op)
    \/ \E i \in DOMAIN frames : SelectFrame(i)
    \/ SelectLive

Next == User \/ GoesOn

Spec == Init /\ [][Next]_vars

-----------------------------------------------------------------------------
(* What the view model shows. *)

Resting == at \in {"idle", "demo"}

\* The process holds the session of its view model and no other: whatever of a reset,
\* a construction or a clearing fails, each session is closed once and none is left
\* behind (docs/device-validation.md:128, "closes the old session before creating its
\* replacement").
OwnsEverySession ==
    /\ heap = IF session = NULL THEN {} ELSE {session}
    /\ session = NULL <=> stage = "none"

\* What is selected is among the frames that are shown, after evictions, lost results
\* and resets that failed half way, and nothing is selected only when none is shown.
SelectionIsHeld ==
    Resting => IF frames = <<>> THEN selectedFrameId = NULL
               ELSE \E i \in DOMAIN frames : frames[i].frame.frame_id = selectedFrameId

\* Between calls the frames that the session retains are shown, unaltered, but for those
\* whose document was lost, and those are not: neither cap drops what the other keeps.
\* They are shown in the order in which they were recorded, session by session and within
\* a session by their ids, and as long as no document was lost they are "the same 64
\* copied frames" that the session retains (docs/architecture-plan.md:314).
ShowsWhatItReceived ==
    /\ \A i, j \in DOMAIN frames :
          i < j => \/ frames[i].of < frames[j].of
                   \/ /\ frames[i].of = frames[j].of
                      /\ frames[i].frame.frame_id < frames[j].frame.frame_id
    /\ Resting /\ session # NULL =>
          /\ \A i \in DOMAIN timeline :
                [frame |-> timeline[i], of |-> session] \in ToSet(frames)
                    <=> timeline[i].frame_id \notin lost
          /\ lost = {} => frames = Copies(timeline)

\* The flag is what the frames that are shown tell: the newest corruption or restoration
\* among them decides it, and without one it is clear where the history begins with the
\* creation of its session.  A lost result or a failed reset cannot set them apart.
FlagTellsTheFrames ==
    LET changes == {i \in DOMAIN frames : frames[i].frame.payload \in {"corrupted", "restored"}}
    IN Resting =>
        IF changes # {} THEN quarantined <=> frames[Max(changes)].frame.payload = "corrupted"
        ELSE frames # <<>> /\ frames[1].frame.payload = "created" => ~ quarantined

\* The frame ids, which MainActivity.kt:211 takes as the keys of the rows (two equal keys
\* make a LazyColumn throw), are unique among the frames that are shown.
RowKeysAreUnique ==
    Resting => \A i, j \in DOMAIN frames :
                  frames[i].frame.frame_id = frames[j].frame.frame_id => i = j

=============================================================================
