---------------------- MODULE InspectorViewModel_proofs ----------------------
(***************************************************************************)
(* For every size of the log, every choice of faults and every demo: the   *)
(* view model owns the one native session of its process, what it has      *)
(* selected is among the frames that it shows, these are what documents    *)
(* brought, and the flag of the quarantine is what they tell.              *)
(*                                                                         *)
(* ShownInv follows the frames of a call that no document has told of yet  *)
(* (Pending): the others are shown unless their document was lost, and     *)
(* when none was lost the next document makes what is shown the log.       *)
(* FlagInv keeps the flag that of the newest change, through the frames    *)
(* that the cap drops: it drops from the older end.  Last, that frames of  *)
(* two sessions are shown together only after a document was lost.         *)
(***************************************************************************)
EXTENDS InspectorViewModel, TLAPS

Kinds == {"created", "corrupted", "restored", "other"}

Frame == [frame_id : Nat, payload : Kinds]

Copy == [frame : Frame, of : Nat \cup {NULL}]

\* The session's side: the frames of the last call are among the retained ones.
ContractTypes ==
    /\ stage \in {"none", "idle", "busy"}
    /\ timeline \in Seq(Frame) /\ next_frame_id \in Nat
    /\ recorded \in 0..MaxRecorded /\ recorded <= Len(timeline)

\* The view model's side.
Types ==
    /\ sessions \in Nat /\ session \in Nat \cup {NULL}
    /\ frames \in Seq(Copy)

\* The selection is held between the steps of a call too.
Held ==
    IF frames = <<>> THEN selectedFrameId = NULL
    ELSE \E i \in DOMAIN frames : frames[i].frame.frame_id = selectedFrameId

IInv == ContractTypes /\ Types /\ OwnsEverySession /\ Held

-----------------------------------------------------------------------------
(* Sequences. *)

\* The newest frames of a sequence are a sequence, of that length or of the log's.
LEMMA NewestFacts ==
    ASSUME NEW S, NEW s \in Seq(S)
    PROVE  /\ Log!Newest(s) \in Seq(S)
           /\ Len(Log!Newest(s)) = IF Len(s) <= MaxFrames THEN Len(s) ELSE MaxFrames
<1>1. MaxFrames \in Nat
  BY ViewModelAssumption
<1>2. CASE Len(s) <= MaxFrames
  BY <1>1, <1>2 DEF Log!Newest
<1>3. CASE ~ (Len(s) <= MaxFrames)
  BY <1>1, <1>3 DEF Log!Newest
<1> QED
  BY <1>2, <1>3

\* Copies of a sequence of frames are a sequence as long.
LEMMA CopiesFacts ==
    ASSUME NEW log \in Seq(Frame), session \in Nat \cup {NULL}
    PROVE  Copies(log) \in Seq(Copy) /\ Len(Copies(log)) = Len(log)
<1>1. \A i \in 1..Len(log) : [frame |-> log[i], of |-> session] \in Copy
  BY DEF Copy
<1>2. Copies(log) = [i \in 1..Len(log) |-> [frame |-> log[i], of |-> session]]
  BY DEF Copies
<1> QED
  BY <1>1, <1>2

\* The newest of the frames is one of them.
LEMMA LiveIsShown ==
    ASSUME NEW fs \in Seq(Copy)
    PROVE  /\ fs = <<>> => LiveId(fs) = NULL
           /\ fs # <<>> => \E i \in DOMAIN fs : fs[i].frame.frame_id = LiveId(fs)
<1>1. fs # <<>> => Len(fs) \in DOMAIN fs
  OBVIOUS
<1> QED
  BY <1>1 DEF LiveId, Last

-----------------------------------------------------------------------------
(* The session keeps its types. *)

\* One frame more makes the log longer, or it is full.
LEMMA RecordsSteps ==
    ASSUME ContractTypes, NEW kind \in Kinds, Records(kind)
    PROVE  /\ timeline' \in Seq(Frame) /\ next_frame_id' \in Nat
           /\ Len(timeline') = Len(timeline) + 1 \/ Len(timeline') = MaxFrames
<1> DEFINE longer == Append(timeline, [frame_id |-> next_frame_id, payload |-> kind])
<1>1. [frame_id |-> next_frame_id, payload |-> kind] \in Frame
  BY DEF ContractTypes, Frame
<1>2. longer \in Seq(Frame) /\ Len(longer) = Len(timeline) + 1
  BY <1>1 DEF ContractTypes
<1>3. timeline' = Log!Newest(longer) /\ next_frame_id' = next_frame_id + 1
  BY DEF Records, Log!Appended
<1> HIDE DEF longer
<1>4. /\ Log!Newest(longer) \in Seq(Frame)
      /\ Len(Log!Newest(longer)) = IF Len(longer) <= MaxFrames THEN Len(longer) ELSE MaxFrames
  BY <1>2, NewestFacts
<1> QED
  BY <1>2, <1>3, <1>4 DEF ContractTypes

\* So a call that has recorded some frames still has them in the log after one more.
LEMMA RecordsKeep ==
    ASSUME ContractTypes, NEW kind \in Kinds, Records(kind),
           recorded' \in 0..MaxRecorded,
           recorded' = recorded \/ recorded' = recorded + 1 \/ recorded' = 1,
           stage' \in {"none", "idle", "busy"}
    PROVE  ContractTypes'
<1>1. /\ timeline' \in Seq(Frame) /\ next_frame_id' \in Nat
      /\ Len(timeline') = Len(timeline) + 1 \/ Len(timeline') = MaxFrames
  BY RecordsSteps
<1>2. recorded \in 0..3 /\ recorded <= Len(timeline) /\ Len(timeline) \in Nat
  BY DEF ContractTypes, MaxRecorded
<1>3. MaxFrames \in Nat /\ MaxFrames >= 3
  BY ViewModelAssumption DEF MaxRecorded
<1>4. recorded' \in 0..3 /\ recorded' <= Len(timeline')
  BY <1>1, <1>2, <1>3 DEF MaxRecorded
<1> QED
  BY <1>1, <1>4 DEF ContractTypes

LEMMA RecordsFirstKeeps ==
    ASSUME ContractTypes, NEW kind \in Kinds, RecordsFirst(kind),
           stage' \in {"none", "idle", "busy"}
    PROVE  ContractTypes'
<1>1. CASE Records(kind) /\ recorded' = 1
  <2>1. recorded' \in 0..MaxRecorded
    BY <1>1 DEF MaxRecorded
  <2> QED
    BY <1>1, <2>1, RecordsKeep
<1>2. CASE recorded' = 0 /\ UNCHANGED <<timeline, next_frame_id>>
  BY <1>2 DEF ContractTypes, MaxRecorded
<1> QED
  BY <1>1, <1>2 DEF RecordsFirst

\* Every step of the contract, and the end of a session.
LEMMA ContractKeepsTypes ==
    ASSUME ContractTypes, ContractNext \/ Gone \/ UNCHANGED contractvars
    PROVE  ContractTypes'
<1>0. "created" \in Kinds /\ "other" \in Kinds /\ "corrupted" \in Kinds /\ "restored" \in Kinds
  BY DEF Kinds
<1>1. CASE Create
  <2>1. Records("created") /\ recorded' = recorded /\ stage' = "idle"
    BY <1>1 DEF Create
  <2>2. recorded' \in 0..MaxRecorded
    BY <2>1 DEF ContractTypes
  <2> QED
    BY <1>0, <2>1, <2>2, RecordsKeep
<1>2. CASE Destroy \/ Gone
  <2>1. stage' = "none" /\ timeline' = <<>> /\ next_frame_id' = 1 /\ recorded' = 0
    BY <1>2 DEF Destroy, Gone
  <2>2. timeline' \in Seq(Frame) /\ Len(timeline') = 0
    BY <2>1
  <2> QED
    BY <2>1, <2>2 DEF ContractTypes, MaxRecorded
<1>3. CASE Begin
  <2>1. RecordsFirst("other") /\ stage' = "busy"
    BY <1>3 DEF Begin
  <2> QED
    BY <1>0, <2>1, RecordsFirstKeeps
<1>4. CASE GoOn
  <2>1. Records("other") /\ recorded' = recorded + 1 /\ stage' = "busy"
    BY <1>4 DEF GoOn
  <2>2. recorded' \in 0..MaxRecorded
    BY <1>4, <2>1 DEF GoOn, ContractTypes, MaxRecorded
  <2> QED
    BY <1>0, <2>1, <2>2, RecordsKeep
<1>5. CASE End
  <2>1. stage' = "idle"
    BY <1>5 DEF End
  <2>2. CASE UNCHANGED <<timeline, next_frame_id, recorded>>
    BY <2>1, <2>2 DEF ContractTypes
  <2>3. CASE RecordsFirst("other")
    BY <1>0, <2>1, <2>3, RecordsFirstKeeps
  <2> QED
    BY <1>5, <2>2, <2>3 DEF End
<1>6. CASE Judge
  <2>1. RecordsFirst("other") /\ stage' = "idle"
    BY <1>6 DEF Judge
  <2> QED
    BY <1>0, <2>1, RecordsFirstKeeps
<1>7. CASE Reject
  BY <1>7 DEF Reject, ContractTypes, MaxRecorded
<1>8. CASE Corrupt
  <2>1. RecordsFirst("corrupted") /\ stage' = "idle"
    BY <1>8 DEF Corrupt
  <2> QED
    BY <1>0, <2>1, RecordsFirstKeeps
<1>9. CASE Restore
  <2>1. RecordsFirst("restored") /\ stage' = "idle"
    BY <1>9 DEF Restore
  <2> QED
    BY <1>0, <2>1, RecordsFirstKeeps
<1>10. CASE UNCHANGED contractvars
  BY <1>10 DEF contractvars, ContractTypes
<1> QED
  BY <1>1, <1>2, <1>3, <1>4, <1>5, <1>6, <1>7, <1>8, <1>9, <1>10 DEF ContractNext

-----------------------------------------------------------------------------
(* What is shown. *)

\* Nothing is shown differently.
LEMMA ShownStays ==
    ASSUME Types, Held, UNCHANGED <<frames, selectedFrameId>>
    PROVE  frames' \in Seq(Copy) /\ Held'
BY DEF Types, Held

LEMMA SeedShows ==
    ASSUME ContractTypes, Types, frames' = Copies(timeline), selectedFrameId' = LiveId(frames')
    PROVE  frames' \in Seq(Copy) /\ Held'
<1>1. Copies(timeline) \in Seq(Copy)
  BY CopiesFacts DEF ContractTypes, Types
<1>2. /\ frames' = <<>> => LiveId(frames') = NULL
      /\ frames' # <<>> => \E i \in DOMAIN frames' : frames'[i].frame.frame_id = LiveId(frames')
  BY <1>1, LiveIsShown
<1> QED
  BY <1>1, <1>2 DEF Held

\* The frames of a result are copies of retained ones.
LEMMA ConsumeShows ==
    ASSUME ContractTypes, Types,
           frames' = Capped(frames, Copies(Recorded)), Copies(Recorded) # <<>>,
           selectedFrameId' = Selects(Copies(Recorded))
    PROVE  frames' \in Seq(Copy) /\ Held'
<1>1. Recorded \in Seq(Frame)
  <2>1. timeline \in Seq(Frame) /\ recorded \in 0..3 /\ recorded <= Len(timeline)
    BY DEF ContractTypes, MaxRecorded
  <2>2. Len(timeline) - recorded + 1 \in 1..(Len(timeline) + 1)
    BY <2>1
  <2>3. SubSeq(timeline, Len(timeline) - recorded + 1, Len(timeline)) \in Seq(Frame)
    BY <2>1, <2>2
  <2> QED
    BY <2>3 DEF Recorded
<1>2. Copies(Recorded) \in Seq(Copy)
  BY <1>1, CopiesFacts DEF Types
<1> DEFINE new == Copies(Recorded)
<1>3. frames \o new \in Seq(Copy) /\ Len(frames \o new) = Len(frames) + Len(new) /\ Len(new) > 0
  BY <1>2 DEF Types
<1>a. frames' = Log!Newest(frames \o new)
  BY DEF Capped
<1>b. Len(frames) \in Nat /\ Len(new) \in Nat
  BY <1>2 DEF Types
<1> HIDE DEF new
<1>4. /\ Log!Newest(frames \o new) \in Seq(Copy)
      /\ Len(Log!Newest(frames \o new)) =
            IF Len(frames \o new) <= MaxFrames THEN Len(frames \o new) ELSE MaxFrames
  BY <1>3, NewestFacts
<1>5. frames' \in Seq(Copy) /\ frames' # <<>>
  <2>1. Len(frames') > 0
    <3> DEFINE n == Len(frames \o new)
               m == Len(Log!Newest(frames \o new))
    <3>1. n \in Nat /\ n > 0
      BY <1>b, <1>3
    <3>2. m = IF n <= MaxFrames THEN n ELSE MaxFrames
      BY <1>4
    <3>3. MaxFrames \in Nat /\ MaxFrames >= 3
      BY ViewModelAssumption DEF MaxRecorded
    <3>4. Len(frames') = m
      BY <1>a
    <3> HIDE DEF n, m
    <3>5. m > 0
      BY <3>1, <3>2, <3>3
    <3> QED
      BY <3>4, <3>5
  <2>2. frames' \in Seq(Copy)
    BY <1>a, <1>4
  <2>3. frames' # <<>>
    <3>1. Len(<<>>) = 0
      OBVIOUS
    <3> QED
      BY <2>1, <3>1
  <2> QED
    BY <2>2, <2>3
<1>6. \E i \in DOMAIN frames' : frames'[i].frame.frame_id = LiveId(frames')
  BY <1>5, LiveIsShown
<1> QED
  BY <1>5, <1>6 DEF Held, Selects, new

-----------------------------------------------------------------------------
(* Every step keeps the invariant. *)

\* A step that changes neither the session nor what is shown.
LEMMA QuietKeeps ==
    ASSUME IInv, UNCHANGED <<contractvars, native, session, frames, selectedFrameId>>
    PROVE  IInv'
<1>1. ContractTypes /\ Types /\ Held /\ UNCHANGED contractvars
      /\ UNCHANGED <<frames, selectedFrameId, sessions, heap, session>>
  BY DEF IInv, native
<1>2. ContractTypes'
  BY <1>1, ContractKeepsTypes
<1>3. frames' \in Seq(Copy) /\ Held'
  BY <1>1, ShownStays
<1>4. OwnsEverySession'
  BY <1>1 DEF IInv, OwnsEverySession, contractvars
<1>5. Types'
  BY <1>1, <1>3 DEF Types
<1> QED
  BY <1>2, <1>3, <1>4, <1>5 DEF IInv

\* A step of the session in a call: it exists before and after.
LEMMA RunningKeeps ==
    ASSUME IInv, ContractNext, stage # "none", stage' # "none",
           UNCHANGED <<native, session, frames, selectedFrameId>>
    PROVE  IInv'
<1>1. ContractTypes /\ Types /\ Held /\ ContractNext
      /\ UNCHANGED <<frames, selectedFrameId, sessions, heap, session>>
  BY DEF IInv, native
<1>2. ContractTypes'
  BY <1>1, ContractKeepsTypes
<1>3. frames' \in Seq(Copy) /\ Held'
  BY <1>1, ShownStays
<1>4. OwnsEverySession'
  BY <1>1 DEF IInv, OwnsEverySession
<1>5. Types'
  BY <1>1, <1>3 DEF Types
<1> QED
  BY <1>2, <1>3, <1>4, <1>5 DEF IInv

LEMMA CallKeeps ==
    ASSUME IInv, NEW op, CallsSession(op)
    PROVE  IInv'
<1>1. stage # "none"
  BY DEF IInv, OwnsEverySession, CallsSession
<1>2. Begin \/ Judge \/ Corrupt \/ Restore \/ Reject
  BY DEF CallsSession, Takes
<1>3. ContractNext
  BY <1>2 DEF ContractNext
<1>4. stage' # "none"
  BY <1>1, <1>2 DEF Begin, Judge, Corrupt, Restore, Reject
<1>5. UNCHANGED <<native, session, frames, selectedFrameId>>
  BY DEF CallsSession, shown
<1> QED
  BY <1>1, <1>3, <1>4, <1>5, RunningKeeps

LEMMA ProceedKeeps ==
    ASSUME IInv, Proceed
    PROVE  IInv'
<1>1. ContractNext
  BY DEF Proceed, ContractNext
<1>2. stage # "none" /\ stage' # "none"
  BY DEF Proceed, GoOn, End
<1>3. UNCHANGED <<native, session, frames, selectedFrameId>>
  BY DEF Proceed, shown
<1> QED
  BY <1>1, <1>2, <1>3, RunningKeeps

\* A new session is the only one, because the old one was closed.
LEMMA OpensKeeps ==
    ASSUME IInv, NEW next, Opens(next)
    PROVE  IInv'
<1>1. ContractTypes /\ Types /\ Held /\ ContractNext
      /\ UNCHANGED <<frames, selectedFrameId>>
  BY DEF IInv, Opens, ContractNext, shown
<1>2. ContractTypes'
  BY <1>1, ContractKeepsTypes
<1>3. frames' \in Seq(Copy) /\ Held'
  BY <1>1, ShownStays
<1>4. sessions' \in Nat /\ session' = sessions' /\ session' # NULL
  <2>1. sessions \in Nat
    BY <1>1 DEF Types
  <2>2. sessions' = sessions + 1 /\ session' = sessions'
    BY DEF Opens
  <2>3. NULL \notin Nat
    BY ViewModelAssumption
  <2>4. sessions' \in Nat
    BY <2>1, <2>2
  <2> QED
    BY <2>2, <2>3, <2>4
<1>5. stage = "none" /\ stage' = "idle" /\ heap' = heap \cup {session'}
  BY <1>4 DEF Opens, Create
<1>6. heap = {}
  BY <1>5 DEF IInv, OwnsEverySession
<1>7. OwnsEverySession'
  BY <1>4, <1>5, <1>6 DEF OwnsEverySession
<1>8. Types'
  BY <1>3, <1>4 DEF Types
<1> QED
  BY <1>2, <1>3, <1>7, <1>8 DEF IInv

\* Without the session there is none.
LEMMA ClosesOwned ==
    ASSUME IInv, DestroysSession, ClosesSession
    PROVE  ContractTypes' /\ OwnsEverySession' /\ session' = NULL
<1>1. ContractTypes
  BY DEF IInv
<1>2. ContractNext \/ UNCHANGED contractvars
  BY DEF DestroysSession, ContractNext
<1>3. ContractTypes'
  BY <1>1, <1>2, ContractKeepsTypes
<1>4. session' = NULL /\ heap' = {}
  BY DEF ClosesSession, IInv, OwnsEverySession
<1>5. stage' = "none"
  BY DEF DestroysSession, Destroy, Gone, IInv, OwnsEverySession, contractvars
<1> QED
  BY <1>3, <1>4, <1>5 DEF OwnsEverySession

LEMMA ResetKeeps ==
    ASSUME IInv, NEW steps, Reset(steps)
    PROVE  IInv'
<1>1. DestroysSession /\ ClosesSession /\ UNCHANGED <<sessions, frames, selectedFrameId>>
  BY DEF Reset, shown
<1>2. ContractTypes' /\ OwnsEverySession' /\ session' = NULL
  BY <1>1, ClosesOwned
<1>3. Types /\ Held
  BY DEF IInv
<1>4. frames' \in Seq(Copy) /\ Held'
  BY <1>1, <1>3, ShownStays
<1>5. Types'
  BY <1>1, <1>2, <1>3, <1>4 DEF Types
<1> QED
  BY <1>2, <1>4, <1>5 DEF IInv

LEMMA ClearKeeps ==
    ASSUME IInv, Clear
    PROVE  IInv'
<1>1. /\ DestroysSession /\ ClosesSession
      /\ sessions' = 0 /\ frames' = <<>> /\ selectedFrameId' = NULL
  BY DEF Clear
<1>2. ContractTypes' /\ OwnsEverySession' /\ session' = NULL
  BY <1>1, ClosesOwned
<1>3. Types' /\ Held'
  BY <1>1, <1>2 DEF Types, Held
<1> QED
  BY <1>2, <1>3 DEF IInv

LEMMA CrashKeeps ==
    ASSUME IInv, Crashes
    PROVE  IInv'
<1>1. ContractTypes /\ (ContractNext \/ Gone \/ UNCHANGED contractvars)
  BY DEF IInv, Crashes
<1>2. ContractTypes'
  BY <1>1, ContractKeepsTypes
<1>3. /\ stage' = "none" /\ heap' = {} /\ session' = NULL /\ sessions' = 0
      /\ frames' = <<>> /\ selectedFrameId' = NULL
  BY DEF Crashes, Gone
<1>4. OwnsEverySession' /\ Held' /\ Types'
  BY <1>3 DEF OwnsEverySession, Held, Types
<1> QED
  BY <1>2, <1>4 DEF IInv

\* A step of the view model alone, which shows what it then selects from.
LEMMA ShowsKeeps ==
    ASSUME IInv, UNCHANGED <<contractvars, native, session>>,
           frames' \in Seq(Copy), Held'
    PROVE  IInv'
<1>1. ContractTypes /\ UNCHANGED contractvars /\ UNCHANGED <<sessions, heap, session>>
  BY DEF IInv, native
<1>2. ContractTypes'
  BY <1>1, ContractKeepsTypes
<1>3. OwnsEverySession'
  BY <1>1 DEF IInv, OwnsEverySession, contractvars
<1>4. Types'
  BY <1>1 DEF IInv, Types
<1> QED
  BY <1>2, <1>3, <1>4 DEF IInv

LEMMA SeedKeeps ==
    ASSUME IInv, Seed
    PROVE  IInv'
<1>1. ContractTypes /\ Types /\ UNCHANGED <<contractvars, native, session>>
      /\ frames' = Copies(timeline) /\ selectedFrameId' = LiveId(frames')
  BY DEF IInv, Seed, Seeds
<1>2. frames' \in Seq(Copy) /\ Held'
  BY <1>1, SeedShows
<1> QED
  BY <1>1, <1>2, ShowsKeeps

LEMMA ConsumeKeeps ==
    ASSUME IInv, Consume
    PROVE  IInv'
<1>1. ContractTypes /\ Types /\ Held /\ UNCHANGED <<contractvars, native, session>>
  BY DEF IInv, Consume
<1>2. CASE Copies(Recorded) = <<>>
  <2>1. UNCHANGED <<frames, selectedFrameId>>
    BY <1>2 DEF Consume
  <2>2. frames' \in Seq(Copy) /\ Held'
    BY <1>1, <2>1, ShownStays
  <2> QED
    BY <1>1, <2>2, ShowsKeeps
<1>3. CASE Copies(Recorded) # <<>>
  <2>1. /\ frames' = Capped(frames, Copies(Recorded))
        /\ selectedFrameId' = Selects(Copies(Recorded))
    BY <1>3 DEF Consume
  <2>2. frames' \in Seq(Copy) /\ Held'
    BY <1>1, <1>3, <2>1, ConsumeShows
  <2> QED
    BY <1>1, <2>2, ShowsKeeps
<1> QED
  BY <1>2, <1>3

LEMMA SelectKeeps ==
    ASSUME IInv, SelectLive \/ \E i \in DOMAIN frames : SelectFrame(i)
    PROVE  IInv'
<1>1. Types /\ UNCHANGED <<contractvars, native, session>> /\ frames' = frames
  BY DEF IInv, SelectLive, SelectFrame, NoSession
<1>2. frames' \in Seq(Copy)
  BY <1>1 DEF Types
<1>3. Held'
  <2>1. CASE SelectLive
    <3>1. selectedFrameId' = LiveId(frames)
      BY <2>1 DEF SelectLive
    <3>2. /\ frames = <<>> => LiveId(frames) = NULL
          /\ frames # <<>> => \E i \in DOMAIN frames : frames[i].frame.frame_id = LiveId(frames)
      BY <1>1, <1>2, LiveIsShown
    <3> QED
      BY <1>1, <3>1, <3>2 DEF Held
  <2>2. CASE \E i \in DOMAIN frames : SelectFrame(i)
    <3>1. PICK i \in DOMAIN frames : selectedFrameId' = frames[i].frame.frame_id
      BY <2>2 DEF SelectFrame
    <3>2. frames # <<>>
      BY <3>1
    <3> QED
      BY <1>1, <3>1, <3>2 DEF Held
  <2> QED
    BY <2>1, <2>2
<1> QED
  BY <1>1, <1>2, <1>3, ShowsKeeps

LEMMA InitHolds == Init => IInv
<1> SUFFICES ASSUME Init PROVE IInv
  OBVIOUS
<1>1. ContractTypes
  BY DEF Init, ContractInit, ContractTypes, MaxRecorded
<1>2. Types /\ Held
  BY DEF Init, Types, Held
<1>3. OwnsEverySession
  BY DEF Init, ContractInit, OwnsEverySession
<1> QED
  BY <1>1, <1>2, <1>3 DEF IInv

LEMMA StepKeeps == IInv /\ [Next]_vars => IInv'
<1> SUFFICES ASSUME IInv, [Next]_vars PROVE IInv'
  OBVIOUS
<1> DEFINE quiet == UNCHANGED <<contractvars, native, session, frames, selectedFrameId>>
<1>1. CASE quiet
  BY <1>1, QuietKeeps
<1>2. CASE Construct \/ Recreate
  BY <1>2, OpensKeeps DEF Construct, Recreate
<1>3. CASE Reset(NULL) \/ Reset(0)
  BY <1>3, ResetKeeps
<1>4. CASE Clear
  BY <1>4, ClearKeeps
<1>5. CASE ConstructFails \/ OutOfJavaHeap
  <2>1. Crashes
    BY <1>5 DEF ConstructFails, OutOfJavaHeap
  <2> QED
    BY <2>1, CrashKeeps
<1>6. CASE Seed
  BY <1>6, SeedKeeps
<1>7. CASE Proceed
  BY <1>7, ProceedKeeps
<1>8. CASE Consume
  BY <1>8, ConsumeKeeps
<1>9. CASE SelectLive \/ \E i \in DOMAIN frames : SelectFrame(i)
  BY <1>9, SelectKeeps
<1>10. CASE \E op \in Ops : Call(op)
  <2>1. PICK op \in Ops : CallsNothing \/ CallsSession(op)
    BY <1>10 DEF Call
  <2>2. CallsNothing => quiet
    BY DEF CallsNothing, Reports, NoSession, shown
  <2> QED
    BY <1>1, <2>1, <2>2, CallKeeps
<1>11. CASE DemoCall
  <2>1. quiet \/ CallsSession(Demo[demo + 1])
    BY <1>11 DEF DemoCall, NoSession, shown
  <2> QED
    BY <1>1, <2>1, CallKeeps
<1>12. CASE RecreateFails \/ SeedFails \/ ConsumeFails \/ DemoEnds
  <2>1. quiet
    BY <1>12 DEF RecreateFails, SeedFails, ConsumeFails, DemoEnds, Reports, NoSession, shown
  <2> QED
    BY <1>1, <2>1
<1>13. CASE UNCHANGED vars
  <2>1. quiet
    BY <1>13 DEF vars, shown
  <2> QED
    BY <1>1, <2>1
<1> HIDE DEF quiet
<1> QED
  BY <1>2, <1>3, <1>4, <1>5, <1>6, <1>7, <1>8, <1>9, <1>10, <1>11, <1>12, <1>13
  DEF Next, User, GoesOn

-----------------------------------------------------------------------------

\* InspectorViewModel.kt:87-105: whatever of a construction, a reset or a clearing fails,
\* the process has the session that its view model holds and no other, so that each is
\* closed once and none is left behind.
THEOREM OwnershipHolds == Spec => []OwnsEverySession
<1>1. IInv => OwnsEverySession
  BY DEF IInv
<1> QED
  BY <1>1, InitHolds, StepKeeps, PTL DEF Spec

\* InspectorViewModel.kt:107-127: what is selected is among the frames that are shown,
\* however many of them a result has pushed out.
THEOREM SelectionHolds == Spec => []SelectionIsHeld
<1>1. IInv => SelectionIsHeld
  BY DEF IInv, Held, SelectionIsHeld
<1> QED
  BY <1>1, InitHolds, StepKeeps, PTL DEF Spec

-----------------------------------------------------------------------------
(* What is shown is what was received. *)

\* How many of the frames of a sequence the cap drops.
Dropped(s) == IF Len(s) <= MaxFrames THEN 0 ELSE Len(s) - MaxFrames

LEMMA NewestIndex ==
    ASSUME NEW S, NEW s \in Seq(S)
    PROVE  /\ Dropped(s) \in Nat /\ Dropped(s) <= Len(s)
           /\ Log!Newest(s) \in Seq(S) /\ Len(Log!Newest(s)) = Len(s) - Dropped(s)
           /\ Len(Log!Newest(s)) <= MaxFrames
           /\ \A i \in 1..(Len(s) - Dropped(s)) : Log!Newest(s)[i] = s[i + Dropped(s)]
<1>1. MaxFrames \in Nat /\ MaxFrames >= 3
  BY ViewModelAssumption DEF MaxRecorded
<1>2. CASE Len(s) <= MaxFrames
  BY <1>1, <1>2 DEF Log!Newest, Dropped
<1>3. CASE ~ (Len(s) <= MaxFrames)
  <2>1. Log!Newest(s) = SubSeq(s, Len(s) - MaxFrames + 1, Len(s)) /\ Dropped(s) = Len(s) - MaxFrames
    BY <1>3 DEF Log!Newest, Dropped
  <2> QED
    BY <1>1, <1>3, <2>1
<1> QED
  BY <1>2, <1>3

\* Two sequences that have the same elements are equal.
LEMMA SameSequence ==
    ASSUME NEW S, NEW s \in Seq(S), NEW t \in Seq(S), Len(s) = Len(t),
           \A i \in 1..Len(s) : s[i] = t[i]
    PROVE  s = t
OBVIOUS

\* A cap applied on the way does not show at the end.
LEMMA NewestOfNewest ==
    ASSUME NEW S, NEW s \in Seq(S), NEW x \in S
    PROVE  Log!Newest(Append(Log!Newest(s), x)) = Log!Newest(Append(s, x))
<1>0. MaxFrames \in Nat /\ MaxFrames >= 3
  BY ViewModelAssumption DEF MaxRecorded
<1>1. MaxFrames \in Nat /\ MaxFrames >= 3 /\ Len(s) \in Nat
  BY <1>0
<1> DEFINE n == Log!Newest(s)
<1>2. /\ n \in Seq(S) /\ Len(n) = Len(s) - Dropped(s)
      /\ \A i \in 1..(Len(s) - Dropped(s)) : n[i] = s[i + Dropped(s)]
  BY NewestIndex
<1>3. Dropped(s) = IF Len(s) <= MaxFrames THEN 0 ELSE Len(s) - MaxFrames
  BY DEF Dropped
<1> HIDE DEF n
<1> DEFINE a == Append(n, x)
           b == Append(s, x)
<1>4. CASE Len(s) <= MaxFrames
  <2>1. n = s
    BY <1>1, <1>2, <1>3, <1>4, SameSequence
  <2> QED
    BY <2>1 DEF n
<1>5. CASE Len(s) > MaxFrames
  <2>1. Len(n) = MaxFrames /\ \A i \in 1..MaxFrames : n[i] = s[i + (Len(s) - MaxFrames)]
    BY <1>1, <1>2, <1>3, <1>5
  <2>2. /\ a \in Seq(S) /\ Len(a) = MaxFrames + 1 /\ a[MaxFrames + 1] = x
        /\ \A i \in 1..MaxFrames : a[i] = n[i]
    BY <1>1, <1>2, <2>1
  <2>3. /\ b \in Seq(S) /\ Len(b) = Len(s) + 1 /\ b[Len(s) + 1] = x
        /\ \A i \in 1..Len(s) : b[i] = s[i]
    BY <1>1
  <2> HIDE DEF a, b
  <2>4. Dropped(a) = 1 /\ Dropped(b) = Len(s) + 1 - MaxFrames
    BY <1>1, <1>5, <2>2, <2>3 DEF Dropped
  <2>5. /\ Log!Newest(a) \in Seq(S) /\ Len(Log!Newest(a)) = MaxFrames
        /\ \A i \in 1..MaxFrames : Log!Newest(a)[i] = a[i + 1]
    <3>1. /\ Log!Newest(a) \in Seq(S) /\ Len(Log!Newest(a)) = Len(a) - Dropped(a)
          /\ \A i \in 1..(Len(a) - Dropped(a)) : Log!Newest(a)[i] = a[i + Dropped(a)]
      BY <2>2, NewestIndex
    <3>2. Len(a) - Dropped(a) = MaxFrames
      BY <1>1, <2>2, <2>4
    <3> QED
      BY <2>4, <3>1, <3>2
  <2>6. /\ Log!Newest(b) \in Seq(S) /\ Len(Log!Newest(b)) = MaxFrames
        /\ \A i \in 1..MaxFrames : Log!Newest(b)[i] = b[i + (Len(s) + 1 - MaxFrames)]
    <3>1. /\ Log!Newest(b) \in Seq(S) /\ Len(Log!Newest(b)) = Len(b) - Dropped(b)
          /\ \A i \in 1..(Len(b) - Dropped(b)) : Log!Newest(b)[i] = b[i + Dropped(b)]
      BY <2>3, NewestIndex
    <3>2. Len(b) - Dropped(b) = MaxFrames
      BY SMTT(30), <1>1, <2>3, <2>4
    <3> QED
      BY <2>4, <3>1, <3>2
  <2>7. ASSUME NEW i \in 1..MaxFrames
        PROVE  Log!Newest(a)[i] = Log!Newest(b)[i]
    <3>1. CASE i = MaxFrames
      BY <1>1, <2>2, <2>3, <2>5, <2>6, <3>1
    <3>2. CASE i < MaxFrames
      <4>1. i \in Nat /\ i + 1 \in 1..MaxFrames /\ i + (Len(s) + 1 - MaxFrames) \in 1..Len(s)
            /\ i + (Len(s) + 1 - MaxFrames) = i + 1 + (Len(s) - MaxFrames)
        BY <1>1, <1>5, <3>2
      <4>2. Log!Newest(a)[i] = n[i + 1] /\ n[i + 1] = s[i + 1 + (Len(s) - MaxFrames)]
        BY <2>1, <2>2, <2>5, <4>1
      <4>3. Log!Newest(b)[i] = s[i + (Len(s) + 1 - MaxFrames)]
        BY <2>3, <2>6, <4>1
      <4> QED
        BY <4>1, <4>2, <4>3
    <3> QED
      BY <1>1, <3>1, <3>2
  <2>8. Log!Newest(a) = Log!Newest(b)
    BY <2>5, <2>6, <2>7, SameSequence
  <2> QED
    BY <2>8 DEF a, b, n
<1> QED
  BY <1>1, <1>4, <1>5

\* A log that a cap leaves alone.
LEMMA NewestAll == ASSUME NEW s, Len(s) <= MaxFrames PROVE Log!Newest(s) = s
BY DEF Log!Newest

\* The copies of a log, and how the cap and one frame more get along with copying.
CopyOf(f) == [frame |-> f, of |-> session]

LEMMA CopiesIndex ==
    ASSUME NEW log \in Seq(Frame), session \in Nat \cup {NULL}
    PROVE  /\ Copies(log) \in Seq(Copy) /\ Len(Copies(log)) = Len(log)
           /\ \A i \in 1..Len(log) : Copies(log)[i] = CopyOf(log[i])
<1>1. Copies(log) \in Seq(Copy) /\ Len(Copies(log)) = Len(log)
  BY CopiesFacts
<1>2. DOMAIN log = 1..Len(log)
  OBVIOUS
<1> QED
  BY <1>1, <1>2 DEF Copies, CopyOf

LEMMA CopiesNewest ==
    ASSUME NEW log \in Seq(Frame), session \in Nat \cup {NULL}
    PROVE  Copies(Log!Newest(log)) = Log!Newest(Copies(log))
<1> DEFINE n == Log!Newest(log)
           c == Copies(log)
<1>1. /\ n \in Seq(Frame) /\ Len(n) = Len(log) - Dropped(log)
      /\ \A i \in 1..(Len(log) - Dropped(log)) : n[i] = log[i + Dropped(log)]
      /\ Dropped(log) \in Nat /\ Dropped(log) <= Len(log) /\ Len(log) \in Nat
  BY NewestIndex
<1>2. c \in Seq(Copy) /\ Len(c) = Len(log) /\ \A i \in 1..Len(log) : c[i] = CopyOf(log[i])
  BY CopiesIndex
<1> HIDE DEF n, c
<1>3. Dropped(c) = Dropped(log)
  BY <1>2 DEF Dropped
<1>4. /\ Log!Newest(c) \in Seq(Copy) /\ Len(Log!Newest(c)) = Len(log) - Dropped(log)
      /\ \A i \in 1..(Len(log) - Dropped(log)) : Log!Newest(c)[i] = c[i + Dropped(log)]
  BY <1>2, <1>3, NewestIndex
<1>5. /\ Copies(n) \in Seq(Copy) /\ Len(Copies(n)) = Len(log) - Dropped(log)
      /\ \A i \in 1..(Len(log) - Dropped(log)) : Copies(n)[i] = CopyOf(n[i])
  BY <1>1, CopiesIndex
<1>6. ASSUME NEW i \in 1..(Len(log) - Dropped(log))
      PROVE  Copies(n)[i] = Log!Newest(c)[i]
  <2>1. i + Dropped(log) \in 1..Len(log)
    BY <1>1
  <2> QED
    BY <1>1, <1>2, <1>4, <1>5, <2>1
<1>7. Copies(n) = Log!Newest(c)
  BY <1>4, <1>5, <1>6, SameSequence
<1> QED
  BY <1>7 DEF n, c

LEMMA CopiesAppend ==
    ASSUME NEW log \in Seq(Frame), NEW f \in Frame, session \in Nat \cup {NULL}
    PROVE  Copies(Append(log, f)) = Append(Copies(log), CopyOf(f)) /\ CopyOf(f) \in Copy
<1> DEFINE a == Append(log, f)
           b == Append(Copies(log), CopyOf(f))
<1>1. /\ a \in Seq(Frame) /\ Len(a) = Len(log) + 1 /\ a[Len(log) + 1] = f /\ Len(log) \in Nat
      /\ \A i \in 1..Len(log) : a[i] = log[i]
  OBVIOUS
<1>2. /\ Copies(log) \in Seq(Copy) /\ Len(Copies(log)) = Len(log)
      /\ \A i \in 1..Len(log) : Copies(log)[i] = CopyOf(log[i])
  BY CopiesIndex
<1>3. CopyOf(f) \in Copy
  BY DEF CopyOf, Copy
<1>4. /\ b \in Seq(Copy) /\ Len(b) = Len(log) + 1 /\ b[Len(log) + 1] = CopyOf(f)
      /\ \A i \in 1..Len(log) : b[i] = Copies(log)[i]
  BY <1>1, <1>2, <1>3
<1> HIDE DEF a, b
<1>5. /\ Copies(a) \in Seq(Copy) /\ Len(Copies(a)) = Len(log) + 1
      /\ \A i \in 1..(Len(log) + 1) : Copies(a)[i] = CopyOf(a[i])
  BY <1>1, CopiesIndex
<1>6. \A i \in 1..(Len(log) + 1) : Copies(a)[i] = b[i]
  BY <1>1, <1>2, <1>4, <1>5
<1>7. Copies(a) = b
  BY <1>4, <1>5, <1>6, SameSequence
<1> QED
  BY <1>3, <1>7 DEF a, b

\* The frames of the session that its last call has recorded, and that no document could tell of
\* yet: none but in a call.
Pending == IF at = "calling" THEN recorded ELSE 0

\* The frames with ids below were told of, or the document was lost.
Known == next_frame_id - Pending

\* Between the creation of a session and the first document of it.
Seeding == at \in {"constructing", "reseeding"}

PendingFrames == SubSeq(timeline, Len(timeline) - Pending + 1, Len(timeline))

\* The retained frames are numbered without a gap.
NumberedLog ==
    /\ Len(timeline) <= MaxFrames
    /\ \A i \in 1..Len(timeline) : timeline[i].frame_id = next_frame_id - Len(timeline) + i - 1
    /\ stage # "none" => timeline # <<>>

\* Where the thread is with a session, and the number of the session.
ThreadHolds ==
    /\ Seeding \/ at = "calling" => session # NULL
    /\ session # NULL => session = sessions

\* The frames shown are in the order of their sessions, those of a session in the order of their
\* ids, at least as far apart in these as in the list.
Precedes(fs, i, j) ==
    \/ fs[i].of < fs[j].of
    \/ fs[i].of = fs[j].of /\ fs[i].frame.frame_id + (j - i) <= fs[j].frame.frame_id

InOrder(fs) ==
    /\ \A i \in 1..Len(fs) : fs[i].of \in Nat /\ fs[i].of <= sessions
    /\ \A i, j \in 1..Len(fs) : i < j => Precedes(fs, i, j)

\* A retained frame that is known is shown, unless it was lost.
Told ==
    /\ \A n \in lost : n \in Nat /\ n < Known
    /\ Seeding => lost = {}
    /\ session # NULL =>
          \A i \in 1..Len(frames) :
              frames[i].of = session => ~ Seeding /\ frames[i].frame.frame_id < Known
    /\ session # NULL /\ ~ Seeding =>
          \A i \in 1..Len(timeline) :
              timeline[i].frame_id < Known =>
                 ((\E k \in 1..Len(frames) : frames[k] = CopyOf(timeline[i]))
                     <=> timeline[i].frame_id \notin lost)

\* When nothing was lost, the next document makes what is shown a copy of the log.
NothingLost ==
    session # NULL /\ ~ Seeding /\ lost = {} =>
        Capped(frames, Copies(PendingFrames)) = Copies(timeline)

ShownInv ==
    /\ NumberedLog
    /\ ThreadHolds
    /\ Len(frames) <= MaxFrames /\ InOrder(frames)
    /\ Told
    /\ NothingLost

\* Integers of the invariant.
LEMMA ShownTypes ==
    ASSUME IInv, ShownInv
    PROVE  /\ timeline \in Seq(Frame) /\ Len(timeline) \in Nat /\ Len(timeline) <= MaxFrames
           /\ frames \in Seq(Copy) /\ Len(frames) \in Nat /\ Len(frames) <= MaxFrames
           /\ MaxFrames \in Nat /\ MaxFrames >= 3
           /\ next_frame_id \in Nat /\ recorded \in Nat /\ recorded <= 3
           /\ recorded <= Len(timeline) /\ sessions \in Nat /\ session \in Nat \cup {NULL}
           /\ Pending \in Nat /\ Pending <= Len(timeline) /\ Pending <= 3
           /\ Known \in Int /\ Known = next_frame_id - Pending
           /\ \A i \in 1..Len(timeline) : timeline[i] \in Frame /\ timeline[i].frame_id \in Nat
           /\ \A i \in 1..Len(frames) : /\ frames[i] \in Copy /\ frames[i].frame.frame_id \in Nat
                                        /\ frames[i].of \in Nat
<1>1. MaxFrames \in Nat /\ MaxFrames >= 3
  BY ViewModelAssumption DEF MaxRecorded
<1>2. /\ timeline \in Seq(Frame) /\ next_frame_id \in Nat /\ recorded \in 0..3
      /\ recorded <= Len(timeline)
      /\ frames \in Seq(Copy) /\ sessions \in Nat /\ session \in Nat \cup {NULL}
  BY DEF IInv, ContractTypes, Types, MaxRecorded
<1>3. Len(timeline) <= MaxFrames /\ Len(frames) <= MaxFrames
  BY DEF ShownInv, NumberedLog
<1>4. Pending \in Nat /\ Pending <= Len(timeline) /\ Pending <= 3
  BY <1>2 DEF Pending
<1>5. Known \in Int /\ Known = next_frame_id - Pending
  BY <1>2, <1>4 DEF Known
<1>a. \A f \in Frame : f.frame_id \in Nat
  BY DEF Frame
<1>b. \A c \in Copy : c.frame \in Frame
  BY DEF Copy
<1>6. \A i \in 1..Len(timeline) : timeline[i] \in Frame /\ timeline[i].frame_id \in Nat
  BY <1>2, <1>a
<1>7. \A i \in 1..Len(frames) : /\ frames[i] \in Copy /\ frames[i].frame.frame_id \in Nat
                                /\ frames[i].of \in Nat
  BY <1>2, <1>a, <1>b DEF ShownInv, InOrder
<1> QED
  BY <1>1, <1>2, <1>3, <1>4, <1>5, <1>6, <1>7

\* The frames that are pending are the last of the log.
LEMMA PendingFacts ==
    ASSUME IInv, ShownInv
    PROVE  /\ PendingFrames \in Seq(Frame) /\ Len(PendingFrames) = Pending
           /\ \A k \in 1..Pending : /\ PendingFrames[k] = timeline[Len(timeline) - Pending + k]
                                    /\ PendingFrames[k].frame_id = Known + k - 1
<1>1. /\ timeline \in Seq(Frame) /\ Len(timeline) \in Nat
      /\ Pending \in Nat /\ Pending <= Len(timeline) /\ next_frame_id \in Nat
      /\ Known = next_frame_id - Pending
  BY ShownTypes
<1>2. /\ PendingFrames \in Seq(Frame) /\ Len(PendingFrames) = Pending
      /\ \A k \in 1..Pending : PendingFrames[k] = timeline[Len(timeline) - Pending + k]
  <2>1. Len(timeline) - Pending + 1 \in 1..(Len(timeline) + 1)
    BY <1>1
  <2> QED
    BY <1>1, <2>1 DEF PendingFrames
<1>3. ASSUME NEW k \in 1..Pending
      PROVE  timeline[Len(timeline) - Pending + k].frame_id = Known + k - 1
  <2> DEFINE i == Len(timeline) - Pending + k
  <2>1. i \in 1..Len(timeline)
    BY <1>1
  <2>2. timeline[i].frame_id = next_frame_id - Len(timeline) + i - 1
    BY <2>1 DEF ShownInv, NumberedLog
  <2>3. next_frame_id - Len(timeline) + i - 1 = Known + k - 1
    BY <1>1
  <2> QED
    BY <2>2, <2>3
<1> QED
  BY <1>2, <1>3

\* Which frames are pending, by their ids.
LEMMA PendingById ==
    ASSUME IInv, ShownInv, NEW i \in 1..Len(timeline)
    PROVE  /\ timeline[i].frame_id < next_frame_id
           /\ timeline[i].frame_id + MaxFrames >= next_frame_id
           /\ ~ (timeline[i].frame_id < Known) =>
                 \E k \in 1..Pending : PendingFrames[k] = timeline[i]
<1>1. /\ Len(timeline) \in Nat /\ Len(timeline) <= MaxFrames /\ MaxFrames \in Nat
      /\ Pending \in Nat /\ Pending <= Len(timeline) /\ next_frame_id \in Nat
      /\ Known = next_frame_id - Pending
  BY ShownTypes
<1> DEFINE id == timeline[i].frame_id
<1>2. id = next_frame_id - Len(timeline) + i - 1
  BY DEF ShownInv, NumberedLog
<1> HIDE DEF id
<1>3. id < next_frame_id /\ id + MaxFrames >= next_frame_id
  BY <1>1, <1>2
<1>4. ASSUME ~ (id < Known)
      PROVE  \E k \in 1..Pending : PendingFrames[k] = timeline[i]
  <2> DEFINE k == i - (Len(timeline) - Pending)
  <2>1. k \in 1..Pending /\ Len(timeline) - Pending + k = i
    BY <1>1, <1>2, <1>4
  <2>2. PendingFrames[k] = timeline[Len(timeline) - Pending + k]
    BY <2>1, PendingFacts
  <2> QED
    BY <2>1, <2>2
<1> QED
  BY <1>3, <1>4 DEF id

\* A step that tells nothing new and records nothing.
LEMMA SameShown ==
    ASSUME ShownInv, UNCHANGED <<timeline, next_frame_id, sessions, session, frames, lost>>,
           Pending' = Pending, Seeding' <=> Seeding, at' = "calling" => session # NULL,
           stage # "none" \/ stage' = stage
    PROVE  ShownInv'
<1>1. NumberedLog'
  BY DEF ShownInv, NumberedLog
<1>2. ThreadHolds'
  BY DEF ShownInv, ThreadHolds
<1>3. Len(frames') <= MaxFrames /\ InOrder(frames)'
  BY DEF ShownInv, InOrder, Precedes
<1>4. Known' = Known
  BY DEF Known
<1>5. Told'
  BY <1>4 DEF ShownInv, Told, CopyOf
<1>6. NothingLost'
  BY DEF ShownInv, NothingLost, PendingFrames, Copies, Capped
<1> QED
  BY <1>1, <1>2, <1>3, <1>5, <1>6 DEF ShownInv

\* A frame more in the log.
Longer(kind) == Append(timeline, [frame_id |-> next_frame_id, payload |-> kind])

LEMMA RecordsNumbered ==
    ASSUME timeline \in Seq(Frame), next_frame_id \in Nat, NumberedLog,
           NEW kind \in Kinds, Records(kind)
    PROVE  /\ [frame_id |-> next_frame_id, payload |-> kind] \in Frame
           /\ Longer(kind) \in Seq(Frame) /\ Len(Longer(kind)) = Len(timeline) + 1
           /\ Longer(kind)[Len(timeline) + 1] = [frame_id |-> next_frame_id, payload |-> kind]
           /\ \A i \in 1..Len(timeline) : Longer(kind)[i] = timeline[i]
           /\ Dropped(Longer(kind)) = IF Len(timeline) + 1 <= MaxFrames THEN 0
                                      ELSE Len(timeline) + 1 - MaxFrames
           /\ Dropped(Longer(kind)) \in Nat /\ Dropped(Longer(kind)) <= Len(timeline) + 1
           /\ timeline' = Log!Newest(Longer(kind)) /\ timeline' \in Seq(Frame)
           /\ next_frame_id' = next_frame_id + 1
           /\ Len(timeline') = Len(timeline) + 1 - Dropped(Longer(kind))
           /\ Len(timeline') \in Nat /\ Len(timeline') > 0 /\ Len(timeline') <= MaxFrames
           /\ \A i \in 1..Len(timeline') : timeline'[i] = Longer(kind)[i + Dropped(Longer(kind))]
           /\ NumberedLog'
<1> DEFINE x == [frame_id |-> next_frame_id, payload |-> kind]
           h == Append(timeline, x)
           L == Len(timeline)
           d == Dropped(h)
           m == Len(timeline')
<1>1. /\ timeline \in Seq(Frame) /\ L \in Nat /\ MaxFrames \in Nat /\ MaxFrames >= 3
      /\ next_frame_id \in Nat
  <2>1. MaxFrames \in Nat /\ MaxFrames >= 3
    BY ViewModelAssumption DEF MaxRecorded
  <2> QED
    BY <2>1
<1>e. Longer(kind) = h
  BY DEF Longer
<1>2. x \in Frame /\ x.frame_id = next_frame_id
  BY <1>1 DEF Frame
<1>3. timeline' = Log!Newest(h) /\ next_frame_id' = next_frame_id + 1
  BY DEF Records, Log!Appended
<1> HIDE DEF x
<1>5. /\ h \in Seq(Frame) /\ Len(h) = L + 1 /\ h[L + 1] = x
      /\ \A i \in 1..L : h[i] = timeline[i]
  BY <1>1, <1>2
<1> HIDE DEF h
<1> DEFINE g == Log!Newest(h)
<1>a. /\ Dropped(h) \in Nat /\ Dropped(h) <= Len(h)
      /\ g \in Seq(Frame) /\ Len(g) = Len(h) - Dropped(h) /\ Len(g) <= MaxFrames
      /\ \A i \in 1..(Len(h) - Dropped(h)) : g[i] = h[i + Dropped(h)]
  BY <1>5, NewestIndex
<1>b. Dropped(h) = (IF Len(h) <= MaxFrames THEN 0 ELSE Len(h) - MaxFrames)
  BY DEF Dropped
<1>c. timeline' = g
  BY <1>3
<1> HIDE DEF d, m, L, g
<1>d. /\ d = Dropped(h) /\ m = Len(g) /\ Len(h) = L + 1 /\ L + 1 - d = Len(h) - Dropped(h)
  <2>1. d = Dropped(h) /\ m = Len(g) /\ Len(h) = L + 1
    BY <1>5, <1>c DEF d, m
  <2>2. L \in Nat /\ Dropped(h) \in Nat
    BY <1>1, <1>a
  <2> QED
    BY <2>1, <2>2
<1>6. /\ d \in Nat /\ d <= L + 1 /\ timeline' \in Seq(Frame) /\ m = L + 1 - d
      /\ m <= MaxFrames
      /\ \A i \in 1..(L + 1 - d) : timeline'[i] = h[i + d]
  <2>1. d \in Nat /\ d <= L + 1 /\ m <= MaxFrames
    BY <1>a, <1>d
  <2>2. m = L + 1 - d
    BY <1>a, <1>d
  <2>3. \A i \in 1..(Len(h) - Dropped(h)) : timeline'[i] = h[i + Dropped(h)]
    BY <1>a, <1>c
  <2>4. \A i \in 1..(L + 1 - d) : timeline'[i] = h[i + d]
    BY <2>3, <1>d
  <2> QED
    BY <1>a, <1>c, <2>1, <2>2, <2>4
<1>7. d = (IF L + 1 <= MaxFrames THEN 0 ELSE L + 1 - MaxFrames)
  <2>1. Len(h) = L + 1 /\ L + 1 \in Nat
    BY <1>1, <1>5
  <2> QED
    BY <1>1, <1>b, <2>1 DEF d
<1>8. \A i \in 1..(L + 1) : h[i].frame_id = next_frame_id - L + i - 1
  <2>1. \A i \in 1..L : timeline[i].frame_id = next_frame_id - L + i - 1
    BY DEF NumberedLog, L
  <2>2. next_frame_id = next_frame_id - L + (L + 1) - 1
    BY <1>1
  <2>3. \A i \in 1..(L + 1) : i \in 1..L \/ i = L + 1
    BY <1>1
  <2> QED
    BY <1>2, <1>5, <2>1, <2>2, <2>3
<1>9. m \in Nat /\ m > 0
  BY <1>1, <1>6, <1>7
<1>10. NumberedLog'
  <2>1. ASSUME NEW i \in 1..m
        PROVE  timeline'[i].frame_id = next_frame_id' - m + i - 1
    <3>1. i \in 1..(L + 1 - d) /\ i + d \in 1..(L + 1)
      BY <1>1, <1>6
    <3>2. timeline'[i].frame_id = next_frame_id - L + (i + d) - 1
      BY <1>6, <1>8, <3>1
    <3>3. next_frame_id - L + (i + d) - 1 = next_frame_id' - m + i - 1
      BY <1>1, <1>3, <1>6
    <3> QED
      BY <3>2, <3>3
  <2>2. timeline' # <<>>
    BY <1>9 DEF m
  <2> QED
    BY <1>6, <2>1, <2>2 DEF NumberedLog, m
<1>11. /\ \A i \in 1..m : timeline'[i] = h[i + d]
       /\ timeline' = Log!Newest(h)
  BY <1>3, <1>6
<1> QED
  BY <1>2, <1>3, <1>5, <1>6, <1>7, <1>9, <1>10, <1>11, <1>e DEF x, d, m, L

\* The session records a frame more, of which a document has still to tell.
LEMMA RecordShown ==
    ASSUME IInv, ShownInv, NEW kind \in Kinds, Records(kind),
           UNCHANGED <<sessions, session, frames, lost>>,
           Pending' = Pending + 1, Pending' <= 3, ~ Seeding, at' = "calling", session # NULL
    PROVE  ShownInv'
<1> DEFINE x == [frame_id |-> next_frame_id, payload |-> kind]
           h == Longer(kind)
           L == Len(timeline)
           d == Dropped(h)
           m == Len(timeline')
<1>1. /\ timeline \in Seq(Frame) /\ L \in Nat /\ MaxFrames \in Nat /\ MaxFrames >= 3
      /\ next_frame_id \in Nat /\ Pending \in Nat /\ Pending <= L
      /\ Known \in Int /\ Known = next_frame_id - Pending /\ session \in Nat \cup {NULL}
      /\ frames \in Seq(Copy)
  BY ShownTypes
<1>2. /\ x \in Frame /\ x.frame_id = next_frame_id
      /\ h \in Seq(Frame) /\ Len(h) = L + 1 /\ h[L + 1] = x
      /\ \A i \in 1..L : h[i] = timeline[i]
      /\ d = (IF L + 1 <= MaxFrames THEN 0 ELSE L + 1 - MaxFrames)
      /\ d \in Nat /\ d <= L + 1
      /\ timeline' = Log!Newest(h) /\ timeline' \in Seq(Frame)
      /\ next_frame_id' = next_frame_id + 1
      /\ m = L + 1 - d /\ m \in Nat /\ m > 0 /\ m <= MaxFrames
      /\ \A i \in 1..m : timeline'[i] = h[i + d]
      /\ NumberedLog'
  BY <1>1, RecordsNumbered DEF ShownInv
<1>4. ~ Seeding'
  BY DEF Seeding
<1>e. h = Append(timeline, x)
  BY DEF Longer
<1> HIDE DEF x, h, d, m, L
<1>3. timeline' = Log!Newest(h) /\ next_frame_id' = next_frame_id + 1
  BY <1>2
<1>5. /\ h \in Seq(Frame) /\ Len(h) = L + 1 /\ h[L + 1] = x
      /\ \A i \in 1..L : h[i] = timeline[i]
  BY <1>2
<1>6. /\ d \in Nat /\ d <= L + 1 /\ timeline' \in Seq(Frame) /\ m = L + 1 - d
      /\ m <= MaxFrames
      /\ \A i \in 1..(L + 1 - d) : timeline'[i] = h[i + d]
  BY <1>2
<1>7. d = (IF L + 1 <= MaxFrames THEN 0 ELSE L + 1 - MaxFrames)
  BY <1>2
<1>9. m \in Nat /\ m > 0
  BY <1>2
<1>10. NumberedLog'
  BY <1>2
<1>11. ThreadHolds'
  BY DEF ShownInv, ThreadHolds
<1>12. Len(frames') <= MaxFrames /\ InOrder(frames)'
  BY DEF ShownInv, InOrder, Precedes
<1>13. Known' = Known
  BY <1>1, <1>3 DEF Known
<1>14. Told'
  <2>1. ASSUME NEW i \in 1..m, timeline'[i].frame_id < Known
        PROVE  (\E k \in 1..Len(frames) : frames[k] = CopyOf(timeline'[i]))
                   <=> timeline'[i].frame_id \notin lost
    <3>1. i + d \in 1..(L + 1) /\ timeline'[i] = h[i + d]
      BY SMTT(30), <1>1, <1>6
    <3>2. i + d # L + 1
      <4>1. ~ (next_frame_id < Known)
        BY <1>1
      <4> QED
        BY <1>2, <1>5, <2>1, <3>1, <4>1
    <3>3. i + d \in 1..L
      BY <1>1, <1>6, <3>1, <3>2
    <3>4. timeline'[i] = timeline[i + d]
      BY <1>5, <3>1, <3>3
    <3> QED
      BY <2>1, <3>3, <3>4 DEF ShownInv, Told, L
  <2>2. \A f : (CopyOf(f))' = CopyOf(f')
    BY DEF CopyOf
  <2> QED
    BY <1>4, <1>13, <2>1 DEF ShownInv, Told, CopyOf, m
<1>15. NothingLost'
  <2> SUFFICES ASSUME lost = {}
               PROVE  Capped(frames, Copies(PendingFrames))' = Copies(timeline)'
    BY DEF NothingLost
  <2> DEFINE p == PendingFrames
  <2>1. Log!Newest(frames \o Copies(p)) = Copies(timeline)
    BY DEF ShownInv, NothingLost, Capped
  <2>2. p \in Seq(Frame) /\ Len(p) = Pending
        /\ \A k \in 1..Pending : p[k] = timeline[L - Pending + k]
    BY PendingFacts DEF L
  <2> HIDE DEF p
  <2>3. PendingFrames' = Append(p, x)
    <3>1. Pending + 1 <= m /\ Pending + 1 \in Nat
      BY <1>1, <1>6, <1>7
    <3>2. PendingFrames' = SubSeq(timeline', m - (Pending + 1) + 1, m)
      BY DEF PendingFrames, m
    <3>3. m - (Pending + 1) + 1 \in 1..(m + 1)
      BY <1>9, <3>1
    <3>4. /\ PendingFrames' \in Seq(Frame) /\ Len(PendingFrames') = Pending + 1
          /\ \A k \in 1..(Pending + 1) : PendingFrames'[k] = timeline'[m - (Pending + 1) + k]
      <4> DEFINE b == m - (Pending + 1) + 1
      <4>1. timeline' \in Seq(Frame) /\ Len(timeline') = m
        BY <1>6 DEF m
      <4>2. b \in 1..(m + 1) /\ m - b + 1 = Pending + 1
        BY <1>9, <3>1, <3>3
      <4> HIDE DEF b
      <4>3. /\ SubSeq(timeline', b, m) \in Seq(Frame)
            /\ Len(SubSeq(timeline', b, m)) = m - b + 1
            /\ \A k \in 1..(m - b + 1) : SubSeq(timeline', b, m)[k] = timeline'[b + k - 1]
        BY <1>9, <4>1, <4>2
      <4>4. \A k \in 1..(Pending + 1) : b + k - 1 = m - (Pending + 1) + k
        BY <1>1, <1>9 DEF b
      <4>5. PendingFrames' = SubSeq(timeline', b, m)
        BY <3>2 DEF b
      <4> QED
        BY <4>2, <4>3, <4>4, <4>5
    <3>5. /\ Append(p, x) \in Seq(Frame) /\ Len(Append(p, x)) = Pending + 1
          /\ Append(p, x)[Pending + 1] = x /\ \A k \in 1..Pending : Append(p, x)[k] = p[k]
      BY SMTT(30), <1>1, <1>2, <2>2
    <3>6. ASSUME NEW k \in 1..(Pending + 1)
          PROVE  PendingFrames'[k] = Append(p, x)[k]
      <4>1. m - (Pending + 1) + k \in 1..(L + 1 - d)
            /\ m - (Pending + 1) + k + d = L - Pending + k
        <5>1. /\ L \in Nat /\ d \in Nat /\ m \in Nat /\ m = L + 1 - d
              /\ Pending \in Nat /\ Pending + 1 <= m
              /\ k \in Nat /\ 1 <= k /\ k <= Pending + 1
          BY SMTT(30), <1>1, <1>6, <3>1
        <5> QED
          BY <5>1
      <4>2. PendingFrames'[k] = h[L - Pending + k]
        BY <1>6, <3>4, <4>1
      <4>3. CASE k = Pending + 1
        <5>1. L - Pending + k = L + 1
          BY <1>1, <4>3
        <5> QED
          BY <1>5, <3>5, <4>2, <4>3, <5>1
      <4>4. CASE k \in 1..Pending
        <5>1. L - Pending + k \in 1..L
          BY <1>1, <4>4
        <5> QED
          BY <1>5, <2>2, <3>5, <4>2, <4>4, <5>1
      <4>5. k = Pending + 1 \/ k \in 1..Pending
        BY <1>1
      <4> QED
        BY <4>3, <4>4, <4>5
    <3> QED
      BY <3>4, <3>5, <3>6, SameSequence
  <2>4. \A f : Copies(f)' = Copies(f')
    BY DEF Copies
  <2>5. Copies(Append(p, x)) = Append(Copies(p), CopyOf(x)) /\ CopyOf(x) \in Copy
    BY <1>1, <1>2, <2>2, CopiesAppend
  <2>6. Copies(p) \in Seq(Copy)
    BY <1>1, <2>2, CopiesIndex
  <2>7. Copies(PendingFrames)' = Append(Copies(p), CopyOf(x))
    <3>1. Copies(PendingFrames)' = Copies(Append(p, x))
      BY <2>3 DEF Copies
    <3> QED
      BY <2>5, <3>1
  <2>8. Copies(timeline)' = Copies(Log!Newest(h))
    BY <1>3 DEF Copies
  <2>9. frames \o Append(Copies(p), CopyOf(x)) = Append(frames \o Copies(p), CopyOf(x))
        /\ frames \o Copies(p) \in Seq(Copy)
    BY <1>1, <2>5, <2>6
  <2>10. Log!Newest(Append(frames \o Copies(p), CopyOf(x)))
         = Log!Newest(Append(Copies(timeline), CopyOf(x)))
    BY <2>1, <2>5, <2>9, NewestOfNewest
  <2>11. Append(Copies(timeline), CopyOf(x)) = Copies(h)
    BY <1>1, <1>2, <1>e, CopiesAppend
  <2>12. Copies(Log!Newest(h)) = Log!Newest(Copies(h))
    BY <1>1, <1>5, CopiesNewest
  <2>13. Capped(frames, Copies(PendingFrames))' = Log!Newest(frames \o Append(Copies(p), CopyOf(x)))
    BY <2>7 DEF Capped
  <2> QED
    BY <2>8, <2>9, <2>10, <2>11, <2>12, <2>13
<1> QED
  BY <1>10, <1>11, <1>12, <1>14, <1>15 DEF ShownInv

\* With nothing pending, there is nothing to add to what is shown.
LEMMA NothingToAdd ==
    ASSUME timeline' \in Seq(Frame), frames' \in Seq(Copy), Len(frames') <= MaxFrames, Pending' = 0
    PROVE  Capped(frames, Copies(PendingFrames))' = frames'
<1>1. Len(timeline') - 0 + 1 > Len(timeline') /\ Len(timeline') \in Nat
  OBVIOUS
<1>2. PendingFrames' = <<>>
  BY <1>1 DEF PendingFrames
<1>3. Copies(PendingFrames)' = <<>>
  BY <1>2 DEF Copies
<1>4. Capped(frames, Copies(PendingFrames))' = Log!Newest(frames' \o <<>>)
  BY <1>3 DEF Capped
<1>5. frames' \o <<>> = frames'
  OBVIOUS
<1> QED
  BY <1>4, <1>5, NewestAll

\* What a document adds to the frames shown is in order with them.
LEMMA AddedInOrder ==
    ASSUME IInv, ShownInv, session # NULL, ~ Seeding
    PROVE  /\ frames \o Copies(PendingFrames) \in Seq(Copy)
           /\ Len(frames \o Copies(PendingFrames)) = Len(frames) + Pending
           /\ \A i \in 1..Len(frames) : (frames \o Copies(PendingFrames))[i] = frames[i]
           /\ \A k \in 1..Pending :
                 /\ (frames \o Copies(PendingFrames))[Len(frames) + k] = CopyOf(PendingFrames[k])
                 /\ PendingFrames[k].frame_id = Known + k - 1
           /\ InOrder(frames \o Copies(PendingFrames))
<1> DEFINE n == Len(frames)
           p == PendingFrames
           u == frames \o Copies(p)
<1>1. /\ frames \in Seq(Copy) /\ n \in Nat /\ Pending \in Nat /\ Known \in Int
      /\ session \in Nat \cup {NULL} /\ sessions \in Nat
      /\ \A i \in 1..n : frames[i].frame.frame_id \in Nat /\ frames[i].of \in Nat
  BY ShownTypes
<1>2. /\ p \in Seq(Frame) /\ Len(p) = Pending
      /\ \A k \in 1..Pending : p[k].frame_id = Known + k - 1
  BY PendingFacts
<1>3. session = sessions
  BY DEF ShownInv, ThreadHolds
<1>4. /\ \A i \in 1..n : frames[i].of <= sessions
      /\ \A i, j \in 1..n : i < j => Precedes(frames, i, j)
      /\ \A i \in 1..n : frames[i].of = session => frames[i].frame.frame_id < Known
  BY DEF ShownInv, InOrder, Told
<1> HIDE DEF p, n
<1>5. /\ Copies(p) \in Seq(Copy) /\ Len(Copies(p)) = Pending
      /\ \A k \in 1..Pending : Copies(p)[k] = CopyOf(p[k])
  BY <1>1, <1>2, CopiesIndex
<1>6. /\ u \in Seq(Copy) /\ Len(u) = n + Pending
      /\ \A i \in 1..n : u[i] = frames[i]
      /\ \A k \in 1..Pending : u[n + k] = CopyOf(p[k])
  <2>1. u \in Seq(Copy) /\ Len(u) = n + Pending
    BY SMTT(30), <1>1, <1>5 DEF n
  <2>2. \A i \in 1..n : u[i] = frames[i]
    BY <1>1, <1>5 DEF n
  <2>3. \A k \in 1..Pending : u[n + k] = Copies(p)[k]
    BY <1>1, <1>5 DEF n
  <2> QED
    BY <1>5, <2>1, <2>2, <2>3
<1> HIDE DEF u
<1>7. ASSUME NEW k \in 1..Pending
      PROVE  u[n + k].of = sessions /\ u[n + k].frame.frame_id = Known + k - 1
  <2>1. u[n + k] = CopyOf(p[k]) /\ p[k].frame_id = Known + k - 1
    BY <1>2, <1>6
  <2>2. CopyOf(p[k]).of = sessions /\ CopyOf(p[k]).frame = p[k]
    BY <1>3 DEF CopyOf
  <2> QED
    BY <2>1, <2>2
<1>8. \A i \in 1..(n + Pending) : i \in 1..n \/ (i - n \in 1..Pending /\ i = n + (i - n))
  BY <1>1
<1>9. ASSUME NEW i \in 1..(n + Pending)
      PROVE  u[i].of \in Nat /\ u[i].of <= sessions
  <2>1. CASE i \in 1..n
    BY <1>1, <1>4, <1>6, <2>1
  <2>2. CASE i - n \in 1..Pending /\ i = n + (i - n)
    <3>1. u[i].of = sessions
      BY <1>7, <2>2
    <3> QED
      BY <1>1, <3>1
  <2> QED
    BY <1>8, <2>1, <2>2
<1>10. ASSUME NEW i \in 1..(n + Pending), NEW j \in 1..(n + Pending), i < j
       PROVE  Precedes(u, i, j)
  <2>1. CASE j \in 1..n
    <3>1. i \in 1..n
      BY <1>1, <1>10, <2>1
    <3>2. Precedes(frames, i, j)
      BY <1>4, <1>10, <2>1, <3>1
    <3> QED
      BY <1>6, <2>1, <3>1, <3>2 DEF Precedes
  <2>2. CASE i - n \in 1..Pending /\ i = n + (i - n) /\ j - n \in 1..Pending /\ j = n + (j - n)
    <3>1. u[i].of = sessions /\ u[i].frame.frame_id = Known + (i - n) - 1
      BY <1>7, <2>2
    <3>2. u[j].of = sessions /\ u[j].frame.frame_id = Known + (j - n) - 1
      BY <1>7, <2>2
    <3>3. Known + (i - n) - 1 + (j - i) <= Known + (j - n) - 1
      BY <1>1, <2>2
    <3> QED
      BY <3>1, <3>2, <3>3 DEF Precedes
  <2>3. CASE i \in 1..n /\ j - n \in 1..Pending /\ j = n + (j - n)
    <3>1. u[j].of = sessions /\ u[j].frame.frame_id = Known + (j - n) - 1
      BY <1>7, <2>3
    <3>2. u[i] = frames[i] /\ frames[i].of \in Nat /\ frames[i].of <= sessions
      BY <1>1, <1>4, <1>6, <2>3
    <3>3. CASE frames[i].of = sessions
      <4>1. frames[i].frame.frame_id + (n - i) < Known
        <5>1. CASE i = n
          <6>1. frames[i].frame.frame_id < Known /\ frames[i].frame.frame_id \in Nat
            BY <1>1, <1>3, <1>4, <2>3, <3>3
          <6>2. frames[i].frame.frame_id + (n - i) = frames[i].frame.frame_id
            BY <1>1, <5>1, <6>1
          <6> QED
            BY <6>1, <6>2
        <5>2. CASE i < n
          <6>1. n \in 1..n /\ Precedes(frames, i, n)
            BY <1>1, <1>4, <2>3, <5>2
          <6>2. frames[n].of \in Nat /\ frames[n].of <= sessions
            BY <1>1, <1>4, <6>1
          <6>3. /\ frames[n].of = sessions
                /\ frames[i].frame.frame_id + (n - i) <= frames[n].frame.frame_id
            BY <1>1, <3>3, <6>1, <6>2 DEF Precedes
          <6>4. frames[n].frame.frame_id < Known /\ frames[n].frame.frame_id \in Nat
            BY <1>1, <1>3, <1>4, <6>1, <6>3
          <6>5. frames[i].frame.frame_id \in Nat /\ i \in Nat
            BY <1>1, <2>3
          <6> DEFINE a == frames[i].frame.frame_id
                     b == frames[n].frame.frame_id
          <6>6. a \in Nat /\ b \in Nat /\ a + (n - i) <= b /\ b < Known
            BY <6>3, <6>4, <6>5
          <6> HIDE DEF a, b
          <6>7. a + (n - i) < Known
            BY <1>1, <6>5, <6>6
          <6> QED
            BY <6>7 DEF a
        <5> QED
          BY <1>1, <2>3, <5>1, <5>2
      <4>2. frames[i].frame.frame_id \in Nat /\ i \in Nat /\ j \in Nat
        BY <1>1, <2>3
      <4> DEFINE a == frames[i].frame.frame_id
      <4>3. a \in Nat /\ a + (n - i) < Known
        BY <4>1, <4>2
      <4> HIDE DEF a
      <4>4. a + (j - i) <= Known + (j - n) - 1
        BY <1>1, <2>3, <4>2, <4>3
      <4> QED
        BY <3>1, <3>2, <3>3, <4>4 DEF Precedes, a
    <3>4. CASE frames[i].of < sessions
      BY <3>1, <3>2, <3>4 DEF Precedes
    <3> QED
      BY <1>1, <3>2, <3>3, <3>4
  <2>4. ~ (i - n \in 1..Pending /\ j \in 1..n)
    BY <1>1, <1>10
  <2> QED
    BY <1>8, <2>1, <2>2, <2>3, <2>4
<1>11. InOrder(u)
  BY <1>6, <1>9, <1>10 DEF InOrder
<1> QED
  BY <1>2, <1>6, <1>11 DEF u, p, n

\* The newest of frames in order are in order.
LEMMA NewestInOrder ==
    ASSUME NEW u \in Seq(Copy), InOrder(u) PROVE InOrder(Log!Newest(u))
<1> DEFINE v == Log!Newest(u)
           d == Dropped(u)
<1>1. /\ d \in Nat /\ d <= Len(u) /\ Len(v) = Len(u) - d /\ Len(u) \in Nat
      /\ \A i \in 1..(Len(u) - d) : v[i] = u[i + d]
  BY NewestIndex
<1> HIDE DEF v, d
<1>2. \A i \in 1..(Len(u) - d) : i + d \in 1..Len(u)
  BY <1>1
<1>3. \A i \in 1..(Len(u) - d) : v[i].of \in Nat /\ v[i].of <= sessions
  BY <1>1, <1>2 DEF InOrder
<1>4. ASSUME NEW i \in 1..(Len(u) - d), NEW j \in 1..(Len(u) - d), i < j
      PROVE  Precedes(v, i, j)
  <2>1. i + d \in 1..Len(u) /\ j + d \in 1..Len(u) /\ i + d < j + d /\ (j + d) - (i + d) = j - i
    BY <1>1, <1>4
  <2>2. Precedes(u, i + d, j + d)
    BY <2>1 DEF InOrder
  <2>3. v[i] = u[i + d] /\ v[j] = u[j + d]
    BY <1>1
  <2> QED
    BY <2>1, <2>2, <2>3 DEF Precedes
<1>5. InOrder(v)
  BY <1>1, <1>3, <1>4 DEF InOrder
<1> QED
  BY <1>5 DEF v

\* A document of the pending frames arrives.
LEMMA ShowsPending ==
    ASSUME IInv, ShownInv, IInv', session # NULL, ~ Seeding, ~ Seeding', Pending' = 0,
           frames' = Capped(frames, Copies(PendingFrames)),
           UNCHANGED <<stage, timeline, next_frame_id, sessions, session, lost>>
    PROVE  ShownInv'
<1> DEFINE u == frames \o Copies(PendingFrames)
           n == Len(frames)
           d == Dropped(u)
<1>1. /\ timeline \in Seq(Frame) /\ Len(timeline) \in Nat /\ Len(timeline) <= MaxFrames
      /\ frames \in Seq(Copy) /\ n \in Nat /\ n <= MaxFrames /\ MaxFrames \in Nat
      /\ next_frame_id \in Nat /\ Pending \in Nat /\ Pending <= 3 /\ MaxFrames >= 3
      /\ Known \in Int /\ Known = next_frame_id - Pending /\ session \in Nat \cup {NULL}
      /\ sessions \in Nat
      /\ \A i \in 1..Len(timeline) : timeline[i].frame_id \in Nat
  BY ShownTypes
<1>2. /\ u \in Seq(Copy) /\ Len(u) = n + Pending
      /\ \A i \in 1..n : u[i] = frames[i]
      /\ \A k \in 1..Pending : /\ u[n + k] = CopyOf(PendingFrames[k])
                               /\ PendingFrames[k].frame_id = Known + k - 1
      /\ InOrder(u)
  BY AddedInOrder
<1>3. frames' = Log!Newest(u)
  BY DEF Capped
<1>4. session = sessions
  BY DEF ShownInv, ThreadHolds
<1> HIDE DEF u
<1> DEFINE v == Log!Newest(u)
<1>5. /\ d \in Nat /\ d <= Len(u) /\ v \in Seq(Copy) /\ Len(v) = Len(u) - d
      /\ Len(v) <= MaxFrames
      /\ \A i \in 1..(Len(u) - d) : v[i] = u[i + d]
  BY <1>2, NewestIndex
<1>6. d = IF Len(u) <= MaxFrames THEN 0 ELSE Len(u) - MaxFrames
  BY DEF Dropped
<1>7. InOrder(v)
  BY <1>2, NewestInOrder
<1> HIDE DEF v, d
<1>8. frames' = v
  BY <1>3 DEF v
<1>9. Known' = next_frame_id
  BY <1>1 DEF Known
<1>10. NumberedLog' /\ ThreadHolds'
  <2>1. NumberedLog'
    BY DEF ShownInv, NumberedLog
  <2>2. at' # "calling" \/ session' # NULL
    OBVIOUS
  <2> QED
    BY <2>1, <2>2 DEF ShownInv, ThreadHolds
<1>11. Len(frames') <= MaxFrames /\ InOrder(frames)'
  BY ZenonT(60), <1>5, <1>7, <1>8 DEF InOrder, Precedes
<1>12. \A j \in 1..Len(u) : j \in 1..n \/ (j - n \in 1..Pending /\ j = n + (j - n))
  BY <1>1, <1>2
<1>13. \A k \in 1..Pending : /\ u[n + k].of = session
                             /\ u[n + k].frame = PendingFrames[k]
                             /\ u[n + k].frame.frame_id = Known + k - 1
  <2>1. \A f : CopyOf(f).of = session /\ CopyOf(f).frame = f
    BY DEF CopyOf
  <2> QED
    BY <1>2, <2>1
<1>14. \A k \in 1..Pending : Known + k - 1 < next_frame_id /\ ~ (Known + k - 1 < Known)
  BY <1>1
<1>15. /\ \A i \in 1..n : frames[i].of = session => frames[i].frame.frame_id < Known
       /\ \A m \in lost : m \in Nat /\ m < Known
       /\ \A i \in 1..Len(timeline) :
              timeline[i].frame_id < Known =>
                 ((\E k \in 1..n : frames[k] = CopyOf(timeline[i]))
                     <=> timeline[i].frame_id \notin lost)
  BY DEF ShownInv, Told
<1>16. \A x \in Int : x < Known => x < next_frame_id
  BY <1>1
<1>17. \A i \in 1..n : frames[i].frame.frame_id \in Nat
  BY ShownTypes
<1>18. \A j \in 1..Len(u) : u[j].of = session => u[j].frame.frame_id < next_frame_id
  <2> SUFFICES ASSUME NEW j \in 1..Len(u), u[j].of = session
               PROVE  u[j].frame.frame_id < next_frame_id
    OBVIOUS
  <2>1. CASE j \in 1..n
    <3>1. u[j] = frames[j] /\ frames[j].frame.frame_id < Known /\ frames[j].frame.frame_id \in Int
      BY <1>2, <1>15, <1>17, <2>1
    <3> QED
      BY <1>16, <3>1
  <2>2. CASE j - n \in 1..Pending /\ j = n + (j - n)
    BY <1>13, <1>14, <2>2
  <2> QED
    BY <1>12, <2>1, <2>2
<1>19. ASSUME NEW i \in 1..Len(timeline)
       PROVE  (\E k \in 1..Len(v) : v[k] = CopyOf(timeline[i])) <=> timeline[i].frame_id \notin lost
  <2> DEFINE c == CopyOf(timeline[i])
             id == timeline[i].frame_id
  <2>1. c.of = session /\ c.frame = timeline[i] /\ c.frame.frame_id = id /\ id \in Nat
    BY <1>1 DEF CopyOf
  <2>2. /\ id < next_frame_id /\ id + MaxFrames >= next_frame_id
        /\ ~ (id < Known) => \E k \in 1..Pending : PendingFrames[k] = timeline[i]
    BY PendingById
  <2> HIDE DEF c
  <2>3. ASSUME NEW k \in 1..Len(v), v[k] = c
        PROVE  id \notin lost
    <3> DEFINE j == k + d
    <3>1. j \in 1..Len(u) /\ u[j] = c
      BY <1>5, <2>3
    <3> HIDE DEF j
    <3>2. CASE j \in 1..n
      <4>1. frames[j] = CopyOf(timeline[i]) /\ frames[j].of = session
        BY <1>2, <2>1, <3>1, <3>2 DEF c
      <4>2. id < Known
        BY <1>15, <2>1, <3>2, <4>1 DEF c
      <4> QED
        BY <1>15, <3>2, <4>1, <4>2
    <3>3. CASE j - n \in 1..Pending /\ j = n + (j - n)
      <4>1. id = Known + (j - n) - 1
        BY <1>13, <2>1, <3>1, <3>3
      <4>2. ~ (id < Known)
        BY <1>14, <3>3, <4>1
      <4> QED
        BY <1>15, <4>2
    <3> QED
      BY <1>12, <3>1, <3>2, <3>3
  <2>4. ASSUME id \notin lost
        PROVE  \E k \in 1..Len(v) : v[k] = c
    <3>1. PICK j \in 1..Len(u) : u[j] = c
      <4>1. CASE id < Known
        <5>1. PICK k \in 1..n : frames[k] = c
          BY <1>15, <2>4, <4>1 DEF c
        <5>2. k \in 1..Len(u)
          BY <1>1, <1>2
        <5> QED
          BY <1>2, <5>1, <5>2
      <4>2. CASE ~ (id < Known)
        <5>1. PICK k \in 1..Pending : PendingFrames[k] = timeline[i]
          BY <2>2, <4>2
        <5>2. n + k \in 1..Len(u)
          BY <1>1, <1>2
        <5> QED
          BY <1>2, <5>1, <5>2 DEF c
      <4> QED
        BY <4>1, <4>2
    <3>2. j > d
      <4> SUFFICES ASSUME ~ (j > d) PROVE FALSE
        OBVIOUS
      <4> DEFINE z == Len(u)
      <4>1. z \in Nat /\ z > MaxFrames /\ d = z - MaxFrames /\ z \in 1..z /\ j < z /\ j \in Nat
        BY SMTT(30), <1>1, <1>2, <1>5, <1>6
      <4>2. Precedes(u, j, z) /\ u[z].of \in Nat /\ u[z].of <= sessions
        BY <1>2, <4>1 DEF InOrder
      <4>3. u[j].of = sessions /\ u[j].frame.frame_id = id
        BY <1>4, <2>1, <3>1
      <4>4. u[z].of = sessions /\ id + (z - j) <= u[z].frame.frame_id
        BY <1>1, <4>2, <4>3 DEF Precedes
      <4>5. u[z].frame.frame_id < next_frame_id
        BY <1>4, <1>18, <4>1, <4>4
      <4>6. u[z].frame.frame_id \in Nat
        <5>1. u[z] \in Copy
          BY <1>2, <4>1
        <5>2. \A q \in Copy : q.frame \in Frame
          BY DEF Copy
        <5>3. \A f \in Frame : f.frame_id \in Nat
          BY DEF Frame
        <5> QED
          BY <5>1, <5>2, <5>3
      <4> DEFINE y == u[z].frame.frame_id
      <4>7. y \in Nat /\ y < next_frame_id /\ id + (z - j) <= y
        BY <4>4, <4>5, <4>6
      <4>8. id \in Nat /\ id + MaxFrames >= next_frame_id
        BY <2>1, <2>2
      <4> HIDE DEF y, z, id
      <4>9. ~ (j > z - MaxFrames)
        BY <4>1
      <4> QED
        BY <1>1, <4>1, <4>7, <4>8, <4>9
    <3>3. j - d \in 1..Len(v) /\ (j - d) + d = j
      BY <1>2, <1>5, <3>2
    <3>4. v[j - d] = u[j]
      BY <1>5, <3>3
    <3> QED
      BY <3>1, <3>3, <3>4
  <2> QED
    BY <2>3, <2>4 DEF c
<1>20. Told'
  <2>1. \A m \in lost : m \in Nat /\ m < next_frame_id
    BY <1>15, <1>16
  <2>2. \A i \in 1..Len(v) : v[i].of = session => v[i].frame.frame_id < next_frame_id
    <3>1. \A i \in 1..Len(v) : i + d \in 1..Len(u) /\ v[i] = u[i + d]
      BY <1>1, <1>2, <1>5
    <3> QED
      BY <1>18, <3>1
  <2> QED
    BY <1>8, <1>9, <1>19, <2>1, <2>2 DEF Told, CopyOf
<1>21. NothingLost'
  <2>1. Capped(frames, Copies(PendingFrames))' = frames'
    BY <1>1, <1>5, <1>8, NothingToAdd
  <2>2. lost = {} => frames' = Copies(timeline)
    BY DEF ShownInv, NothingLost
  <2>3. Copies(timeline)' = Copies(timeline)
    BY DEF Copies
  <2> QED
    BY <2>1, <2>2, <2>3 DEF NothingLost
<1> QED
  BY <1>10, <1>11, <1>20, <1>21 DEF ShownInv

\* The first document of a session arrives.
LEMMA SeedShown ==
    ASSUME IInv, ShownInv, session # NULL, Seeding, ~ Seeding', Pending = 0, Pending' = 0,
           frames' = Copies(timeline),
           UNCHANGED <<stage, timeline, next_frame_id, sessions, session, lost>>
    PROVE  ShownInv'
<1> DEFINE L == Len(timeline)
           c == Copies(timeline)
<1>1. /\ timeline \in Seq(Frame) /\ L \in Nat /\ L <= MaxFrames /\ MaxFrames \in Nat
      /\ next_frame_id \in Nat /\ session \in Nat \cup {NULL} /\ sessions \in Nat
      /\ \A i \in 1..L : timeline[i].frame_id \in Nat
  BY ShownTypes
<1>2. c \in Seq(Copy) /\ Len(c) = L /\ \A i \in 1..L : c[i] = CopyOf(timeline[i])
  BY <1>1, CopiesIndex
<1>3. session = sessions
  BY DEF ShownInv, ThreadHolds
<1>4. \A i \in 1..L : timeline[i].frame_id = next_frame_id - L + i - 1
  BY DEF ShownInv, NumberedLog
<1> HIDE DEF c, L
<1>5. \A i \in 1..L : c[i].of = sessions /\ c[i].frame = timeline[i]
  BY <1>2, <1>3 DEF CopyOf
<1>6. \A i \in 1..L : timeline[i].frame_id < next_frame_id
  BY <1>1, <1>4
<1>7. Known' = next_frame_id
  BY <1>1 DEF Known
<1>8. NumberedLog' /\ ThreadHolds'
  <2>1. NumberedLog'
    BY DEF ShownInv, NumberedLog
  <2> QED
    BY <2>1 DEF ShownInv, ThreadHolds
<1>9. Len(frames') <= MaxFrames /\ InOrder(frames)'
  <2>1. \A i \in 1..L : c[i].of \in Nat /\ c[i].of <= sessions
    BY <1>1, <1>5
  <2>2. ASSUME NEW i \in 1..L, NEW j \in 1..L, i < j
        PROVE  Precedes(c, i, j)
    <3>1. /\ c[i].of = c[j].of /\ c[i].frame.frame_id = next_frame_id - L + i - 1
          /\ c[j].frame.frame_id = next_frame_id - L + j - 1
      BY <1>4, <1>5
    <3>2. (next_frame_id - L + i - 1) + (j - i) <= next_frame_id - L + j - 1
      BY <1>1
    <3> QED
      BY <3>1, <3>2 DEF Precedes
  <2> QED
    BY <1>1, <1>2, <2>1, <2>2 DEF InOrder, Precedes, c
<1>10. lost = {}
  BY DEF ShownInv, Told
<1>11. Told'
  <2>1. \A i \in 1..L : c[i].frame.frame_id < next_frame_id
    BY <1>5, <1>6
  <2>2. \A i \in 1..L : \E k \in 1..L : c[k] = CopyOf(timeline[i])
    BY <1>2
  <2>3. frames' = c /\ Len(c) = L /\ Len(timeline') = L
    BY <1>2 DEF c, L
  <2> QED
    BY <1>7, <1>10, <2>1, <2>2, <2>3 DEF Told, CopyOf
<1>12. NothingLost'
  <2>1. frames' \in Seq(Copy) /\ Len(frames') <= MaxFrames /\ timeline' \in Seq(Frame)
    BY <1>1, <1>2 DEF c
  <2>2. Capped(frames, Copies(PendingFrames))' = frames'
    BY <2>1, NothingToAdd
  <2>3. Copies(timeline)' = Copies(timeline)
    BY DEF Copies
  <2> QED
    BY <2>2, <2>3 DEF NothingLost
<1> QED
  BY <1>8, <1>9, <1>11, <1>12 DEF ShownInv

\* The first document of a session is lost: of its frames none is shown, and all are lost.
LEMMA SeedLost ==
    ASSUME IInv, ShownInv, session # NULL, Seeding, ~ Seeding', Pending = 0, Pending' = 0,
           lost' = lost \cup IdsOf(timeline),
           UNCHANGED <<stage, timeline, next_frame_id, sessions, session, frames>>
    PROVE  ShownInv'
<1>1. /\ timeline \in Seq(Frame) /\ next_frame_id \in Nat
      /\ DOMAIN timeline = 1..Len(timeline) /\ Len(timeline) \in Nat
      /\ \A i \in 1..Len(timeline) : timeline[i].frame_id \in Nat
  BY ShownTypes
<1>2. \A i \in 1..Len(timeline) : timeline[i].frame_id < next_frame_id
  BY PendingById
<1>3. lost = {} /\ \A i \in 1..Len(frames) : frames[i].of # session
  BY DEF ShownInv, Told
<1>4. lost' = {timeline[i].frame_id : i \in 1..Len(timeline)}
  BY <1>1, <1>3 DEF IdsOf
<1>5. Known' = next_frame_id
  BY <1>1 DEF Known
<1>6. NumberedLog' /\ ThreadHolds' /\ Len(frames') <= MaxFrames /\ InOrder(frames)'
  <2>1. NumberedLog'
    BY DEF ShownInv, NumberedLog
  <2>2. ThreadHolds'
    BY DEF ShownInv, ThreadHolds
  <2> QED
    BY <2>1, <2>2 DEF ShownInv, InOrder, Precedes
<1>7. Told'
  <2>1. \A m \in lost' : m \in Nat /\ m < next_frame_id
    BY <1>1, <1>2, <1>4
  <2>2. \A i \in 1..Len(timeline) : /\ timeline[i].frame_id \in lost'
                                    /\ \A k \in 1..Len(frames) : frames[k] # CopyOf(timeline[i])
    BY <1>3, <1>4 DEF CopyOf
  <2> QED
    BY <1>3, <1>5, <2>1, <2>2 DEF Told, CopyOf
<1>8. NothingLost'
  <2>1. timeline # <<>>
    BY DEF IInv, OwnsEverySession, ShownInv, NumberedLog
  <2>2. 1 \in 1..Len(timeline)
    BY <1>1, <2>1
  <2>3. lost' # {}
    BY <1>4, <2>2
  <2> QED
    BY <2>3 DEF NothingLost
<1> QED
  BY <1>6, <1>7, <1>8 DEF ShownInv

\* A document of the pending frames is lost.
LEMMA PendingLost ==
    ASSUME IInv, ShownInv, session # NULL, ~ Seeding, ~ Seeding', Pending' = 0,
           lost' = lost \cup IdsOf(PendingFrames),
           UNCHANGED <<stage, timeline, next_frame_id, sessions, session, frames>>
    PROVE  ShownInv'
<1>1. /\ timeline \in Seq(Frame) /\ next_frame_id \in Nat /\ Pending \in Nat
      /\ Len(timeline) \in Nat /\ Known \in Int /\ Known = next_frame_id - Pending
      /\ frames \in Seq(Copy) /\ Len(frames) <= MaxFrames
      /\ \A i \in 1..Len(timeline) : timeline[i].frame_id \in Nat
      /\ \A i \in 1..Len(frames) : frames[i].frame.frame_id \in Nat
  BY ShownTypes
<1>2. /\ PendingFrames \in Seq(Frame) /\ Len(PendingFrames) = Pending
      /\ \A k \in 1..Pending : PendingFrames[k].frame_id = Known + k - 1
  BY PendingFacts
<1>3. IdsOf(PendingFrames) = {PendingFrames[k].frame_id : k \in 1..Pending}
  BY <1>2 DEF IdsOf
<1>4. \A m \in IdsOf(PendingFrames) : m \in Nat /\ m < next_frame_id /\ ~ (m < Known)
  <2>1. \A k \in 1..Pending : /\ PendingFrames[k].frame_id < next_frame_id
                              /\ ~ (PendingFrames[k].frame_id < Known)
    BY <1>1, <1>2
  <2>2. \A k \in 1..Pending : PendingFrames[k].frame_id \in Nat
    <3>1. \A f \in Frame : f.frame_id \in Nat
      BY DEF Frame
    <3> QED
      BY <1>2, <3>1
  <2> QED
    BY <1>3, <2>1, <2>2
<1>5. /\ \A i \in 1..Len(frames) : frames[i].of = session => frames[i].frame.frame_id < Known
      /\ \A m \in lost : m \in Nat /\ m < Known
      /\ \A i \in 1..Len(timeline) :
             timeline[i].frame_id < Known =>
                ((\E k \in 1..Len(frames) : frames[k] = CopyOf(timeline[i]))
                    <=> timeline[i].frame_id \notin lost)
  BY DEF ShownInv, Told
<1>6. \A x \in Int : x < Known => x < next_frame_id
  BY <1>1
<1>7. Known' = next_frame_id
  BY <1>1 DEF Known
<1>8. NumberedLog' /\ ThreadHolds' /\ Len(frames') <= MaxFrames /\ InOrder(frames)'
  <2>1. NumberedLog'
    BY DEF ShownInv, NumberedLog
  <2>2. ThreadHolds'
    BY DEF ShownInv, ThreadHolds
  <2> QED
    BY <2>1, <2>2 DEF ShownInv, InOrder, Precedes
<1>9. ASSUME NEW i \in 1..Len(timeline)
      PROVE  (\E k \in 1..Len(frames) : frames[k] = CopyOf(timeline[i]))
                 <=> timeline[i].frame_id \notin lost'
  <2>1. CASE timeline[i].frame_id < Known
    <3>1. timeline[i].frame_id \notin IdsOf(PendingFrames)
      BY <1>4, <2>1
    <3> QED
      BY <1>5, <2>1, <3>1
  <2>2. CASE ~ (timeline[i].frame_id < Known)
    <3>1. timeline[i].frame_id \in IdsOf(PendingFrames)
      BY <1>3, <2>2, PendingById
    <3>2. ASSUME NEW k \in 1..Len(frames), frames[k] = CopyOf(timeline[i])
          PROVE  FALSE
      <4>1. frames[k].of = session /\ frames[k].frame = timeline[i]
        BY <3>2 DEF CopyOf
      <4> QED
        BY <1>5, <2>2, <4>1
    <3> QED
      BY <3>1, <3>2
  <2> QED
    BY <2>1, <2>2
<1>10. Told'
  <2>1. \A m \in lost' : m \in Nat /\ m < next_frame_id
    BY <1>4, <1>5, <1>6
  <2>2. \A i \in 1..Len(frames) :
            frames[i].of = session => frames[i].frame.frame_id < next_frame_id
    BY <1>1, <1>5, <1>6
  <2> QED
    BY <1>7, <1>9, <2>1, <2>2 DEF Told, CopyOf
<1>11. NothingLost'
  <2> SUFFICES ASSUME lost' = {} PROVE Capped(frames, Copies(PendingFrames))' = Copies(timeline)'
    BY DEF NothingLost
  <2>1. lost = {} /\ IdsOf(PendingFrames) = {}
    OBVIOUS
  <2>2. Pending = 0
    <3>1. ~ (1 \in 1..Pending)
      BY <1>3, <2>1
    <3> QED
      BY <1>1, <3>1
  <2>3. Capped(frames, Copies(PendingFrames)) = Copies(timeline)
    BY <2>1 DEF ShownInv, NothingLost
  <2>4. PendingFrames' = PendingFrames
    BY <2>2 DEF PendingFrames
  <2>5. Capped(frames, Copies(PendingFrames))' = Capped(frames, Copies(PendingFrames))
    BY <2>4 DEF Capped, Copies
  <2>6. Copies(timeline)' = Copies(timeline)
    BY DEF Copies
  <2> QED
    BY <2>3, <2>5, <2>6
<1> QED
  BY <1>8, <1>10, <1>11 DEF ShownInv

\* A session is there, and no document of it yet.
LEMMA OpensShown ==
    ASSUME IInv, ShownInv, NEW next \in {"constructing", "reseeding"}, Opens(next)
    PROVE  ShownInv'
<1>1. /\ Records("created") /\ lost' = {} /\ frames' = frames /\ at' = next
      /\ sessions' = sessions + 1 /\ session' = sessions'
  BY DEF Opens, Create, shown
<1>2. /\ timeline \in Seq(Frame) /\ next_frame_id \in Nat /\ sessions \in Nat
  BY ShownTypes
<1>3. NumberedLog'
  BY <1>1, <1>2, RecordsNumbered DEF ShownInv, Kinds
<1>4. sessions' \in Nat /\ session' # NULL
  <2>1. sessions' \in Nat /\ session' = sessions'
    BY <1>1, <1>2
  <2>2. NULL \notin Nat
    BY ViewModelAssumption
  <2> QED
    BY <2>1, <2>2
<1>5. Seeding'
  BY <1>1 DEF Seeding
<1>6. \A i \in 1..Len(frames) : /\ frames[i].of \in Nat /\ frames[i].of <= sessions'
                                /\ frames[i].of # session'
  BY <1>1, <1>2 DEF ShownInv, InOrder
<1>7. ThreadHolds'
  BY <1>1, <1>4 DEF ThreadHolds
<1>8. Len(frames') <= MaxFrames /\ InOrder(frames)'
  BY <1>1, <1>6 DEF ShownInv, InOrder, Precedes
<1>9. Told'
  BY <1>1, <1>5, <1>6 DEF Told
<1>10. NothingLost'
  BY <1>5 DEF NothingLost
<1> QED
  BY <1>3, <1>7, <1>8, <1>9, <1>10 DEF ShownInv

\* Without a session there is nothing to tell of.
LEMMA NoSessionShown ==
    ASSUME ShownInv, session' = NULL, lost' = {}, at' \in {"absent", "recreating"},
           Gone \/ UNCHANGED contractvars,
           UNCHANGED <<sessions, frames>> \/ frames' = <<>>
    PROVE  ShownInv'
<1>0. Len(<<>>) = 0 /\ 0 <= MaxFrames
  <2>1. MaxFrames \in Nat
    BY ViewModelAssumption
  <2> QED
    BY <2>1
<1>1. NumberedLog'
  <2>1. CASE Gone
    <3>1. timeline' = <<>> /\ stage' = "none"
      BY <2>1 DEF Gone
    <3> QED
      BY <1>0, <3>1 DEF NumberedLog
  <2>2. CASE UNCHANGED contractvars
    BY <2>2 DEF contractvars, ShownInv, NumberedLog
  <2> QED
    BY <2>1, <2>2
<1>2. ThreadHolds' /\ ~ Seeding'
  BY DEF ThreadHolds, Seeding
<1>3. Len(frames') <= MaxFrames /\ InOrder(frames)'
  <2>1. CASE UNCHANGED <<sessions, frames>>
    BY <2>1 DEF ShownInv, InOrder, Precedes
  <2>2. CASE frames' = <<>>
    BY <1>0, <2>2 DEF InOrder
  <2> QED
    BY <2>1, <2>2
<1>4. Told' /\ NothingLost'
  BY <1>2 DEF Told, NothingLost
<1> QED
  BY <1>1, <1>2, <1>3, <1>4 DEF ShownInv

\* A step between the calls that neither the session nor what is shown notices.
LEMMA QuietShown ==
    ASSUME IInv, ShownInv, UNCHANGED contractvars, UNCHANGED <<sessions, session, frames, lost>>,
           at \in {"idle", "demo", "recreating"}, at' \in {"idle", "demo"}
    PROVE  ShownInv'
<1>1. Pending = 0 /\ Pending' = 0 /\ ~ Seeding /\ ~ Seeding'
  BY DEF Pending, Seeding
<1>2. UNCHANGED <<stage, timeline, next_frame_id>>
  BY DEF contractvars
<1> QED
  BY <1>1, <1>2, SameShown

\* A call begins or runs on: it records a frame or none.
LEMMA RunsOn ==
    ASSUME IInv, ShownInv, Proceed \/ (at \in {"idle", "demo"} /\ \E op : CallsSession(op))
    PROVE  /\ session # NULL /\ at' = "calling" /\ ~ Seeding /\ ~ Seeding'
           /\ stage # "none" /\ stage' # "none"
           /\ UNCHANGED <<sessions, session, frames, quarantined, lost>>
           /\ \/ Pending' = Pending /\ UNCHANGED <<timeline, next_frame_id>>
              \/ /\ Pending' = Pending + 1 /\ Pending' <= 3
                 /\ \E kind \in Kinds \ {"created"} : Records(kind)
<1> DEFINE None == Pending' = Pending /\ UNCHANGED <<timeline, next_frame_id>>
           One == /\ Pending' = Pending + 1 /\ Pending' <= 3
                  /\ \E kind \in Kinds \ {"created"} : Records(kind)
<1>1. {"other", "corrupted", "restored"} \subseteq Kinds \ {"created"}
  BY DEF Kinds
<1>2. recorded \in Nat
  BY ShownTypes
<1>3. CASE Proceed
  <2>1. /\ at = "calling" /\ at' = "calling" /\ stage # "none" /\ stage' # "none"
        /\ UNCHANGED <<sessions, session, frames, quarantined, lost>>
        /\ GoOn \/ End
    BY <1>3 DEF Proceed, native, shown, GoOn, End
  <2>2. session # NULL /\ Pending = recorded /\ Pending' = recorded' /\ ~ Seeding /\ ~ Seeding'
    BY <2>1 DEF ShownInv, ThreadHolds, Pending, Seeding
  <2>3. Records("other") /\ recorded' = recorded + 1 /\ recorded < 3 => One
    BY <1>1, <1>2, <2>2
  <2>4. UNCHANGED <<timeline, next_frame_id, recorded>> => None
    BY <2>2
  <2> HIDE DEF None, One
  <2>5. GoOn => One
    BY <2>3 DEF GoOn, MaxRecorded
  <2>6. RecordsFirst("other") /\ recorded = 0 => None \/ One
    BY <2>3, <2>4 DEF RecordsFirst
  <2>7. None \/ One
    BY <2>1, <2>4, <2>5, <2>6 DEF End
  <2> QED
    BY <2>1, <2>2, <2>7 DEF None, One
<1>4. ASSUME at \in {"idle", "demo"}, NEW op, CallsSession(op)
      PROVE  /\ session # NULL /\ at' = "calling" /\ ~ Seeding /\ ~ Seeding'
             /\ stage # "none" /\ stage' # "none"
             /\ UNCHANGED <<sessions, session, frames, quarantined, lost>>
             /\ None \/ One
  <2>1. /\ session # NULL /\ at' = "calling"
        /\ UNCHANGED <<sessions, session, frames, quarantined, lost>>
        /\ Begin \/ Judge \/ Corrupt \/ Restore \/ Reject
    BY <1>4 DEF CallsSession, Takes, native, shown
  <2>2. Pending = 0 /\ Pending' = recorded' /\ ~ Seeding /\ ~ Seeding'
    BY <1>4, <2>1 DEF Pending, Seeding
  <2>3. stage # "none" /\ stage' # "none"
    BY <2>1 DEF Begin, Judge, Corrupt, Restore, Reject
  <2>4. recorded' = 0 /\ UNCHANGED <<timeline, next_frame_id>> => None
    BY <2>2
  <2>5. ASSUME NEW kind \in {"other", "corrupted", "restored"}, Records(kind), recorded' = 1
        PROVE  One
    <3>1. Pending' = Pending + 1 /\ Pending' <= 3
      BY <2>2, <2>5
    <3> QED
      BY <1>1, <2>5, <3>1
  <2> HIDE DEF None, One
  <2>6. \A kind \in {"other", "corrupted", "restored"} : RecordsFirst(kind) => None \/ One
    BY <2>4, <2>5 DEF RecordsFirst
  <2>7. None \/ One
    BY <2>1, <2>4, <2>6 DEF Begin, Judge, Corrupt, Restore, Reject
  <2> QED
    BY <2>1, <2>2, <2>3, <2>7
<1> QED
  BY <1>3, <1>4

LEMMA RunsOnShown ==
    ASSUME IInv, ShownInv, Proceed \/ (at \in {"idle", "demo"} /\ \E op : CallsSession(op))
    PROVE  ShownInv'
<1>1. /\ session # NULL /\ at' = "calling" /\ ~ Seeding /\ ~ Seeding' /\ stage # "none"
      /\ UNCHANGED <<sessions, session, frames, lost>>
      /\ \/ Pending' = Pending /\ UNCHANGED <<timeline, next_frame_id>>
         \/ /\ Pending' = Pending + 1 /\ Pending' <= 3
            /\ \E kind \in Kinds \ {"created"} : Records(kind)
  BY RunsOn
<1>2. CASE Pending' = Pending /\ UNCHANGED <<timeline, next_frame_id>>
  BY <1>1, <1>2, SameShown
<1>3. CASE /\ Pending' = Pending + 1 /\ Pending' <= 3
           /\ \E kind \in Kinds \ {"created"} : Records(kind)
  BY <1>1, <1>3, RecordShown
<1> QED
  BY <1>1, <1>2, <1>3

\* What the arrival of a result adds, whether the call has recorded something or nothing.
LEMMA ConsumeAdds ==
    ASSUME IInv, ShownInv, Consume
    PROVE  /\ frames' = Capped(frames, Copies(PendingFrames))
           /\ quarantined' = FlagAfter(quarantined, PendingFrames)
<1>1. PendingFrames = Recorded
  BY DEF Consume, PendingFrames, Recorded, Pending
<1> DEFINE new == Copies(PendingFrames)
<1>2. /\ IF new = <<>> THEN frames' = frames ELSE frames' = Capped(frames, new)
      /\ quarantined' = FlagAfter(quarantined, PendingFrames)
  BY <1>1 DEF Consume
<1> HIDE DEF new
<1>3. CASE new = <<>>
  <2>1. frames \in Seq(Copy) /\ Len(frames) <= MaxFrames
    BY ShownTypes
  <2>2. frames \o <<>> = frames
    BY <2>1
  <2>3. Log!Newest(frames) = frames
    BY <2>1, NewestAll
  <2>4. frames' = Capped(frames, new)
    BY <1>2, <1>3, <2>2, <2>3 DEF Capped
  <2> QED
    BY <1>2, <2>4 DEF new
<1> QED
  BY <1>2, <1>3 DEF new

\* A call is over, its result has arrived or is lost.
LEMMA ConsumeShown ==
    ASSUME IInv, ShownInv, IInv', Consume \/ ConsumeFails
    PROVE  ShownInv'
<1>1. at = "calling" /\ at' = Rests /\ UNCHANGED contractvars /\ UNCHANGED <<sessions, session>>
  BY DEF Consume, ConsumeFails, Reports, native
<1>2. UNCHANGED <<stage, timeline, next_frame_id>>
  BY <1>1 DEF contractvars
<1>3. session # NULL /\ ~ Seeding /\ ~ Seeding' /\ Pending' = 0
  BY <1>1 DEF ShownInv, ThreadHolds, Seeding, Pending, Rests
<1>4. PendingFrames = Recorded
  BY <1>1 DEF PendingFrames, Recorded, Pending
<1>5. CASE ConsumeFails
  <2>1. lost' = lost \cup IdsOf(PendingFrames) /\ frames' = frames
    BY <1>4, <1>5 DEF ConsumeFails, Reports, shown
  <2> QED
    BY <1>1, <1>2, <1>3, <2>1, PendingLost
<1>6. CASE Consume
  <2>1. lost' = lost
    BY <1>6 DEF Consume
  <2>2. frames' = Capped(frames, Copies(PendingFrames))
    BY <1>6, ConsumeAdds
  <2> QED
    BY <1>1, <1>2, <1>3, <2>1, <2>2, ShowsPending
<1> QED
  BY <1>5, <1>6

\* A new session's first document has arrived or is lost.
LEMMA SeedsShown ==
    ASSUME IInv, ShownInv, Seed \/ SeedFails
    PROVE  ShownInv'
<1>1. at \in {"constructing", "reseeding"} /\ at' = Rests
      /\ UNCHANGED contractvars /\ UNCHANGED <<sessions, session>>
  BY DEF Seed, SeedFails, Reports, native
<1>2. UNCHANGED <<stage, timeline, next_frame_id>>
  BY <1>1 DEF contractvars
<1>3. Seeding /\ ~ Seeding' /\ Pending = 0 /\ Pending' = 0
  BY <1>1 DEF Seeding, Pending, Rests
<1>4. session # NULL
  BY <1>3 DEF ShownInv, ThreadHolds
<1>5. CASE Seed
  <2>1. frames' = Copies(timeline) /\ lost' = lost
    BY <1>5 DEF Seed, Seeds
  <2> QED
    BY <1>1, <1>2, <1>3, <1>4, <2>1, SeedShown
<1>6. CASE SeedFails
  <2>1. frames' = frames /\ lost' = lost \cup IdsOf(timeline)
    BY <1>6 DEF SeedFails, Reports, shown
  <2> QED
    BY <1>1, <1>2, <1>3, <1>4, <2>1, SeedLost
<1> QED
  BY <1>5, <1>6

\* The session goes, with the process or without it.
LEMMA LeavesShown ==
    ASSUME ShownInv, Clear \/ Crashes \/ \E steps : Reset(steps)
    PROVE  ShownInv'
<1>1. CASE Crashes
  <2>1. session' = NULL /\ lost' = {} /\ at' = "absent" /\ Gone /\ frames' = <<>>
    BY <1>1 DEF Crashes
  <2> QED
    BY <2>1, NoSessionShown
<1>2. CASE Clear
  <2>1. session' = NULL /\ lost' = {} /\ at' = "absent" /\ frames' = <<>>
    BY <1>2 DEF Clear, ClosesSession
  <2>2. Gone \/ UNCHANGED contractvars
    BY <1>2 DEF Clear, DestroysSession, Destroy
  <2> QED
    BY <2>1, <2>2, NoSessionShown
<1>3. CASE \E steps : Reset(steps)
  <2>1. /\ session' = NULL /\ lost' = {} /\ at' = "recreating"
        /\ UNCHANGED <<sessions, frames>>
    BY <1>3 DEF Reset, ClosesSession, shown
  <2>2. Gone \/ UNCHANGED contractvars
    BY <1>3 DEF Reset, DestroysSession, Destroy
  <2> QED
    BY <2>1, <2>2, NoSessionShown
<1> QED
  BY <1>1, <1>2, <1>3

LEMMA ShownStep == IInv /\ ShownInv /\ [Next]_vars => ShownInv'
<1> SUFFICES ASSUME IInv, ShownInv, [Next]_vars PROVE ShownInv'
  OBVIOUS
<1>0. IInv'
  BY StepKeeps
<1> DEFINE quiet == /\ UNCHANGED contractvars /\ UNCHANGED <<sessions, session, frames, lost>>
                    /\ at \in {"idle", "demo", "recreating"} /\ at' \in {"idle", "demo"}
<1>1. CASE quiet
  BY <1>1, QuietShown
<1>2. CASE Construct \/ Recreate
  BY <1>2, OpensShown DEF Construct, Recreate
<1>3. CASE Clear \/ Reset(NULL) \/ Reset(0)
  BY <1>3, LeavesShown
<1>4. CASE ConstructFails \/ OutOfJavaHeap
  BY <1>4, LeavesShown DEF ConstructFails, OutOfJavaHeap
<1>5. CASE Seed \/ SeedFails
  BY <1>5, SeedsShown
<1>6. CASE Proceed
  BY <1>6, RunsOnShown
<1>7. CASE Consume \/ ConsumeFails
  BY <1>0, <1>7, ConsumeShown
<1>8. CASE \E op \in Ops : Call(op)
  <2>1. PICK op \in Ops : at = "idle" /\ (CallsNothing \/ CallsSession(op))
    BY <1>8 DEF Call
  <2>2. CallsNothing => quiet
    BY <2>1 DEF CallsNothing, Reports, NoSession, shown, native, Rests
  <2> QED
    BY <1>1, <2>1, <2>2, RunsOnShown
<1>9. CASE DemoCall
  <2>1. at = "demo" /\ (quiet \/ CallsSession(Demo[demo + 1]))
    BY <1>9 DEF DemoCall, NoSession, shown, native
  <2> QED
    BY <1>1, <2>1, RunsOnShown
<1>10. CASE RecreateFails \/ DemoEnds
  <2>1. quiet
    BY <1>10 DEF RecreateFails, DemoEnds, Reports, NoSession, shown, native, Rests
  <2> QED
    BY <1>1, <2>1
<1>11. CASE SelectLive \/ \E i \in DOMAIN frames : SelectFrame(i)
  <2>1. quiet
    BY <1>11 DEF SelectLive, SelectFrame, NoSession, native
  <2> QED
    BY <1>1, <2>1
<1>12. CASE UNCHANGED vars
  <2>1. /\ UNCHANGED <<stage, timeline, next_frame_id, recorded>>
        /\ UNCHANGED <<sessions, session, frames, lost, at>>
    BY <1>12 DEF vars, shown, native, contractvars
  <2>2. Pending' = Pending /\ (Seeding' <=> Seeding)
    BY <2>1 DEF Pending, Seeding
  <2>3. at' = "calling" => session # NULL
    BY <2>1 DEF ShownInv, ThreadHolds
  <2> QED
    BY <2>1, <2>2, <2>3, SameShown
<1> HIDE DEF quiet
<1> QED
  BY <1>2, <1>3, <1>4, <1>5, <1>6, <1>7, <1>8, <1>9, <1>10, <1>11, <1>12
  DEF Next, User, GoesOn

LEMMA ShownInit == Init => ShownInv
<1> SUFFICES ASSUME Init PROVE ShownInv
  OBVIOUS
<1>1. /\ stage = "none" /\ timeline = <<>> /\ at = "absent" /\ session = NULL
      /\ frames = <<>> /\ lost = {}
  BY DEF Init, ContractInit
<1>2. Len(<<>>) = 0 /\ 0 <= MaxFrames
  <2>1. MaxFrames \in Nat
    BY ViewModelAssumption
  <2> QED
    BY <2>1
<1>3. ~ Seeding
  BY <1>1 DEF Seeding
<1>4. NumberedLog /\ ThreadHolds
  BY <1>1, <1>2, <1>3 DEF NumberedLog, ThreadHolds
<1>5. Len(frames) <= MaxFrames /\ InOrder(frames)
  BY <1>1, <1>2 DEF InOrder
<1>6. Told /\ NothingLost
  BY <1>1, <1>3 DEF Told, NothingLost
<1> QED
  BY <1>4, <1>5, <1>6 DEF ShownInv

-----------------------------------------------------------------------------

\* InspectorViewModel.kt:107-127: between calls the view model shows the frames that the
\* session retains, copied as they were and in the order in which they were recorded, but
\* for those whose document was lost, and those it does not show; so as long as no document
\* was lost its frames are the session's.
THEOREM ReceivedIsShown == Spec => []ShowsWhatItReceived
<1>1. IInv /\ ShownInv => ShowsWhatItReceived
  <2> SUFFICES ASSUME IInv, ShownInv PROVE ShowsWhatItReceived
    OBVIOUS
  <2>1. /\ timeline \in Seq(Frame) /\ frames \in Seq(Copy) /\ Len(frames) <= MaxFrames
        /\ next_frame_id \in Nat
        /\ \A i \in 1..Len(frames) : frames[i].frame.frame_id \in Nat /\ frames[i].of \in Nat
    BY ShownTypes
  <2>2. DOMAIN frames = 1..Len(frames) /\ DOMAIN timeline = 1..Len(timeline)
        /\ Len(frames) \in Nat
    BY <2>1
  <2>3. ASSUME NEW i \in 1..Len(frames), NEW j \in 1..Len(frames), i < j,
               ~ (frames[i].of < frames[j].of)
        PROVE  /\ frames[i].of = frames[j].of
               /\ frames[i].frame.frame_id < frames[j].frame.frame_id
    <3> DEFINE a == frames[i].frame.frame_id
               b == frames[j].frame.frame_id
    <3>1. a \in Nat /\ b \in Nat
      BY <2>1
    <3>2. frames[i].of = frames[j].of /\ a + (j - i) <= b
      BY <2>3 DEF ShownInv, InOrder, Precedes
    <3> HIDE DEF a, b
    <3>3. a < b
      BY <2>2, <2>3, <3>1, <3>2
    <3> QED
      BY <3>2, <3>3 DEF a, b
  <2>4. ASSUME Resting, session # NULL
        PROVE  /\ \A i \in DOMAIN timeline :
                     [frame |-> timeline[i], of |-> session] \in ToSet(frames)
                         <=> timeline[i].frame_id \notin lost
               /\ lost = {} => frames = Copies(timeline)
    <3>1. Pending = 0 /\ ~ Seeding
      BY <2>4 DEF Resting, Pending, Seeding
    <3>2. Known = next_frame_id
      BY <2>1, <3>1 DEF Known
    <3>3. \A i \in 1..Len(timeline) : timeline[i].frame_id < Known
      BY <3>2, PendingById
    <3>4. \A i \in 1..Len(timeline) :
             (\E k \in 1..Len(frames) : frames[k] = [frame |-> timeline[i], of |-> session])
                 <=> timeline[i].frame_id \notin lost
      BY <2>4, <3>1, <3>3 DEF ShownInv, Told, CopyOf
    <3>5. ToSet(frames) = {frames[k] : k \in 1..Len(frames)}
      BY <2>2 DEF ToSet
    <3>6. Capped(frames, Copies(PendingFrames)) = frames
      <4>1. PendingFrames = <<>>
        BY <3>1, PendingFacts
      <4>2. Copies(PendingFrames) = <<>>
        BY <4>1 DEF Copies
      <4>3. frames \o <<>> = frames /\ Log!Newest(frames) = frames
        BY <2>1, NewestAll
      <4> QED
        BY <4>2, <4>3 DEF Capped
    <3> QED
      BY <2>2, <2>4, <3>1, <3>4, <3>5, <3>6 DEF ShownInv, NothingLost
  <2> QED
    BY <2>2, <2>3, <2>4 DEF ShowsWhatItReceived
<1> QED
  BY <1>1, InitHolds, StepKeeps, ShownInit, ShownStep, PTL DEF Spec

-----------------------------------------------------------------------------
(* The flag is what the frames tell. *)

\* What one frame makes of the flag.
Turn(flag, frame) ==
    CASE frame.payload = "corrupted" -> TRUE
      [] frame.payload = "restored"  -> FALSE
      [] OTHER -> flag

\* The largest of at most three positions.
LEMMA LargestOfThree ==
    ASSUME NEW n \in 0..3, NEW s \in SUBSET (1..n), s # {}
    PROVE  Max(s) \in s /\ \A y \in s : y <= Max(s)
<1> DEFINE P(x) == x \in s /\ \A y \in s : x >= y
<1>1. s \subseteq {1, 2, 3}
  OBVIOUS
<1>2. \E x : P(x)
  <2>1. CASE 3 \in s
    <3>1. P(3)
      BY <1>1, <2>1
    <3> QED
      BY <3>1
  <2>2. CASE 3 \notin s /\ 2 \in s
    <3>1. P(2)
      BY <1>1, <2>2
    <3> QED
      BY <3>1
  <2>3. CASE 3 \notin s /\ 2 \notin s
    <3>0. PICK x \in s : TRUE
      OBVIOUS
    <3>1. x = 1 /\ \A y \in s : y = 1
      BY <1>1, <2>3
    <3>2. P(1)
      BY <3>1
    <3> QED
      BY <3>2
  <2> QED
    BY <2>1, <2>2, <2>3
<1>3. Max(s) = CHOOSE x \in s : \A y \in s : x >= y
  BY DEF Max
<1>4. Max(s) \in s /\ \A y \in s : Max(s) >= y
  BY <1>2, <1>3
<1> QED
  BY <1>1, <1>4

\* The flag after the first frames of a result, for each number of them.
FoldsTo(f, flag, new, n) ==
    /\ FlagAfter(flag, new) = f[1..n]
    /\ f[{}] = flag
    /\ \A k \in 1..n : f[1..k] = Turn(f[1..(k-1)], new[k])

\* The fold of a result goes frame by frame; a result has three at most.
LEMMA FoldThree ==
    ASSUME NEW flag, NEW new, NEW n \in 0..3, DOMAIN new = 1..n
    PROVE  \E f : FoldsTo(f, flag, new, n)
<1> DEFINE S == 1..n
           Body(f) == [s \in SUBSET S |->
                IF s = {} THEN flag ELSE Turn(f[s \ {Max(s)}], new[Max(s)])]
           iter == CHOOSE f : f = Body(f)
<1>1. FlagAfter(flag, new) = iter[S]
  BY DEF FlagAfter, FoldLeft, MapThenFoldSet, Turn
<1> DEFINE One(s) == IF 1 \in s THEN Turn(flag, new[1]) ELSE flag
           Two(s) == IF 2 \in s THEN Turn(One(s), new[2]) ELSE One(s)
           All(s) == IF 3 \in s THEN Turn(Two(s), new[3]) ELSE Two(s)
           g == [s \in SUBSET S |-> All(s)]
<1>2. g = Body(g)
  <2>1. ASSUME NEW s \in SUBSET S
        PROVE  All(s) = IF s = {} THEN flag ELSE Turn(All(s \ {Max(s)}), new[Max(s)])
    <3>1. CASE s = {}
      BY <3>1
    <3>2. CASE s # {}
      <4> DEFINE x == Max(s)
      <4>1. x \in s /\ \A y \in s : y <= x
        BY <3>2, LargestOfThree
      <4> HIDE DEF x
      <4>2. x \in {1, 2, 3}
        BY <4>1
      <4>3. CASE x = 1
        <5>1. 1 \in s /\ 2 \notin s /\ 3 \notin s
          BY <4>1, <4>3
        <5> QED
          BY <3>2, <4>3, <5>1 DEF x
      <4>4. CASE x = 2
        <5>1. 2 \in s /\ 3 \notin s
          BY <4>1, <4>4
        <5> QED
          BY <3>2, <4>4, <5>1 DEF x
      <4>5. CASE x = 3
        <5>1. 3 \in s
          BY <4>1, <4>5
        <5> QED
          BY <3>2, <4>5, <5>1 DEF x
      <4> QED
        BY <4>2, <4>3, <4>4, <4>5
    <3> QED
      BY <3>1, <3>2
  <2> HIDE DEF All
  <2>2. \A s \in SUBSET S : g[s] = All(s) /\ s \ {Max(s)} \in SUBSET S
    OBVIOUS
  <2>3. \A s \in SUBSET S :
           g[s] = IF s = {} THEN flag ELSE Turn(g[s \ {Max(s)}], new[Max(s)])
    BY <2>1, <2>2
  <2> QED
    BY <2>3
<1>3. iter = Body(iter)
  BY <1>2
<1> HIDE DEF iter, g, All
<1>4. \A s \in SUBSET S : iter[s] = IF s = {} THEN flag ELSE Turn(iter[s \ {Max(s)}], new[Max(s)])
  BY <1>3
<1>5. iter[{}] = flag
  BY <1>4
<1>6. ASSUME NEW k \in 1..n
      PROVE  iter[1..k] = Turn(iter[1..(k-1)], new[k])
  <2>1. k \in 0..3 /\ 1..k \in SUBSET (1..k) /\ k \in 1..k /\ 1..k # {} /\ 1..k \in SUBSET S
    OBVIOUS
  <2>2. Max(1..k) \in 1..k /\ \A y \in 1..k : y <= Max(1..k)
    BY <2>1, LargestOfThree
  <2>3. Max(1..k) = k
    BY <2>1, <2>2
  <2>4. (1..k) \ {k} = 1..(k-1)
    OBVIOUS
  <2> QED
    BY <1>4, <2>1, <2>3, <2>4
<1> QED
  BY <1>1, <1>5, <1>6 DEF FoldsTo

Changes(frame) == frame.payload \in {"corrupted", "restored"}

\* The flag after frames of which the newest change is the m-th, or without a change.
Decided(flag, after, new, n) ==
    \/ after = flag /\ \A k \in 1..n : ~ Changes(new[k])
    \/ \E m \in 1..n : /\ Changes(new[m]) /\ \A k \in 1..n : Changes(new[k]) => k <= m
                       /\ after = (new[m].payload = "corrupted")

\* The newest change among the frames of a result decides the flag.
LEMMA FlagAfterTells ==
    ASSUME NEW flag \in BOOLEAN, NEW new, NEW n \in 0..3, DOMAIN new = 1..n
    PROVE  FlagAfter(flag, new) \in BOOLEAN /\ Decided(flag, FlagAfter(flag, new), new, n)
<1>0. PICK f : FoldsTo(f, flag, new, n)
  BY FoldThree
<1>1. /\ FlagAfter(flag, new) = f[1..n]
      /\ f[{}] = flag
      /\ \A k \in 1..n : f[1..k] = Turn(f[1..(k-1)], new[k])
  BY <1>0 DEF FoldsTo
<1> DEFINE Q(k) == f[1..k] \in BOOLEAN /\ Decided(flag, f[1..k], new, k)
<1>2. Q(0)
  <2>1. 1..0 = {}
    OBVIOUS
  <2> QED
    BY <1>1, <2>1 DEF Decided
<1>3. ASSUME NEW k \in 1..n, Q(k - 1)
      PROVE  Q(k)
  <2> DEFINE a == f[1..(k-1)]
             b == f[1..k]
  <2>1. b = Turn(a, new[k]) /\ a \in BOOLEAN /\ Decided(flag, a, new, k - 1)
    BY <1>1, <1>3
  <2> HIDE DEF a, b
  <2>2. \A i \in 1..k : i = k \/ i \in 1..(k - 1)
    OBVIOUS
  <2>3. \A i \in 1..(k - 1) : i \in 1..k
    OBVIOUS
  <2>4. k \in 1..k /\ \A i \in 1..k : i <= k
    OBVIOUS
  <2>5. CASE Changes(new[k])
    <3>1. b = (new[k].payload = "corrupted")
      <4>1. CASE new[k].payload = "corrupted"
        BY <2>1, <4>1 DEF Turn
      <4>2. CASE new[k].payload = "restored"
        BY <2>1, <4>2 DEF Turn
      <4> QED
        BY <2>5, <4>1, <4>2 DEF Changes
    <3>2. b \in BOOLEAN
      BY <3>1
    <3>3. Decided(flag, b, new, k)
      BY <2>4, <2>5, <3>1 DEF Decided
    <3> QED
      BY <3>2, <3>3 DEF b
  <2>6. CASE ~ Changes(new[k])
    <3>1. b = a
      BY <2>1, <2>6 DEF Turn, Changes
    <3>2. Decided(flag, b, new, k)
      <4>1. CASE a = flag /\ \A i \in 1..(k - 1) : ~ Changes(new[i])
        BY <2>2, <2>6, <3>1, <4>1 DEF Decided
      <4>2. ASSUME NEW m \in 1..(k - 1), Changes(new[m]),
                   \A i \in 1..(k - 1) : Changes(new[i]) => i <= m,
                   a = (new[m].payload = "corrupted")
            PROVE  Decided(flag, b, new, k)
        <5>1. \A i \in 1..k : Changes(new[i]) => i <= m
          BY <2>2, <2>6, <4>2
        <5> QED
          BY <2>3, <3>1, <4>2, <5>1 DEF Decided
      <4> QED
        BY <2>1, <4>1, <4>2 DEF Decided
    <3> QED
      BY <2>1, <3>1, <3>2 DEF b
  <2> QED
    BY <2>5, <2>6
<1> HIDE DEF Q
<1>4. n = 0 => Q(n)
  BY <1>2
<1>5. n >= 1 => Q(1)
  BY <1>2, <1>3
<1>6. n >= 2 => Q(2)
  BY <1>3, <1>5
<1>7. n >= 3 => Q(3)
  BY <1>3, <1>6
<1>8. Q(n)
  BY <1>4, <1>5, <1>6, <1>7
<1> QED
  BY <1>1, <1>8 DEF Q

\* The flag and the frames that are shown, at every point of a call.
FlagOf(flag, fs) ==
    /\ flag \in BOOLEAN
    /\ \A i \in 1..Len(fs) : fs[i].frame.payload = "created" => i = 1
    /\ \/ /\ \A i \in 1..Len(fs) : ~ Changes(fs[i].frame)
          /\ fs # <<>> /\ fs[1].frame.payload = "created" => flag = FALSE
       \/ \E m \in 1..Len(fs) :
             /\ Changes(fs[m].frame)
             /\ \A i \in 1..Len(fs) : Changes(fs[i].frame) => i <= m
             /\ flag = (fs[m].frame.payload = "corrupted")

\* Only the first frame of a session tells of its creation, and its document is the first.
CreatedFirst ==
    /\ stage = "none" => timeline = <<>> /\ next_frame_id = 1
    /\ Seeding => Len(timeline) = 1 /\ timeline[1].payload = "created"
    /\ \A i \in 1..Len(timeline) :
          timeline[i].payload = "created" => timeline[i].frame_id = 1
    /\ session # NULL => Known >= 2

FlagInv == CreatedFirst /\ FlagOf(quarantined, frames)

\* A step after which the log is the same and no less of it is known.
LEMMA SameLog ==
    ASSUME IInv, ShownInv, CreatedFirst, UNCHANGED <<stage, timeline, next_frame_id, session>>,
           Seeding' => Seeding, Pending' = Pending \/ Pending' = 0
    PROVE  CreatedFirst'
<1>1. next_frame_id \in Nat /\ Pending \in Nat
  BY ShownTypes
<1>2. session # NULL => Known' >= 2
  BY <1>1 DEF CreatedFirst, Known
<1> QED
  BY <1>2 DEF CreatedFirst

\* A frame more, of anything but a creation.
LEMMA MoreLog ==
    ASSUME IInv, ShownInv, CreatedFirst, NEW kind \in Kinds \ {"created"}, Records(kind),
           session' = session, session # NULL, stage' # "none", ~ Seeding', Pending' = Pending + 1
    PROVE  CreatedFirst'
<1> DEFINE h == Longer(kind)
           L == Len(timeline)
           d == Dropped(h)
           m == Len(timeline')
<1>1. /\ timeline \in Seq(Frame) /\ L \in Nat /\ next_frame_id \in Nat /\ Pending \in Nat
  BY ShownTypes
<1>2. /\ h[L + 1] = [frame_id |-> next_frame_id, payload |-> kind]
      /\ \A i \in 1..L : h[i] = timeline[i]
      /\ d \in Nat /\ next_frame_id' = next_frame_id + 1
      /\ m = L + 1 - d /\ m \in Nat
      /\ \A i \in 1..m : timeline'[i] = h[i + d]
  BY <1>1, RecordsNumbered DEF ShownInv
<1>3. h[L + 1].payload # "created"
  BY <1>2
<1> HIDE DEF h, d, m, L
<1>4. ASSUME NEW i \in 1..m, timeline'[i].payload = "created"
      PROVE  timeline'[i].frame_id = 1
  <2>1. timeline'[i] = h[i + d] /\ i + d # L + 1
    BY <1>2, <1>3, <1>4
  <2>2. i + d \in 1..L
    BY <1>1, <1>2, <2>1
  <2>3. timeline'[i] = timeline[i + d]
    BY <1>2, <2>1, <2>2
  <2> QED
    BY <1>4, <2>2, <2>3 DEF CreatedFirst, L
<1>5. Known' = Known
  BY <1>1, <1>2 DEF Known
<1> QED
  BY <1>4, <1>5 DEF CreatedFirst, m

\* A session is there, with the frame of its creation.
LEMMA OpensLog ==
    ASSUME IInv, ShownInv, CreatedFirst, NEW next \in {"constructing", "reseeding"}, Opens(next)
    PROVE  CreatedFirst'
<1> DEFINE x == [frame_id |-> next_frame_id, payload |-> "created"]
<1>1. timeline = <<>> /\ next_frame_id = 1 /\ stage' = "idle" /\ Records("created") /\ at' = next
  BY DEF Opens, Create, CreatedFirst
<1>2. MaxFrames \in Nat /\ MaxFrames >= 3
  BY ViewModelAssumption DEF MaxRecorded
<1>3. timeline' = Log!Newest(Append(timeline, x)) /\ next_frame_id' = 2
  BY <1>1 DEF Records, Log!Appended
<1>4. Append(timeline, x) = <<x>> /\ Len(<<x>>) = 1 /\ <<x>>[1] = x
  BY <1>1
<1> HIDE DEF x
<1>5. timeline' = <<x>>
  BY <1>2, <1>3, <1>4 DEF Log!Newest
<1>6. x.payload = "created" /\ x.frame_id = 1
  BY <1>1 DEF x
<1>7. Known' = 2
  BY <1>1, <1>3 DEF Known, Pending
<1> QED
  BY <1>1, <1>4, <1>5, <1>6, <1>7 DEF CreatedFirst

LEMMA NoSessionLog ==
    ASSUME IInv, CreatedFirst, Clear \/ Crashes \/ \E steps : Reset(steps)
    PROVE  CreatedFirst'
<1>1. session' = NULL /\ at' \in {"absent", "recreating"}
  BY DEF Clear, Crashes, Reset, ClosesSession
<1>2. ~ Seeding'
  BY <1>1 DEF Seeding
<1>3. CASE Gone
  <2>1. timeline' = <<>> /\ next_frame_id' = 1 /\ Len(<<>>) = 0
    BY <1>3 DEF Gone
  <2>2. \A i \in 1..Len(timeline') : FALSE
    BY <2>1
  <2> QED
    BY <1>1, <1>2, <2>1, <2>2 DEF CreatedFirst
<1>4. CASE UNCHANGED contractvars
  <2>1. UNCHANGED <<stage, timeline, next_frame_id>>
    BY <1>4 DEF contractvars
  <2> QED
    BY <1>1, <1>2, <2>1 DEF CreatedFirst
<1> QED
  BY <1>3, <1>4 DEF Clear, Crashes, Reset, DestroysSession, Destroy

\* A result's frames are added to those shown, and its changes to the flag.
LEMMA FlagConsumed ==
    ASSUME IInv, ShownInv, FlagInv, Consume
    PROVE  FlagOf(quarantined', frames')
<1> DEFINE n == Len(frames)
           p == PendingFrames
           P == Pending
           u == frames \o Copies(p)
           v == Log!Newest(u)
           d == Dropped(u)
           a == FlagAfter(quarantined, p)
<1>0. session # NULL /\ ~ Seeding
  BY DEF Consume, ShownInv, ThreadHolds, Seeding
<1>1. /\ n \in Nat /\ n <= MaxFrames /\ MaxFrames \in Nat /\ MaxFrames >= 3
      /\ P \in Nat /\ P <= 3 /\ P <= Len(timeline) /\ Len(timeline) \in Nat
      /\ Known \in Int /\ frames \in Seq(Copy)
  BY ShownTypes
<1>2. frames' = v /\ quarantined' = a
  BY ConsumeAdds DEF Capped
<1>3. /\ u \in Seq(Copy) /\ Len(u) = n + P
      /\ \A i \in 1..n : u[i] = frames[i]
      /\ \A k \in 1..P : u[n + k] = CopyOf(p[k]) /\ p[k].frame_id = Known + k - 1
  BY <1>0, AddedInOrder
<1>4. /\ p \in Seq(Frame) /\ Len(p) = P
      /\ \A k \in 1..P : p[k] = timeline[Len(timeline) - P + k]
  BY PendingFacts
<1>5. /\ d \in Nat /\ v \in Seq(Copy) /\ Len(v) = Len(u) - d
      /\ \A i \in 1..(Len(u) - d) : v[i] = u[i + d]
      /\ d = IF Len(u) <= MaxFrames THEN 0 ELSE Len(u) - MaxFrames
  BY <1>3, NewestIndex DEF Dropped
<1>6. a \in BOOLEAN /\ Decided(quarantined, a, p, P)
  <2>1. P \in 0..3 /\ DOMAIN p = 1..P /\ quarantined \in BOOLEAN
    BY <1>1, <1>4 DEF FlagInv, FlagOf
  <2> HIDE DEF p, P
  <2> QED
    BY <2>1, FlagAfterTells
<1>f. \A f : CopyOf(f).frame = f
  BY DEF CopyOf
<1> HIDE DEF u, v, d, a, p, P, n
<1>7. \A k \in 1..P : u[n + k].frame = p[k]
  BY <1>3, <1>f
<1>d. d \in Nat
  BY <1>5
<1>8. d <= n /\ Len(v) = n + P - d
  BY <1>1, <1>3, <1>5
<1>b. n \in Nat /\ P \in Nat /\ d \in Nat /\ d <= n /\ Len(v) = n + P - d
  BY <1>1, <1>d, <1>8
<1>9. \A k \in 1..P : p[k].payload # "created"
  <2> SUFFICES ASSUME NEW k \in 1..P, p[k].payload = "created" PROVE FALSE
    OBVIOUS
  <2>1. Len(timeline) - P + k \in 1..Len(timeline)
    BY <1>1
  <2>2. p[k].frame_id = 1
    BY <1>4, <2>1 DEF FlagInv, CreatedFirst
  <2>3. p[k].frame_id = Known + k - 1 /\ Known >= 2
    BY <1>0, <1>3 DEF FlagInv, CreatedFirst
  <2> QED
    BY <1>1, <2>2, <2>3
<1> DEFINE w(i) == u[i].frame
<1>10. /\ \A i \in 1..(n + P) : i \in 1..n \/ (i - n \in 1..P /\ i = n + (i - n))
       /\ \A i \in 1..n : w(i) = frames[i].frame
       /\ \A k \in 1..P : w(n + k) = p[k]
  BY <1>1, <1>3, <1>7
<1>11. \A i \in 1..Len(v) : i + d \in 1..(n + P) /\ v[i].frame = w(i + d)
  <2>1. \A i \in 1..Len(v) : i + d \in 1..(n + P) /\ i \in 1..(Len(u) - d)
    BY <1>1, <1>3, <1>5, <1>8
  <2> QED
    BY <1>5, <2>1
<1> HIDE DEF w
<1>a. ASSUME NEW i \in 1..Len(v)
      PROVE  \/ i + d \in 1..n /\ v[i].frame = frames[i + d].frame
             \/ \E k \in 1..P : i + d = n + k /\ v[i].frame = p[k]
  <2>1. CASE i + d \in 1..n
    BY <1>10, <1>11, <2>1
  <2>2. CASE ~ (i + d \in 1..n)
    <3>1. i + d \in 1..(n + P) /\ v[i].frame = w(i + d)
      BY <1>11
    <3>2. i + d - n \in 1..P /\ i + d = n + (i + d - n)
      BY <1>1, <1>d, <2>2, <3>1
    <3> QED
      BY <1>10, <3>1, <3>2
  <2> QED
    BY <2>1, <2>2
<1>12. ASSUME NEW i \in 1..Len(v), v[i].frame.payload = "created"
       PROVE  i = 1 /\ d = 0 /\ n # 0 /\ frames[1].frame.payload = "created"
  <2>1. i + d \in 1..n
    BY <1>9, <1>12, <1>a
  <2>2. frames[i + d].frame.payload = "created"
    BY <1>9, <1>12, <1>a
  <2>3. i + d = 1
    BY <2>1, <2>2 DEF FlagInv, FlagOf, n
  <2>4. i = 1 /\ d = 0
    BY <1>5, <1>8, <1>1, <2>3
  <2> QED
    BY <1>1, <2>1, <2>2, <2>4
<1> DEFINE NoneIn == \A i \in 1..Len(v) : ~ Changes(v[i].frame)
           NewestIn(m) == /\ m \in 1..Len(v) /\ Changes(v[m].frame)
                          /\ \A i \in 1..Len(v) : Changes(v[i].frame) => i <= m
                          /\ a = (v[m].frame.payload = "corrupted")
<1>13. CASE \E m \in 1..P : /\ Changes(p[m]) /\ \A k \in 1..P : Changes(p[k]) => k <= m
                            /\ a = (p[m].payload = "corrupted")
  <2>1. PICK m \in 1..P : /\ Changes(p[m]) /\ \A k \in 1..P : Changes(p[k]) => k <= m
                          /\ a = (p[m].payload = "corrupted")
    BY <1>13
  <2> DEFINE M == n + m - d
  <2>2. M \in 1..Len(v) /\ M + d = n + m
    BY <1>b
  <2>3. v[M].frame = p[m]
    BY <1>10, <1>11, <2>2
  <2>4. ASSUME NEW i \in 1..Len(v), Changes(v[i].frame)
        PROVE  i <= M
    <3>1. CASE i + d \in 1..n
      BY <1>b, <3>1
    <3>2. ASSUME NEW k \in 1..P, i + d = n + k, v[i].frame = p[k]
          PROVE  i <= M
      <4>1. k <= m
        BY <2>1, <2>4, <3>2
      <4> QED
        BY <1>b, <3>2, <4>1
    <3> QED
      BY <1>a, <3>1, <3>2
  <2> HIDE DEF M
  <2>5. NewestIn(M)
    BY <2>1, <2>2, <2>3, <2>4
  <2> QED
    BY <1>2, <1>6, <1>12, <2>5 DEF FlagOf
<1>14. CASE a = quarantined /\ \A k \in 1..P : ~ Changes(p[k])
  <2>1. \A i \in 1..Len(v) : Changes(v[i].frame) => i + d \in 1..n /\ Changes(frames[i + d].frame)
    BY <1>10, <1>11, <1>14
  <2>2. CASE /\ \A i \in 1..n : ~ Changes(frames[i].frame)
             /\ frames # <<>> /\ frames[1].frame.payload = "created" => quarantined = FALSE
    <3>1. NoneIn
      BY <2>1, <2>2
    <3>2. v # <<>> /\ v[1].frame.payload = "created" => a = FALSE
      <4> SUFFICES ASSUME v # <<>>, v[1].frame.payload = "created" PROVE a = FALSE
        OBVIOUS
      <4>1. 1 \in 1..Len(v)
        BY <1>5
      <4>2. frames # <<>> /\ frames[1].frame.payload = "created"
        <5>1. n # 0 /\ frames[1].frame.payload = "created"
          BY <1>12, <4>1
        <5> QED
          BY <5>1 DEF n
      <4> QED
        BY <1>14, <2>2, <4>2
    <3> QED
      BY <1>2, <1>6, <1>12, <3>1, <3>2 DEF FlagOf
  <2>3. ASSUME NEW m \in 1..n, Changes(frames[m].frame),
               \A i \in 1..n : Changes(frames[i].frame) => i <= m,
               quarantined = (frames[m].frame.payload = "corrupted")
        PROVE  FlagOf(quarantined', frames')
    <3>1. CASE m > d
      <4> DEFINE M == m - d
      <4>1. M \in 1..Len(v) /\ M + d = m
        BY <1>b, <3>1
      <4>2. v[M].frame = frames[m].frame
        BY <1>10, <1>11, <4>1
      <4>3. \A i \in 1..Len(v) : Changes(v[i].frame) => i <= M
        <5> SUFFICES ASSUME NEW i \in 1..Len(v), Changes(v[i].frame) PROVE i <= M
          OBVIOUS
        <5>1. i + d <= m
          BY <2>1, <2>3
        <5> QED
          BY <1>b, <5>1
      <4> HIDE DEF M
      <4>4. NewestIn(M)
        BY <1>14, <2>3, <4>1, <4>2, <4>3
      <4> QED
        BY <1>2, <1>6, <1>12, <4>4 DEF FlagOf
    <3>2. CASE ~ (m > d)
      <4>1. NoneIn
        <5> SUFFICES ASSUME NEW i \in 1..Len(v), Changes(v[i].frame) PROVE FALSE
          OBVIOUS
        <5>1. i + d <= m
          BY <2>1, <2>3
        <5> QED
          BY <1>b, <3>2, <5>1
      <4>2. ~ (v # <<>> /\ v[1].frame.payload = "created")
        <5> SUFFICES ASSUME v # <<>>, v[1].frame.payload = "created" PROVE FALSE
          OBVIOUS
        <5>1. 1 \in 1..Len(v)
          BY <1>5
        <5>2. d = 0
          BY <1>12, <5>1
        <5> QED
          BY <1>b, <3>2, <5>2
      <4> QED
        BY <1>2, <1>6, <1>12, <4>1, <4>2 DEF FlagOf
    <3> QED
      BY <3>1, <3>2
  <2> QED
    BY <2>2, <2>3 DEF FlagInv, FlagOf, n
<1> QED
  BY <1>6, <1>13, <1>14 DEF Decided

LEMMA FlagSeeded ==
    ASSUME IInv, ShownInv, FlagInv, Seed
    PROVE  FlagOf(quarantined', frames')
<1>1. /\ timeline \in Seq(Frame) /\ Len(timeline) = 1 /\ timeline[1].payload = "created"
      /\ session \in Nat \cup {NULL}
  BY ShownTypes DEF Seed, Seeding, FlagInv, CreatedFirst
<1>2. frames' = Copies(timeline) /\ quarantined' = FALSE
  BY DEF Seed, Seeds
<1>3. Len(Copies(timeline)) = 1 /\ Copies(timeline)[1] = CopyOf(timeline[1])
  BY <1>1, CopiesIndex
<1>4. frames'[1].frame.payload = "created" /\ ~ Changes(frames'[1].frame) /\ Len(frames') = 1
  BY <1>1, <1>2, <1>3 DEF CopyOf, Changes
<1>5. \A i \in 1..1 : i = 1
  OBVIOUS
<1> QED
  BY <1>2, <1>4, <1>5 DEF FlagOf

LEMMA FlagCleared ==
    ASSUME quarantined' = FALSE, frames' = <<>>
    PROVE  FlagOf(quarantined', frames')
<1>1. \A i \in 1..Len(<<>>) : FALSE
  OBVIOUS
<1> QED
  BY <1>1 DEF FlagOf

LEMMA FlagStep == IInv /\ ShownInv /\ FlagInv /\ [Next]_vars => FlagInv'
<1> SUFFICES ASSUME IInv, ShownInv, FlagInv, [Next]_vars PROVE FlagInv'
  OBVIOUS
<1> USE DEF FlagInv
<1>0. UNCHANGED <<frames, quarantined>> => FlagOf(quarantined', frames')
  OBVIOUS
<1> DEFINE quiet == /\ UNCHANGED <<stage, timeline, next_frame_id, session, frames, quarantined>>
                    /\ Seeding' => Seeding
                    /\ Pending' = Pending \/ Pending' = 0
<1>1. CASE quiet
  BY <1>0, <1>1, SameLog
<1>2. CASE Construct \/ Recreate
  <2>1. PICK next \in {"constructing", "reseeding"} : Opens(next)
    BY <1>2 DEF Construct, Recreate
  <2>2. UNCHANGED <<frames, quarantined>>
    BY <2>1 DEF Opens, shown
  <2> QED
    BY <1>0, <2>1, <2>2, OpensLog
<1>3. CASE Clear \/ ConstructFails \/ OutOfJavaHeap
  <2>1. Clear \/ Crashes
    BY <1>3 DEF ConstructFails, OutOfJavaHeap
  <2>2. frames' = <<>> /\ quarantined' = FALSE
    BY <2>1 DEF Clear, Crashes
  <2> QED
    BY <2>1, <2>2, NoSessionLog, FlagCleared
<1>4. CASE Reset(NULL) \/ Reset(0)
  <2>1. UNCHANGED <<frames, quarantined>>
    BY <1>4 DEF Reset, shown
  <2> QED
    BY <1>0, <1>4, <2>1, NoSessionLog
<1>5. CASE Seed
  <2>1. /\ UNCHANGED <<stage, timeline, next_frame_id, session>> /\ ~ Seeding' /\ Pending' = 0
    BY <1>5 DEF Seed, contractvars, Seeding, Pending, Rests
  <2> QED
    BY <1>5, <2>1, SameLog, FlagSeeded
<1>6. CASE Consume
  <2>1. /\ UNCHANGED <<stage, timeline, next_frame_id, session>> /\ ~ Seeding' /\ Pending' = 0
    BY <1>6 DEF Consume, contractvars, Seeding, Pending, Rests
  <2> QED
    BY <1>6, <2>1, SameLog, FlagConsumed
<1>7. CASE Proceed \/ (at \in {"idle", "demo"} /\ \E op : CallsSession(op))
  <2>1. /\ session # NULL /\ ~ Seeding' /\ stage' # "none" /\ stage # "none"
        /\ UNCHANGED <<session, frames, quarantined>>
        /\ \/ Pending' = Pending /\ UNCHANGED <<timeline, next_frame_id>>
           \/ /\ Pending' = Pending + 1
              /\ \E kind \in Kinds \ {"created"} : Records(kind)
    BY <1>7, RunsOn
  <2>2. CASE Pending' = Pending /\ UNCHANGED <<timeline, next_frame_id>>
    <3>1. session # NULL => Known' >= 2
      BY <2>2 DEF CreatedFirst, Known
    <3>2. CreatedFirst'
      BY <2>1, <2>2, <3>1 DEF CreatedFirst
    <3> QED
      BY <1>0, <2>1, <3>2
  <2>3. CASE Pending' = Pending + 1 /\ \E kind \in Kinds \ {"created"} : Records(kind)
    BY <1>0, <2>1, <2>3, MoreLog
  <2> QED
    BY <2>1, <2>2, <2>3
<1>8. CASE SeedFails \/ ConsumeFails \/ RecreateFails \/ DemoEnds
  <2>1. quiet
    BY <1>8 DEF SeedFails, ConsumeFails, RecreateFails, DemoEnds, Reports, NoSession, shown,
                contractvars, Seeding, Pending, Rests
  <2> QED
    BY <1>1, <2>1
<1>9. CASE \E op \in Ops : Call(op)
  <2>1. PICK op \in Ops : at = "idle" /\ (CallsNothing \/ CallsSession(op))
    BY <1>9 DEF Call
  <2>2. CallsNothing => quiet
    BY <2>1 DEF CallsNothing, Reports, NoSession, shown, contractvars, Seeding, Pending, Rests
  <2> QED
    BY <1>1, <1>7, <2>1, <2>2
<1>10. CASE DemoCall
  <2>1. at = "demo" /\ (quiet \/ CallsSession(Demo[demo + 1]))
    BY <1>10 DEF DemoCall, NoSession, shown, contractvars, Seeding, Pending
  <2> QED
    BY <1>1, <1>7, <2>1
<1>11. CASE SelectLive \/ \E i \in DOMAIN frames : SelectFrame(i)
  <2>1. quiet
    BY <1>11 DEF SelectLive, SelectFrame, NoSession, contractvars, Seeding, Pending
  <2> QED
    BY <1>1, <2>1
<1>12. CASE UNCHANGED vars
  <2>1. quiet
    BY <1>12 DEF vars, shown, contractvars, native, Seeding, Pending
  <2> QED
    BY <1>1, <2>1
<1> HIDE DEF quiet, FlagInv
<1> QED
  BY <1>2, <1>3, <1>4, <1>5, <1>6, <1>7, <1>8, <1>9, <1>10, <1>11, <1>12
  DEF Next, User, GoesOn

LEMMA FlagInit == Init => FlagInv
<1> SUFFICES ASSUME Init PROVE FlagInv
  OBVIOUS
<1>1. /\ stage = "none" /\ timeline = <<>> /\ next_frame_id = 1 /\ at = "absent"
      /\ session = NULL /\ frames = <<>> /\ quarantined = FALSE
  BY DEF Init, ContractInit
<1>2. \A i \in 1..Len(<<>>) : FALSE
  OBVIOUS
<1>3. CreatedFirst
  BY <1>1, <1>2 DEF CreatedFirst, Seeding
<1>4. FlagOf(quarantined, frames)
  BY <1>1, <1>2 DEF FlagOf
<1> QED
  BY <1>3, <1>4 DEF FlagInv

\* InspectorViewModel.kt:107-127 and 87-105: the flag is what the newest corruption or
\* restoration among the frames shown tells, and clear as long as they begin with the
\* creation of their session and tell of no change, whatever of a result or a reset fails.
THEOREM FlagIsTold == Spec => []FlagTellsTheFrames
<1>1. IInv /\ ShownInv /\ FlagInv => FlagTellsTheFrames
  <2> SUFFICES ASSUME IInv, ShownInv, FlagInv PROVE FlagTellsTheFrames
    OBVIOUS
  <2> DEFINE changes == {i \in DOMAIN frames : frames[i].frame.payload \in {"corrupted", "restored"}}
  <2>1. frames \in Seq(Copy) /\ DOMAIN frames = 1..Len(frames) /\ Len(frames) \in Nat
    BY ShownTypes
  <2>2. \A i \in 1..Len(frames) : i \in changes <=> Changes(frames[i].frame)
    BY <2>1 DEF Changes
  <2>3. changes \subseteq 1..Len(frames)
    BY <2>1
  <2> HIDE DEF changes
  <2>4. CASE /\ \A i \in 1..Len(frames) : ~ Changes(frames[i].frame)
             /\ frames # <<>> /\ frames[1].frame.payload = "created" => quarantined = FALSE
    <3>1. changes = {}
      BY <2>2, <2>3, <2>4
    <3> QED
      BY <2>4, <3>1 DEF FlagTellsTheFrames, changes
  <2>5. ASSUME NEW m \in 1..Len(frames), Changes(frames[m].frame),
               \A i \in 1..Len(frames) : Changes(frames[i].frame) => i <= m,
               quarantined = (frames[m].frame.payload = "corrupted")
        PROVE  FlagTellsTheFrames
    <3>1. m \in changes /\ \A i \in changes : m >= i
      BY <2>1, <2>2, <2>3, <2>5
    <3>2. \A x \in changes : (\A i \in changes : x >= i) => x = m
      BY <2>1, <2>3, <3>1
    <3>3. Max(changes) = m
      BY <3>1, <3>2 DEF Max
    <3> QED
      BY <2>5, <3>1, <3>3 DEF FlagTellsTheFrames, changes
  <2> QED
    BY <2>4, <2>5 DEF FlagInv, FlagOf
<1> QED
  BY <1>1, InitHolds, StepKeeps, ShownInit, ShownStep, FlagInit, FlagStep, PTL DEF Spec

-----------------------------------------------------------------------------
(* The keys of the rows. *)

AllOf(fs, s) == \A i \in 1..Len(fs) : fs[i].of = s

\* The frames shown are of one session, the one that is held if its frames have been seeded.
OneSession ==
    /\ \E s \in Nat \cup {NULL} : AllOf(frames, s)
    /\ at = "recreating" => session = NULL
    /\ session # NULL /\ at \in {"idle", "demo", "calling"} => AllOf(frames, session)

LEMMA NoneIsOf == ASSUME NEW s PROVE AllOf(<<>>, s)
  BY DEF AllOf

\* What a call adds to the frames of its session is of that session.
LEMMA ConsumeOfOne ==
    ASSUME IInv, ShownInv, AllOf(frames, session), Consume
    PROVE  AllOf(frames', session)
<1> DEFINE n == Len(frames)
           p == PendingFrames
           P == Pending
           u == frames \o Copies(p)
           v == Log!Newest(u)
           d == Dropped(u)
<1>1. session # NULL /\ ~ Seeding
  BY DEF Consume, ShownInv, ThreadHolds, Seeding
<1>2. n \in Nat /\ P \in Nat /\ \A k \in 1..P : CopyOf(p[k]).of = session
  BY ShownTypes DEF CopyOf
<1>3. frames' = v
  BY ConsumeAdds DEF Capped
<1>4. /\ u \in Seq(Copy) /\ Len(u) = n + P
      /\ \A i \in 1..n : u[i] = frames[i]
      /\ \A k \in 1..P : u[n + k] = CopyOf(p[k])
  BY <1>1, AddedInOrder
<1>5. /\ d \in Nat /\ Len(v) = Len(u) - d
      /\ \A i \in 1..(Len(u) - d) : v[i] = u[i + d]
  BY <1>4, NewestIndex DEF Dropped
<1>6. \A i \in 1..n : u[i].of = session
  BY <1>4 DEF AllOf
<1>7. \A k \in 1..P : u[n + k].of = session
  BY <1>2, <1>4
<1> HIDE DEF n, p, P, u, v, d
<1>8. \A i \in 1..(n + P) : u[i].of = session
  <2> TAKE i \in 1..(n + P)
  <2>1. CASE i \in 1..n
    BY <1>6, <2>1
  <2>2. CASE i \notin 1..n
    <3>1. i - n \in 1..P /\ i = n + (i - n)
      BY <1>2, <2>2
    <3> QED
      BY <1>7, <3>1
  <2> QED
    BY <2>1, <2>2
<1>9. \A i \in 1..Len(v) : i + d \in 1..(n + P) /\ i \in 1..(Len(u) - d)
  BY <1>2, <1>4, <1>5
<1> QED
  BY <1>3, <1>5, <1>8, <1>9 DEF AllOf

LEMMA OneSessionStep ==
    ASSUME "encode" \notin Faults, IInv, ShownInv, OneSession, [Next]_vars
    PROVE  OneSession'
<1>1. session \in Nat \cup {NULL}
  BY ShownTypes
<1>2. ASSUME UNCHANGED <<frames, session>>,
             at' \in {"idle", "demo", "calling"} =>
                 at \in {"idle", "demo", "calling"} \/ session = NULL,
             at' = "recreating" => session = NULL
      PROVE  OneSession'
  BY <1>2 DEF OneSession
<1>3. ASSUME frames' = <<>>, session' = NULL PROVE OneSession'
  BY <1>3, NoneIsOf DEF OneSession
<1>4. CASE Construct \/ Recreate
  BY <1>4 DEF Construct, Recreate, Opens, shown, OneSession
<1>5. CASE Reset(NULL) \/ Reset(0)
  BY <1>5 DEF Reset, ClosesSession, shown, OneSession
<1>6. CASE Clear \/ ConstructFails \/ OutOfJavaHeap
  BY <1>3, <1>6 DEF Clear, ClosesSession, ConstructFails, OutOfJavaHeap, Crashes
<1>7. CASE Seed
  <2>1. frames' = Copies(timeline) /\ session' = session /\ at' \in {"idle", "demo"}
    BY <1>7 DEF Seed, Seeds, native, Rests
  <2>2. Len(Copies(timeline)) = Len(timeline)
        /\ \A i \in 1..Len(timeline) : Copies(timeline)[i].of = session
    <3>1. timeline \in Seq(Frame)
      BY ShownTypes
    <3>2. Len(Copies(timeline)) = Len(timeline)
          /\ \A i \in 1..Len(timeline) : Copies(timeline)[i] = CopyOf(timeline[i])
      BY <1>1, <3>1, CopiesIndex
    <3>3. \A f : CopyOf(f).of = session
      BY DEF CopyOf
    <3> QED
      BY <3>2, <3>3
  <2>3. AllOf(frames', session)
    BY <2>1, <2>2 DEF AllOf
  <2> QED
    BY <1>1, <2>1, <2>3 DEF OneSession
<1>8. CASE Consume
  <2>1. session # NULL /\ session' = session /\ at = "calling" /\ at' \in {"idle", "demo"}
    BY <1>8 DEF Consume, native, Rests, ShownInv, ThreadHolds
  <2>2. AllOf(frames', session)
    BY <1>8, <2>1, ConsumeOfOne DEF OneSession
  <2> QED
    BY <1>1, <2>1, <2>2 DEF OneSession
<1>9. CASE SeedFails \/ ConsumeFails
  BY <1>9 DEF SeedFails, ConsumeFails
<1>10. CASE RecreateFails
  <2>1. at = "recreating" /\ UNCHANGED <<frames, session>> /\ at' \in {"idle", "demo"}
    BY <1>10 DEF RecreateFails, Reports, Rests, shown, native
  <2> QED
    BY <1>2, <2>1 DEF OneSession
<1>11. CASE \E op \in Ops : Call(op)
  <2>1. at = "idle" /\ UNCHANGED <<frames, session>> /\ at' \in {"idle", "demo", "calling"}
    BY <1>11 DEF Call, CallsNothing, CallsSession, Reports, Rests, shown, native
  <2> QED
    BY <1>2, <2>1
<1>12. CASE Proceed \/ DemoCall \/ DemoEnds \/ SelectLive \/ \E i \in DOMAIN frames : SelectFrame(i)
  <2>1. /\ at \in {"calling", "demo", "idle"} /\ UNCHANGED <<frames, session>>
        /\ at' \in {"idle", "demo", "calling"}
    BY <1>12 DEF Proceed, DemoCall, DemoEnds, SelectLive, SelectFrame, CallsSession, NoSession,
                 shown, native
  <2> QED
    BY <1>2, <2>1
<1>13. CASE UNCHANGED vars
  BY <1>2, <1>13 DEF vars, shown, native, OneSession
<1> QED
  BY <1>4, <1>5, <1>6, <1>7, <1>8, <1>9, <1>10, <1>11, <1>12, <1>13 DEF Next, User, GoesOn

LEMMA KeysOfOneSession == ASSUME IInv, ShownInv, OneSession PROVE RowKeysAreUnique
<1>1. /\ DOMAIN frames = 1..Len(frames) /\ Len(frames) \in Nat
      /\ \A i \in 1..Len(frames) : frames[i].frame.frame_id \in Nat /\ frames[i].of \in Nat
  BY ShownTypes
<1>2. \A i, j \in 1..Len(frames) : frames[i].of = frames[j].of
  BY DEF OneSession, AllOf
<1>3. \A i, j \in 1..Len(frames) :
          i < j => frames[i].frame.frame_id + (j - i) <= frames[j].frame.frame_id
  BY <1>1, <1>2 DEF ShownInv, InOrder, Precedes
<1>4. ASSUME NEW i \in 1..Len(frames), NEW j \in 1..Len(frames),
             frames[i].frame.frame_id = frames[j].frame.frame_id, i # j
      PROVE  FALSE
  <2> DEFINE x == frames[i].frame.frame_id
             y == frames[j].frame.frame_id
  <2>1. x \in Nat /\ y \in Nat /\ x = y /\ i \in Int /\ j \in Int
        /\ (i < j => x + (j - i) <= y) /\ (j < i => y + (i - j) <= x)
    BY <1>1, <1>3, <1>4
  <2> HIDE DEF x, y
  <2> QED
    BY <1>4, <2>1
<1> QED
  BY <1>1, <1>4 DEF RowKeysAreUnique

\* Two rows share a key only after a document was lost: as long as every encoding reaches the
\* view model, frames of two sessions are never shown together, whatever else fails of a
\* reset, a call or the demo, and the ids of one session differ (MainActivity.kt:211,
\* InspectorViewModel.kt:87-105).
THEOREM RowKeysNeedALoss ==
    ASSUME "encode" \notin Faults
    PROVE  Spec => []RowKeysAreUnique
<1>1. Init => OneSession
  BY NoneIsOf DEF Init, OneSession
<1>2. IInv /\ ShownInv /\ OneSession /\ [Next]_vars => OneSession'
  BY OneSessionStep
<1>3. IInv /\ ShownInv /\ OneSession => RowKeysAreUnique
  BY KeysOfOneSession
<1> QED
  BY <1>1, <1>2, <1>3, InitHolds, StepKeeps, ShownInit, ShownStep, PTL DEF Spec

=============================================================================
