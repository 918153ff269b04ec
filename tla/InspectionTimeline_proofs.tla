---------------------- MODULE InspectionTimeline_proofs ----------------------
(* Proofs about InspectionTimeline, for every number of slots: what is in the  *)
(* ring, and that it implements BoundedLog.                                    *)
EXTENDS InspectionTimeline, TLAPS, SequenceTheorems

\* A sum of two positions of the ring goes around it once at most.
LEMMA WrapAround ==
    ASSUME NEW n \in Nat \ {0}, NEW x \in 0..(2 * n - 1)
    PROVE  x % n = IF x < n THEN x ELSE x - n
<1>1. CASE x < n
  BY <1>1, SMT
<1>2. CASE x >= n
  <2>1. (x - n) \in 0..(n - 1)
    BY <1>2
  <2>2. x = n * 1 + (x - n)
    BY <2>1
  <2> QED
    BY <1>2, <2>1, <2>2, SMT
<1> QED
  BY <1>1, <1>2

\* The slot of a position, counted from a head.
Wrap(h, i) == (h + i) % MaxFrames

\* From the head h on the positions are the slots, each of them once.
Around(h) ==
    /\ \A i \in 0..MaxFrames :
          Wrap(h, i) = IF h + i < MaxFrames THEN h + i ELSE h + i - MaxFrames
    /\ \A i \in 0..MaxFrames : Wrap(h, i) \in Slots
    /\ \A i, j \in 0..(MaxFrames - 1) : Wrap(h, i) = Wrap(h, j) => i = j
    /\ \A t \in Slots : \E i \in 0..(MaxFrames - 1) : t = Wrap(h, i)

\* It is so from every head.
LEMMA SlotFacts == ASSUME NEW h \in Slots PROVE Around(h)
<1>1. MaxFrames \in Nat \ {0} /\ h \in Nat /\ h < MaxFrames
  BY RingAssumption DEF Slots
<1>2. \A i \in 0..MaxFrames :
         Wrap(h, i) = IF h + i < MaxFrames THEN h + i ELSE h + i - MaxFrames
  <2> TAKE i \in 0..MaxFrames
  <2> DEFINE x == h + i
  <2>1. x \in 0..(2 * MaxFrames - 1)
    BY <1>1
  <2>2. Wrap(h, i) = x % MaxFrames
    BY DEF Wrap
  <2>3. x % MaxFrames = IF x < MaxFrames THEN x ELSE x - MaxFrames
    <3> HIDE DEF x
    <3> QED
      BY <1>1, <2>1, WrapAround, Zenon
  <2>4. Wrap(h, i) = IF x < MaxFrames THEN x ELSE x - MaxFrames
    <3> HIDE DEF x
    <3> QED
      BY <2>2, <2>3, Zenon
  <2> QED
    BY <1>1, <2>4
<1>3. \A i \in 0..MaxFrames : Wrap(h, i) \in Slots
  BY <1>1, <1>2 DEF Slots
<1>4. \A i, j \in 0..(MaxFrames - 1) : Wrap(h, i) = Wrap(h, j) => i = j
  BY <1>1, <1>2
<1>5. ASSUME NEW t \in Slots PROVE \E i \in 0..(MaxFrames - 1) : t = Wrap(h, i)
  <2>1. CASE t >= h
    <3>1. t - h \in 0..(MaxFrames - 1) /\ h + (t - h) = t
      BY <2>1, <1>1 DEF Slots
    <3>2. Wrap(h, t - h) = t
      BY <3>1, <1>1, <1>2 DEF Slots
    <3> QED
      BY <3>1, <3>2
  <2>2. CASE t < h
    <3>1. t - h + MaxFrames \in 0..(MaxFrames - 1) /\ h + (t - h + MaxFrames) = t + MaxFrames
      BY <2>2, <1>1 DEF Slots
    <3>2. Wrap(h, t - h + MaxFrames) = t
      BY <3>1, <1>1, <1>2 DEF Slots
    <3> QED
      BY <3>1, <3>2
  <2> QED
    BY <2>1, <2>2, <1>1 DEF Slots
<1> QED
  BY <1>2, <1>3, <1>4, <1>5 DEF Around

\* One position from a head.
LEMMA PositionAt ==
    ASSUME NEW h \in Slots, NEW i \in 0..MaxFrames
    PROVE  Wrap(h, i) = IF h + i < MaxFrames THEN h + i ELSE h + i - MaxFrames
BY SlotFacts DEF Around

\* Before and after a step.
LEMMA SlotIsWrap ==
    /\ \A i : SlotOf(i) = Wrap(head, i)
    /\ \A i : SlotOf(i)' = Wrap(head', i)
BY DEF SlotOf, Wrap

\* The inductive invariant: without a timeline no snapshot is in flight.
IInv ==
    /\ TypeOK
    /\ FramesInOrder
    /\ SnapshotsHaveOneOwner
    /\ (~ Exists => owned = NULL)

LEMMA InitStep == Init => IInv
<1> SUFFICES ASSUME Init PROVE IInv
  OBVIOUS
<1>1. /\ frames = [s \in Slots |-> NULL] /\ head = 0 /\ count = 0 /\ next_frame_id = 0
      /\ owned = NULL /\ heap = {}
  BY DEF Init
<1>2. TypeOK
  BY <1>1, RingAssumption DEF TypeOK, Slots
<1>3. FramesInOrder
  <2>0. Around(head) /\ 0..(MaxFrames - 1) \subseteq 0..MaxFrames
    BY <1>2, SlotFacts, RingAssumption DEF TypeOK
  <2>1. \A i \in 0..(MaxFrames - 1) : SlotOf(i) \in Slots
    BY <2>0, SlotIsWrap DEF Around
  <2> QED
    BY <1>1, <2>1 DEF FramesInOrder
<1>4. SnapshotsHaveOneOwner
  BY <1>1 DEF SnapshotsHaveOneOwner
<1> QED
  BY <1>1, <1>2, <1>3, <1>4 DEF IInv, Exists

\* Where an append puts its frame, and the positions that the others have after it: the same
\* in a ring with room, one less in a full one.
LEMMA AppendPlaces ==
    ASSUME IInv, NEW e \in Events, AppendFrame(e)
    PROVE  /\ NewFrame(e) \in Frame /\ owned \in Snapshots /\ next_frame_id > 0
           /\ SlotOf(count) \in Slots /\ (Full => SlotOf(count) = head)
           /\ frames' = [frames EXCEPT ![SlotOf(count)] = NewFrame(e)]
           /\ head' \in Slots /\ count' = IF Full THEN MaxFrames ELSE count + 1
           /\ Wrap(head', count' - 1) = SlotOf(count)
           /\ ~ Full => \A i \in 0..(MaxFrames - 1) :
                          /\ SlotOf(i)' = SlotOf(i) /\ SlotOf(i) \in Slots
                          /\ i # count => SlotOf(i) # SlotOf(count)
           /\ Full => \A i \in 0..(MaxFrames - 2) :
                          /\ SlotOf(i)' = SlotOf(i + 1) /\ SlotOf(i + 1) \in Slots
                          /\ SlotOf(i + 1) # SlotOf(count)
<1> DEFINE s == SlotOf(count)
<1>1. /\ owned # NULL
      /\ frames' = [frames EXCEPT ![(HeadLeft + CountLeft) % MaxFrames] = NewFrame(e)]
      /\ head' = HeadLeft /\ count' = CountLeft + 1
  BY DEF AppendFrame
<1>2. /\ MaxFrames \in Nat \ {0}
      /\ head \in Slots /\ head \in Nat /\ head < MaxFrames
      /\ count \in 0..MaxFrames /\ next_frame_id \in 0..IdMax
      /\ owned \in Snapshots /\ next_frame_id > 0
  BY <1>1, RingAssumption DEF IInv, TypeOK, Exists, Slots
<1>0. Around(head)
  BY <1>2, SlotFacts
<1>3. s \in Slots
  BY <1>2, <1>0, SlotIsWrap DEF Around
<1>4. NewFrame(e) \in Frame
  BY <1>2 DEF NewFrame, Frame
<1>5. CASE ~ Full
  <2>1. head' = head /\ count' = count + 1 /\ count \in 0..(MaxFrames - 1)
    BY <1>5, <1>1, <1>2 DEF HeadLeft, CountLeft, Full
  <2>2. \A i \in 0..(MaxFrames - 1) :
           /\ SlotOf(i)' = SlotOf(i) /\ SlotOf(i) \in Slots
           /\ i # count => SlotOf(i) # s
    BY <2>1, <1>2, <1>0, SlotIsWrap DEF Around
  <2>3. frames' = [frames EXCEPT ![s] = NewFrame(e)]
    BY <1>5, <1>1, SlotIsWrap DEF HeadLeft, CountLeft, Wrap
  <2>4. Wrap(head', count' - 1) = s
    <3>1. count' - 1 = count
      BY <2>1
    <3> QED
      BY <3>1, <2>1, SlotIsWrap
  <2> HIDE DEF s
  <2>5. SlotOf(count) = s
    BY DEF s
  <2> QED
    BY <1>2, <1>3, <1>4, <1>5, <2>1, <2>2, <2>3, <2>4, <2>5
<1>6. CASE Full
  <2>1. /\ count = MaxFrames /\ count' = MaxFrames
        /\ head' = Wrap(head, 1) /\ HeadLeft = head' /\ CountLeft = MaxFrames - 1
    BY <1>6, <1>1, <1>2 DEF HeadLeft, CountLeft, Full, Wrap
  <2>2. s = head
    BY <2>1, <1>2, <1>0, SlotIsWrap DEF Around
  <2>3. head' = IF head + 1 < MaxFrames THEN head + 1 ELSE 0
    BY <2>1, <1>2, <1>0 DEF Around
  <2>4. head' \in Slots /\ head' \in Nat /\ head' < MaxFrames
    BY <2>3, <1>2 DEF Slots
  <2>5. \A i \in 0..(MaxFrames - 1) :
           Wrap(head', i) = IF head' + i < MaxFrames THEN head' + i ELSE head' + i - MaxFrames
    <3> TAKE i \in 0..(MaxFrames - 1)
    <3>1. i \in 0..MaxFrames
      BY <1>2
    <3> QED
      BY <3>1, <2>4, PositionAt, Zenon
  <2>6. \A i \in 0..(MaxFrames - 2) :
           SlotOf(i)' = SlotOf(i + 1) /\ SlotOf(i + 1) \in Slots /\ SlotOf(i + 1) # s
    <3> TAKE i \in 0..(MaxFrames - 2)
    <3>1. Wrap(head, i + 1) = IF head + (i + 1) < MaxFrames THEN head + (i + 1)
                                           ELSE head + (i + 1) - MaxFrames
      BY <1>2, <1>0 DEF Around
    <3>2. Wrap(head', i) = IF head' + i < MaxFrames THEN head' + i ELSE head' + i - MaxFrames
      BY <2>5, <1>2
    <3> QED
      BY <3>1, <3>2, <2>2, <2>3, <2>4, <1>2, SlotIsWrap DEF Slots
  <2>7. Wrap(head', MaxFrames - 1) = s
    BY <2>2, <2>3, <2>4, <2>5, <1>2
  <2>8. Wrap(head', count' - 1) = s
    BY <2>1, <2>7, SlotIsWrap
  <2>9. frames' = [frames EXCEPT ![s] = NewFrame(e)]
    <3>1. (HeadLeft + CountLeft) % MaxFrames = Wrap(head', MaxFrames - 1)
      BY <2>1 DEF Wrap
    <3> QED
      BY <3>1, <2>7, <1>1
  <2>10. SlotOf(count) = s
    OBVIOUS
  <2> HIDE DEF s
  <2> QED
    BY <1>2, <1>3, <1>4, <1>6, <2>1, <2>2, <2>4, <2>6, <2>8, <2>9, <2>10
<1> QED
  BY <1>5, <1>6

\* An append, in a ring with room and in a full one.
LEMMA AppendFrameStep == ASSUME IInv, NEW e \in Events, AppendFrame(e) PROVE IInv'
<1> DEFINE s == SlotOf(count)
<1>1. /\ owned # NULL /\ next_frame_id # IdMax /\ owned' = NULL
      /\ next_frame_id' = next_frame_id + 1
      /\ heap' = heap \ ReleasedSnapshots
  BY DEF AppendFrame
<1>2. /\ MaxFrames \in Nat \ {0} /\ IdMax \in Nat \ {0}
      /\ frames \in [Slots -> Frame \cup {NULL}]
      /\ head \in Slots /\ count \in 0..MaxFrames /\ next_frame_id \in 0..IdMax
      /\ owned \in Snapshots /\ heap \subseteq Snapshots
      /\ next_frame_id > 0
  BY <1>1, RingAssumption DEF IInv, TypeOK, Exists
<1>3. /\ s \in Slots /\ (Full => s = head)
      /\ frames' = [frames EXCEPT ![s] = NewFrame(e)] /\ NewFrame(e) \in Frame
      /\ head' \in Slots /\ count' = IF Full THEN MaxFrames ELSE count + 1
      /\ Wrap(head', count' - 1) = s
  BY AppendPlaces
<1>4. NewFrame(e) # NULL /\ NewFrame(e).snapshot = owned /\ NewFrame(e).frame_id = next_frame_id
  BY <1>3, NullAssumption DEF NewFrame
<1>5. /\ frames' \in [Slots -> Frame \cup {NULL}]
      /\ frames'[s] = NewFrame(e) /\ \A t \in Slots \ {s} : frames'[t] = frames[t]
  BY <1>2, <1>3
<1>6. TypeOK'
  BY <1>1, <1>2, <1>3, <1>5 DEF TypeOK, Full
<1>7. FramesInOrder'
  <2>1. CASE ~ Full
    <3>1. count' = count + 1 /\ count \in 0..(MaxFrames - 1)
      BY <2>1, <1>2, <1>3 DEF Full
    <3>2. \A i \in 0..(MaxFrames - 1) :
             /\ SlotOf(i)' = SlotOf(i) /\ SlotOf(i) \in Slots
             /\ i # count => SlotOf(i) # s
      BY <2>1, AppendPlaces
    <3> HIDE DEF s
    <3>3. \A i \in 0..(count - 1) : frames[SlotOf(i)] # NULL
             /\ frames[SlotOf(i)].frame_id + count = next_frame_id + i
             /\ frames[SlotOf(i)].frame_id \in Nat
      BY <3>1, <3>2, <1>2 DEF IInv, FramesInOrder, Frame
    <3>4. ASSUME NEW i \in 0..(count' - 1)
          PROVE  /\ frames'[SlotOf(i)'] # NULL
                 /\ frames'[SlotOf(i)'].frame_id + count' = next_frame_id' + i
      <4>1. CASE i = count
        BY <4>1, <3>1, <3>2, <1>1, <1>2, <1>4, <1>5 DEF s
      <4>2. CASE i # count
        <5>1. i \in 0..(count - 1) /\ i \in 0..(MaxFrames - 1)
          BY <4>2, <3>1, <1>2
        <5>2. frames'[SlotOf(i)'] = frames[SlotOf(i)]
          BY <5>1, <4>2, <3>2, <1>5
        <5> QED
          BY <5>1, <5>2, <3>1, <3>3, <1>1, <1>2
      <4> QED
        BY <4>1, <4>2
    <3>5. \A i \in count'..(MaxFrames - 1) : frames'[SlotOf(i)'] = NULL
      BY <3>1, <3>2, <1>2, <1>5 DEF IInv, FramesInOrder
    <3>6. count' < MaxFrames => next_frame_id' <= count' + 1
      BY <3>1, <1>1, <1>2 DEF IInv, FramesInOrder
    <3> QED
      BY <3>4, <3>5, <3>6 DEF FramesInOrder
  <2>2. CASE Full
    <3>1. count' = MaxFrames /\ count = MaxFrames /\ SlotOf(MaxFrames - 1)' = s
      BY <2>2, <1>3, SlotIsWrap DEF Full
    <3>2. \A i \in 0..(MaxFrames - 2) :
             /\ SlotOf(i)' = SlotOf(i + 1) /\ SlotOf(i + 1) \in Slots /\ SlotOf(i + 1) # s
      BY <2>2, AppendPlaces
    <3> HIDE DEF s
    <3>3. \A i \in 0..(MaxFrames - 1) : frames[SlotOf(i)] # NULL
             /\ frames[SlotOf(i)].frame_id + MaxFrames = next_frame_id + i
      BY <3>1 DEF IInv, FramesInOrder
    <3>4. ASSUME NEW i \in 0..(count' - 1)
          PROVE  /\ frames'[SlotOf(i)'] # NULL
                 /\ frames'[SlotOf(i)'].frame_id + count' = next_frame_id' + i
      <4>1. CASE i = MaxFrames - 1
        <5>1. frames'[SlotOf(i)'] = NewFrame(e)
          BY <4>1, <3>1, <1>5
        <5> QED
          BY <5>1, <4>1, <3>1, <1>1, <1>2, <1>4
      <4>2. CASE i # MaxFrames - 1
        <5>1. i \in 0..(MaxFrames - 2) /\ i + 1 \in 0..(MaxFrames - 1)
          BY <4>2, <3>1, <1>2
        <5>2. frames'[SlotOf(i)'] = frames[SlotOf(i + 1)]
          BY <5>1, <3>2, <1>5
        <5>3. /\ frames[SlotOf(i + 1)] # NULL
              /\ frames[SlotOf(i + 1)].frame_id + MaxFrames = next_frame_id + (i + 1)
          BY <5>1, <3>3
        <5>4. frames[SlotOf(i + 1)].frame_id \in Nat
          BY <5>1, <5>3, <3>2, <1>2 DEF Frame
        <5> QED
          BY <5>1, <5>2, <5>3, <5>4, <3>1, <1>1, <1>2
      <4> QED
        BY <4>1, <4>2
    <3> QED
      BY <3>1, <3>4, <1>2 DEF FramesInOrder
  <2> QED
    BY <2>1, <2>2
<1> HIDE DEF s
<1>8. SnapshotsHaveOneOwner'
  <2> DEFINE frozen == {t \in Slots : frames[t] # NULL}
  <2>1. /\ heap = {frames[t].snapshot : t \in frozen} \cup {owned}
        /\ \A t, u \in frozen : frames[t].snapshot = frames[u].snapshot => t = u
        /\ \A t \in frozen : frames[t].snapshot # owned
    BY <1>1 DEF IInv, SnapshotsHaveOneOwner
  <2>2. {t \in Slots : frames'[t] # NULL} = frozen \cup {s}
    BY <1>3, <1>4, <1>5
  <2>3. ReleasedSnapshots = {frames[t].snapshot : t \in frozen \cap {s}}
    <3>1. CASE Full
      <4>1. s = head
        BY <3>1, <1>3
      <4>2. frames[head] # NULL
        <5>1. 0 \in 0..(count - 1) /\ SlotOf(0) = head
          BY <3>1, <1>2, SlotFacts, SlotIsWrap DEF Around, Full, Slots
        <5> QED
          BY <5>1 DEF IInv, FramesInOrder
      <4> QED
        BY <3>1, <4>1, <4>2, <1>3 DEF ReleasedSnapshots
    <3>2. CASE ~ Full
      <4>1. count \in count..(MaxFrames - 1)
        BY <3>2, <1>2 DEF Full
      <4>2. frames[s] = NULL
        BY <4>1 DEF IInv, FramesInOrder, s
      <4> QED
        BY <3>2, <4>2 DEF ReleasedSnapshots
    <3> QED
      BY <3>1, <3>2
  <2>4. heap' = {frames[t].snapshot : t \in frozen \ {s}} \cup {owned}
    BY <2>1, <2>3, <1>1
  <2>5. \A t \in frozen \ {s} : frames'[t] = frames[t]
    BY <1>5
  <2>6. heap' = {frames'[t].snapshot : t \in frozen \cup {s}}
    BY <2>4, <2>5, <1>4, <1>5
  <2>7. \A t, u \in frozen \cup {s} : frames'[t].snapshot = frames'[u].snapshot => t = u
    BY <2>1, <2>5, <1>4, <1>5
  <2>8. owned' \notin Snapshots /\ \A t \in frozen \cup {s} : frames'[t].snapshot \in Snapshots
    <3>1. \A t \in frozen \cup {s} : frames'[t] \in Frame
      BY <1>2, <1>3, <1>5
    <3> QED
      BY <3>1, <1>1, NullAssumption DEF Frame
  <2> HIDE DEF frozen
  <2> QED
    BY <2>2, <2>6, <2>7, <2>8, <1>1 DEF SnapshotsHaveOneOwner
<1> QED
  BY <1>1, <1>2, <1>6, <1>7, <1>8 DEF IInv, Exists

\* A call that leaves the ring alone.
LEMMA RingStays == ASSUME IInv, UNCHANGED ring PROVE FramesInOrder'
BY DEF IInv, FramesInOrder, SlotOf, ring

LEMMA CaptureStep == ASSUME IInv, Capture PROVE IInv'
<1>1. PICK s \in Snapshots \ heap : owned' = s /\ heap' = heap \cup {s}
  BY DEF Capture
<1>2. owned = NULL /\ Exists /\ UNCHANGED ring
  BY DEF Capture
<1>3. frames' = frames /\ head' = head /\ count' = count /\ next_frame_id' = next_frame_id
  BY <1>2 DEF ring
<1>4. TypeOK'
  BY <1>1, <1>3 DEF IInv, TypeOK
<1>5. SnapshotsHaveOneOwner'
  BY <1>1, <1>2, <1>3, NullAssumption DEF IInv, SnapshotsHaveOneOwner
<1> QED
  BY <1>2, <1>3, <1>4, <1>5, RingStays DEF IInv, Exists

LEMMA AppendOverflowsStep == ASSUME IInv, AppendOverflows PROVE IInv'
<1>1. owned # NULL /\ owned' = NULL /\ heap' = heap \ {owned} /\ UNCHANGED ring
  BY DEF AppendOverflows
<1>2. frames' = frames /\ head' = head /\ count' = count /\ next_frame_id' = next_frame_id
  BY <1>1 DEF ring
<1>3. TypeOK'
  BY <1>1, <1>2 DEF IInv, TypeOK
<1>4. SnapshotsHaveOneOwner'
  <2> DEFINE frozen == {t \in Slots : frames[t] # NULL}
  <2>1. /\ heap' = {frames[t].snapshot : t \in frozen}
        /\ \A t, u \in frozen : frames[t].snapshot = frames[u].snapshot => t = u
    BY <1>1 DEF IInv, SnapshotsHaveOneOwner
  <2>2. \A t \in frozen : frames[t].snapshot # NULL
    BY NullAssumption DEF IInv, TypeOK, Frame
  <2> QED
    BY <2>1, <2>2, <1>1, <1>2 DEF SnapshotsHaveOneOwner
<1> QED
  BY <1>1, <1>3, <1>4, RingStays DEF IInv

LEMMA DestroyStep == ASSUME IInv, Destroy PROVE IInv'
<1>1. /\ owned = NULL /\ heap' = heap \ {f.snapshot : f \in Retained}
      /\ frames' = [s \in Slots |-> NULL] /\ head' = 0 /\ count' = 0 /\ next_frame_id' = 0
      /\ owned' = owned
  BY DEF Destroy
<1>2. TypeOK'
  BY <1>1, RingAssumption DEF IInv, TypeOK, Slots
<1>3. FramesInOrder'
  <2>0. Around(head') /\ 0..(MaxFrames - 1) \subseteq 0..MaxFrames
    BY <1>2, SlotFacts, RingAssumption DEF TypeOK
  <2>1. \A i \in 0..(MaxFrames - 1) : SlotOf(i)' \in Slots
    BY <2>0, SlotIsWrap DEF Around
  <2> QED
    BY <1>1, <2>1 DEF FramesInOrder
<1>4. heap' = {}
  <2>1. heap = {frames[t].snapshot : t \in {u \in Slots : frames[u] # NULL}}
    BY <1>1 DEF IInv, SnapshotsHaveOneOwner
  <2>0. Around(head)
    BY SlotFacts DEF IInv, TypeOK
  <2>2. ASSUME NEW t \in Slots, frames[t] # NULL PROVE frames[t] \in Retained
    <3>1. PICK i \in 0..(MaxFrames - 1) : t = SlotOf(i)
      BY <2>0, SlotIsWrap DEF Around
    <3>2. i \in 0..(count - 1)
      BY <2>2, <3>1 DEF IInv, TypeOK, FramesInOrder
    <3> QED
      BY <3>1, <3>2 DEF Retained
  <2> QED
    BY <2>1, <2>2, <1>1
<1>5. SnapshotsHaveOneOwner'
  BY <1>1, <1>4 DEF SnapshotsHaveOneOwner
<1> QED
  BY <1>1, <1>2, <1>3, <1>5 DEF IInv

LEMMA CreateStep == ASSUME IInv, Create PROVE IInv'
<1>1. /\ next_frame_id = 0 /\ next_frame_id' = 1
      /\ UNCHANGED <<frames, head, count, owned, heap>>
  BY DEF Create, Exists, IInv, TypeOK
<1>2. count = 0
  <2>0. Around(head)
    BY SlotFacts DEF IInv, TypeOK
  <2>1. ASSUME count > 0 PROVE FALSE
    <3>1. 0 \in 0..(count - 1) /\ SlotOf(0) \in Slots
      BY <2>1, <2>0, SlotIsWrap, RingAssumption DEF Around, IInv, TypeOK
    <3>2. frames[SlotOf(0)] \in Frame /\ frames[SlotOf(0)].frame_id + count = next_frame_id
      BY <3>1 DEF IInv, TypeOK, FramesInOrder
    <3> QED
      BY <1>1, <2>1, <3>2 DEF IInv, TypeOK, Frame
  <2> QED
    BY <2>1 DEF IInv, TypeOK
<1>3. TypeOK'
  BY <1>1, RingAssumption DEF IInv, TypeOK
<1>4. FramesInOrder'
  BY <1>1, <1>2 DEF IInv, FramesInOrder, SlotOf
<1>5. SnapshotsHaveOneOwner'
  BY <1>1 DEF IInv, SnapshotsHaveOneOwner
<1> QED
  BY <1>1, <1>3, <1>4, <1>5 DEF IInv, Exists

\* Reads change nothing that the invariant speaks of.
LEMMA ReadStep ==
    ASSUME IInv, (\E n \in Asked : GetAt(n) \/ GetById(n)) \/ UNCHANGED vars
    PROVE  IInv'
<1>1. UNCHANGED ring /\ owned' = owned /\ heap' = heap
  BY DEF GetAt, GetById, Finds, vars
<1>2. frames' = frames /\ head' = head /\ count' = count /\ next_frame_id' = next_frame_id
  BY <1>1 DEF ring
<1>3. TypeOK' /\ SnapshotsHaveOneOwner'
  BY <1>1, <1>2 DEF IInv, TypeOK, SnapshotsHaveOneOwner
<1> QED
  BY <1>1, <1>2, <1>3, RingStays DEF IInv, Exists

\* The inductive invariant holds for every ring size.
THEOREM Inductive == Spec => []IInv
<1>1. Init => IInv
  BY InitStep
<1>2. IInv /\ [Next]_vars => IInv'
  BY CreateStep, DestroyStep, CaptureStep, AppendOverflowsStep, AppendFrameStep, ReadStep DEF Next
<1> QED
  BY <1>1, <1>2, PTL DEF Spec

\* The variables keep their types, the head and the count through every wrap-around.
THEOREM TypeCorrect == Spec => []TypeOK
<1>1. IInv => TypeOK
  BY DEF IInv
<1> QED
  BY <1>1, Inductive, PTL

\* The retained frames are the last ones given ids, in order, wherever the head is.
THEOREM RingKeepsOrder == Spec => []FramesInOrder
<1>1. IInv => FramesInOrder
  BY DEF IInv
<1> QED
  BY <1>1, Inductive, PTL

\* No snapshot is leaked, released twice, or lost by a frame that can be read.
THEOREM SnapshotsOwned == Spec => []SnapshotsHaveOneOwner
<1>1. IInv => SnapshotsHaveOneOwner
  BY DEF IInv
<1> QED
  BY <1>1, Inductive, PTL

-----------------------------------------------------------------------------
(* The ring implements the log. *)

LogFrame == [frame_id : Nat, payload : [event : Events, snapshot : Snapshots]]

\* The log that a ring with these slots, this head and this count is.
LogOf(f, h, n) == [i \in 1..n |-> Carried(f[Wrap(h, i - 1)])]

\* What the refinement substitutes for the variables of the log.
barredLog == [i \in 1..count |-> Carried(frames[SlotOf(i - 1)])]
barredId == IF Exists THEN next_frame_id ELSE 1
barredAnswer == [answer EXCEPT !.frames = {Carried(f) : f \in @}]

LEMMA BarredIsLogOf == barredLog = LogOf(frames, head, count)
                       /\ barredLog' = LogOf(frames', head', count')
BY SlotIsWrap DEF barredLog, LogOf

\* A frame carries the same id, and two different frames are carried apart.
LEMMA CarriedFacts ==
    ASSUME NEW f \in Frame
    PROVE  Carried(f) \in LogFrame /\ Carried(f).frame_id = f.frame_id
BY DEF Carried, Frame, LogFrame

\* The log is a sequence of frames.
LEMMA LogType ==
    ASSUME IInv
    PROVE  /\ barredLog \in Seq(LogFrame) /\ Len(barredLog) = count /\ count \in 0..MaxFrames
           /\ \A i \in 1..count : /\ frames[SlotOf(i - 1)] \in Frame
                                  /\ barredLog[i] = Carried(frames[SlotOf(i - 1)])
<1>1. /\ count \in 0..MaxFrames /\ MaxFrames \in Nat /\ head \in Slots
      /\ frames \in [Slots -> Frame \cup {NULL}]
  BY RingAssumption DEF IInv, TypeOK
<1>2. \A i \in 1..count : frames[SlotOf(i - 1)] \in Frame
  <2> TAKE i \in 1..count
  <2>1. i - 1 \in 0..(count - 1) /\ i - 1 \in 0..MaxFrames
    BY <1>1
  <2>2. SlotOf(i - 1) \in Slots
    BY <1>1, <2>1, SlotFacts, SlotIsWrap DEF Around
  <2>3. frames[SlotOf(i - 1)] # NULL
    BY <2>1 DEF IInv, FramesInOrder
  <2> QED
    BY <1>1, <2>2, <2>3
<1>3. \A i \in 1..count : Carried(frames[SlotOf(i - 1)]) \in LogFrame
  BY <1>2, CarriedFacts
<1>4. barredLog \in [1..count -> LogFrame]
  BY <1>3 DEF barredLog
<1>5. barredLog \in Seq(LogFrame)
  BY <1>1, <1>4, SeqDef
<1>6. Len(barredLog) = count
  BY <1>1, <1>4, <1>5
<1> QED
  BY <1>1, <1>2, <1>5, <1>6 DEF barredLog

\* What the abstract append leaves of a log: the frames it had, but for the first if there was
\* no room, and the new one.
LEMMA NewestFacts ==
    ASSUME NEW S, NEW s \in Seq(S), NEW x \in S, Len(s) <= MaxFrames
    PROVE  LET t == Log!Newest(Append(s, x))
           IN /\ t \in Seq(S)
              /\ Len(s) < MaxFrames => /\ Len(t) = Len(s) + 1
                                       /\ \A i \in 1..Len(s) : t[i] = s[i]
                                       /\ t[Len(s) + 1] = x
              /\ Len(s) = MaxFrames => /\ Len(t) = MaxFrames
                                       /\ \A i \in 1..(MaxFrames - 1) : t[i] = s[i + 1]
                                       /\ t[MaxFrames] = x
<1> DEFINE a == Append(s, x)
<1>1. MaxFrames \in Nat \ {0} /\ Len(s) \in Nat
  BY RingAssumption
<1>2. /\ a \in Seq(S) /\ Len(a) = Len(s) + 1
      /\ \A i \in 1..Len(s) : a[i] = s[i]
      /\ a[Len(s) + 1] = x
  BY AppendProperties
<1> HIDE DEF a
<1>3. CASE Len(s) < MaxFrames
  <2>1. Log!Newest(a) = a
    BY <1>1, <1>2, <1>3 DEF Log!Newest
  <2> QED
    BY <1>1, <1>2, <1>3, <2>1 DEF a
<1>4. CASE Len(s) = MaxFrames
  <2> DEFINE t == SubSeq(a, 2, MaxFrames + 1)
  <2>1. Log!Newest(a) = t
    BY <1>1, <1>2, <1>4 DEF Log!Newest
  <2>2. t \in Seq(S) /\ Len(t) = MaxFrames /\ \A i \in 1..MaxFrames : t[i] = a[i + 1]
    BY <1>1, <1>2, <1>4
  <2> HIDE DEF t
  <2>3. \A i \in 1..(MaxFrames - 1) : t[i] = s[i + 1]
    <3> TAKE i \in 1..(MaxFrames - 1)
    <3>1. i \in 1..MaxFrames /\ i + 1 \in 1..Len(s)
      BY <1>1, <1>4
    <3> QED
      BY <3>1, <1>2, <2>2
  <2>4. t[MaxFrames] = x
    <3>1. MaxFrames \in 1..MaxFrames
      BY <1>1
    <3> QED
      BY <3>1, <1>2, <1>4, <2>2
  <2> QED
    BY <1>1, <1>4, <2>1, <2>2, <2>3, <2>4 DEF a
<1> QED
  BY <1>1, <1>3, <1>4

\* hti_append_owned_snapshot: the log after an append is the newest of the frames there were and
\* the new one.
LEMMA AppendMaps ==
    ASSUME IInv, IInv', NEW e \in Events, AppendFrame(e)
    PROVE  barredLog' = Log!Appended(barredLog, next_frame_id,
                                     [event |-> e, snapshot |-> owned])
<1> DEFINE x == Carried(NewFrame(e))
           t == Log!Newest(Append(barredLog, x))
<1>1. Log!Appended(barredLog, next_frame_id, [event |-> e, snapshot |-> owned]) = t
  BY DEF Log!Appended, Carried, NewFrame
<1>2. x \in LogFrame
  BY AppendPlaces, CarriedFacts
<1>3. /\ barredLog \in Seq(LogFrame) /\ Len(barredLog) = count /\ count \in 0..MaxFrames
      /\ \A i \in 1..count : barredLog[i] = Carried(frames[SlotOf(i - 1)])
  BY LogType
<1>4. MaxFrames \in Nat \ {0} /\ frames \in [Slots -> Frame \cup {NULL}]
  BY RingAssumption DEF IInv, TypeOK
<1>5. /\ SlotOf(count) \in Slots /\ frames' = [frames EXCEPT ![SlotOf(count)] = NewFrame(e)]
      /\ count' = IF Full THEN MaxFrames ELSE count + 1
      /\ Wrap(head', count' - 1) = SlotOf(count)
  BY AppendPlaces
<1>6. barredLog' = [i \in 1..count' |-> Carried(frames'[Wrap(head', i - 1)])]
  BY BarredIsLogOf DEF LogOf
<1> HIDE DEF x
<1>7. frames'[SlotOf(count)] = NewFrame(e) /\ \A u \in Slots \ {SlotOf(count)} : frames'[u] = frames[u]
  BY <1>4, <1>5
<1>8. CASE ~ Full
  <2>1. count < MaxFrames /\ count' = count + 1
    BY <1>3, <1>5, <1>8, <1>4 DEF Full
  <2>2. /\ t \in Seq(LogFrame) /\ Len(t) = count + 1
        /\ \A i \in 1..count : t[i] = barredLog[i]
        /\ t[count + 1] = x
    BY SMTT(30), <1>2, <1>3, <2>1, NewestFacts
  <2> HIDE DEF t
  <2>3. \A i \in 0..(MaxFrames - 1) :
           /\ Wrap(head', i) = SlotOf(i) /\ SlotOf(i) \in Slots
           /\ i # count => SlotOf(i) # SlotOf(count)
    BY <1>8, AppendPlaces, SlotIsWrap
  <2>4. ASSUME NEW i \in 1..(count + 1) PROVE Carried(frames'[Wrap(head', i - 1)]) = t[i]
    <3>1. CASE i = count + 1
      <4>1. Wrap(head', i - 1) = SlotOf(count)
        <5>1. i - 1 = count' - 1
          BY <1>3, <2>1, <3>1
        <5> QED
          BY <5>1, <1>5
      <4> QED
        BY <3>1, <4>1, <1>7, <2>2 DEF x
    <3>2. CASE i # count + 1
      <4>1. i \in 1..count /\ i - 1 \in 0..(MaxFrames - 1) /\ i - 1 # count
        BY <1>3, <1>4, <2>1, <3>2
      <4>2. frames'[Wrap(head', i - 1)] = frames[SlotOf(i - 1)]
        BY <4>1, <2>3, <1>7
      <4> QED
        BY <4>1, <4>2, <1>3, <2>2
    <3> QED
      BY <3>1, <3>2
  <2>5. t = [i \in 1..(count + 1) |-> t[i]]
    BY <2>2
  <2> QED
    BY <1>1, <1>6, <2>1, <2>4, <2>5
<1>9. CASE Full
  <2>1. count = MaxFrames /\ count' = MaxFrames
    BY <1>5, <1>9 DEF Full
  <2>2. /\ t \in Seq(LogFrame) /\ Len(t) = MaxFrames
        /\ \A i \in 1..(MaxFrames - 1) : t[i] = barredLog[i + 1]
        /\ t[MaxFrames] = x
    BY <1>2, <1>3, <2>1, NewestFacts
  <2> HIDE DEF t
  <2>3. \A i \in 0..(MaxFrames - 2) :
           /\ Wrap(head', i) = SlotOf(i + 1) /\ SlotOf(i + 1) \in Slots
           /\ SlotOf(i + 1) # SlotOf(count)
    BY <1>9, AppendPlaces, SlotIsWrap
  <2>4. ASSUME NEW i \in 1..MaxFrames PROVE Carried(frames'[Wrap(head', i - 1)]) = t[i]
    <3>1. CASE i = MaxFrames
      BY <3>1, <1>5, <1>7, <2>1, <2>2 DEF x
    <3>2. CASE i # MaxFrames
      <4>1. /\ i \in 1..(MaxFrames - 1) /\ i - 1 \in 0..(MaxFrames - 2) /\ (i - 1) + 1 = i
            /\ i + 1 \in 1..count /\ (i + 1) - 1 = i
        BY <1>4, <2>1, <3>2
      <4>2. frames'[Wrap(head', i - 1)] = frames[SlotOf(i)]
        BY <4>1, <2>3, <1>7
      <4>3. barredLog[i + 1] = Carried(frames[SlotOf(i)])
        BY <4>1, <1>3
      <4> QED
        BY <4>1, <4>2, <4>3, <2>2
    <3> QED
      BY <3>1, <3>2
  <2>5. t = [i \in 1..MaxFrames |-> t[i]]
    BY <2>2
  <2> QED
    BY <1>1, <1>6, <2>1, <2>4, <2>5
<1> QED
  BY <1>8, <1>9

LEMMA NoFramesNoLog == ASSUME NEW f, NEW h PROVE LogOf(f, h, 0) = << >>
<1>1. 1..0 = {}
  OBVIOUS
<1> QED
  BY <1>1 DEF LogOf

\* The answer, carried over.
LEMMA AnswerMaps ==
    ASSUME NEW call, NEW argument, NEW status, NEW found, Answer(call, argument, status, found)
    PROVE  barredAnswer' = [call |-> call, argument |-> argument, status |-> status,
                            frames |-> {Carried(f) : f \in found}]
BY DEF Answer, barredAnswer

LEMMA SilentMaps ==
    /\ answer = Silent => barredAnswer = Log!NoAnswer
    /\ answer' = Silent => barredAnswer' = Log!NoAnswer
BY DEF Silent, barredAnswer, Log!NoAnswer

\* A read finds in the ring what the log holds.
LEMMA ReadMaps ==
    ASSUME IInv, NEW n \in Asked, GetAt(n) \/ GetById(n)
    PROVE  Log!ReadAt(n) \/ Log!ReadById(n)
<1>1. /\ barredLog \in Seq(LogFrame) /\ Len(barredLog) = count /\ count \in Nat
      /\ DOMAIN barredLog = 1..count
      /\ \A i \in 1..count : /\ frames[SlotOf(i - 1)] \in Frame
                             /\ barredLog[i] = Carried(frames[SlotOf(i - 1)])
  BY LogType
<1>2. /\ Exists /\ Exists' = Exists /\ barredId' = barredId /\ barredLog' = barredLog
  BY DEF GetAt, GetById, Finds, ring, Exists, barredId, barredLog, SlotOf
<1>3. n \in Nat
  BY RingAssumption
<1>4. CASE GetAt(n)
  <2> DEFINE found == IF n < count THEN {frames[SlotOf(n)]} ELSE {}
             carried == {barredLog[i] : i \in DOMAIN barredLog \cap {n + 1}}
  <2>1. Answer("get_at", n, IF found = {} THEN "NOT_FOUND" ELSE "OK", found)
    BY <1>4 DEF GetAt, Finds
  <2>2. {Carried(f) : f \in found} = carried
    <3>1. CASE n < count
      <4>1. DOMAIN barredLog \cap {n + 1} = {n + 1} /\ (n + 1) - 1 = n /\ n + 1 \in 1..count
        BY <1>1, <1>3, <3>1
      <4> QED
        BY <1>1, <3>1, <4>1
    <3>2. CASE ~ (n < count)
      BY <1>1, <1>3, <3>2
    <3> QED
      BY <3>1, <3>2
  <2>3. found = {} <=> carried = {}
    BY <2>2
  <2> HIDE DEF found, carried
  <2>4. Log!Finds("get_at", n, carried)
    <3>1. barredAnswer' = [call |-> "get_at", argument |-> n,
              status |-> IF carried = {} THEN "NOT_FOUND" ELSE "OK", frames |-> carried]
      BY <2>1, <2>2, <2>3, AnswerMaps
    <3> QED
      BY <1>2, <3>1 DEF Log!Finds, Log!Answer, barredAnswer, barredId, barredLog
  <2> QED
    BY <2>4 DEF Log!ReadAt, carried, barredLog
<1>5. CASE GetById(n)
  <2> DEFINE found == {f \in Retained : f.frame_id = n}
             carried == {f \in {barredLog[i] : i \in DOMAIN barredLog} : f.frame_id = n}
  <2>1. Answer("get_by_id", n, IF found = {} THEN "NOT_FOUND" ELSE "OK", found)
    BY <1>5 DEF GetById, Finds
  <2>2. Retained = {frames[SlotOf(i - 1)] : i \in 1..count}
    <3>1. \A i \in 0..(count - 1) : i + 1 \in 1..count /\ (i + 1) - 1 = i
      BY <1>1
    <3>2. \A i \in 1..count : i - 1 \in 0..(count - 1)
      BY <1>1
    <3> QED
      BY <3>1, <3>2 DEF Retained
  <2>3. {Carried(f) : f \in found} = carried
    <3>1. \A f \in Retained : f \in Frame /\ Carried(f).frame_id = f.frame_id
      BY <1>1, <2>2, CarriedFacts
    <3>2. {barredLog[i] : i \in DOMAIN barredLog} = {Carried(f) : f \in Retained}
      <4>1. {barredLog[i] : i \in DOMAIN barredLog}
               = {Carried(frames[SlotOf(i - 1)]) : i \in 1..count}
        BY <1>1
      <4>2. {Carried(f) : f \in Retained} = {Carried(frames[SlotOf(i - 1)]) : i \in 1..count}
        BY <2>2
      <4> QED
        BY <4>1, <4>2
    <3> QED
      BY <3>1, <3>2
  <2>4. found = {} <=> carried = {}
    BY <2>3
  <2> HIDE DEF found, carried
  <2>5. Log!Finds("get_by_id", n, carried)
    <3>1. barredAnswer' = [call |-> "get_by_id", argument |-> n,
              status |-> IF carried = {} THEN "NOT_FOUND" ELSE "OK", frames |-> carried]
      BY <2>1, <2>3, <2>4, AnswerMaps
    <3> QED
      BY <1>2, <3>1 DEF Log!Finds, Log!Answer, barredAnswer, barredId, barredLog
  <2> QED
    BY <2>5 DEF Log!ReadById, carried, barredLog
<1> QED
  BY <1>4, <1>5

LEMMA LogStep == ASSUME IInv, IInv', [Next]_vars PROVE [Log!Next]_(Log!logvars)
<1>1. /\ barredLog = LogOf(frames, head, count) /\ barredLog' = LogOf(frames', head', count')
  BY BarredIsLogOf
<1>2. CASE Create
  <2>1. /\ ~ Exists /\ Exists' /\ barredId = 1 /\ barredId' = 1 /\ barredLog' = barredLog
        /\ barredAnswer' = barredAnswer
    BY <1>1, <1>2 DEF Create, Exists, barredId, barredAnswer
  <2>2. Log!Open
    BY <2>1 DEF Log!Open, barredId, barredAnswer, barredLog
  <2> QED
    BY <2>2 DEF Log!Next
<1>3. CASE Destroy
  <2>1. /\ Exists /\ ~ Exists' /\ barredId' = 1 /\ count' = 0 /\ answer' = Silent
    BY <1>3 DEF Destroy, Exists, barredId
  <2>2. barredLog' = << >> /\ barredAnswer' = Log!NoAnswer
    BY <1>1, <2>1, NoFramesNoLog, SilentMaps
  <2>3. Log!Close
    BY <2>1, <2>2 DEF Log!Close, barredId, barredAnswer, barredLog
  <2> QED
    BY <2>3 DEF Log!Next
<1>4. CASE Capture \/ UNCHANGED vars
  <2>1. UNCHANGED <<ring, answer>>
    BY <1>4 DEF Capture, vars
  <2> QED
    BY <2>1 DEF ring, Log!logvars, Exists, SlotOf
<1>5. CASE AppendOverflows
  <2>1. /\ Exists /\ Exists' = Exists /\ barredId = IdMax /\ barredId' = barredId
        /\ barredLog' = barredLog
        /\ Answer("append", next_frame_id, "OVERFLOW", {})
        /\ next_frame_id = IdMax
    BY <1>1, <1>5 DEF AppendOverflows, ring, Exists, barredId, IInv
  <2>2. barredAnswer' = [call |-> "append", argument |-> IdMax, status |-> "OVERFLOW",
                         frames |-> {}]
    <3>1. {Carried(f) : f \in {}} = {}
      OBVIOUS
    <3> QED
      BY <2>1, <3>1, AnswerMaps
  <2>3. Log!Refuse
    BY <2>1, <2>2 DEF Log!Refuse, Log!Answer, barredId, barredAnswer, barredLog
  <2> QED
    BY <2>3 DEF Log!Next
<1>6. CASE \E e \in Events : AppendFrame(e)
  <2>1. PICK e \in Events : AppendFrame(e)
    BY <1>6
  <2>2. /\ Exists /\ Exists' /\ barredId = next_frame_id /\ barredId' = next_frame_id + 1
        /\ next_frame_id < IdMax
        /\ Answer("append", next_frame_id, "OK", {})
    BY <2>1, RingAssumption DEF AppendFrame, Exists, barredId, IInv, TypeOK
  <2>3. barredAnswer' = [call |-> "append", argument |-> barredId, status |-> "OK",
                         frames |-> {}]
    <3>1. {Carried(f) : f \in {}} = {}
      OBVIOUS
    <3> QED
      BY <2>2, <3>1, AnswerMaps
  <2>4. [event |-> e, snapshot |-> owned] \in [event : Events, snapshot : Snapshots]
    BY <2>1, AppendPlaces
  <2>5. barredLog' = Log!Appended(barredLog, barredId, [event |-> e, snapshot |-> owned])
    BY <2>1, <2>2, AppendMaps
  <2>6. Log!AppendFrame
    BY <2>2, <2>3, <2>4, <2>5
       DEF Log!AppendFrame, Log!Answer, barredId, barredAnswer, barredLog
  <2> QED
    BY <2>6 DEF Log!Next
<1>7. CASE \E n \in Asked : GetAt(n) \/ GetById(n)
  BY <1>7, ReadMaps DEF Log!Next
<1> QED
  BY <1>2, <1>3, <1>4, <1>5, <1>6, <1>7 DEF Next

\* inspection.h: for the readers the ring is a first-in first-out log of the newest frames,
\* numbered without a gap; an append drops the oldest when there is no room, and what is read by
\* position or by id is what the log holds.
THEOREM RingIsLog == Spec => ImplementsLog
<1>1. Init => Log!Init
  <2> SUFFICES ASSUME Init PROVE Log!Init
    OBVIOUS
  <2>1. count = 0 /\ ~ Exists /\ answer = Silent
    BY DEF Init, Exists
  <2>2. barredLog = << >> /\ barredId = 1 /\ barredAnswer = Log!NoAnswer
    BY <2>1, BarredIsLogOf, NoFramesNoLog, SilentMaps DEF barredId
  <2> QED
    BY <2>1, <2>2 DEF Log!Init, barredId, barredAnswer, barredLog
<1>2. IInv /\ IInv' /\ [Next]_vars => [Log!Next]_(Log!logvars)
  BY LogStep
<1> QED
  BY <1>1, <1>2, Inductive, PTL DEF Spec, ImplementsLog, Log!Spec

=============================================================================
