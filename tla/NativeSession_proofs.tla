------------------------- MODULE NativeSession_proofs -------------------------
(***************************************************************************)
(* For any number of threads, objects and addresses: the types, that a     *)
(* native function works on the live session of its object, alone,         *)
(* that no session is leaked or owned twice, and that the objects implement*)
(* SerialSession.                                                          *)
(*                                                                         *)
(* The inductive invariant adds to the four what a thread knows between    *)
(* taking the handle and leaving the block: the object's handle is still   *)
(* the one it holds, unless it has itself cleared it for a close.          *)
(* Last, in how many steps a lock is given back.                           *)
(***************************************************************************)
EXTENDS NativeSession, TLAPS

\* An object that has not been created has no session, and one that is called has been.
CreatedFirst ==
    /\ \A o \in Objects : o \notin created => handle[o] = 0
    /\ \A t \in Threads : at[t] # "idle" => object[t] \in created

\* The handle that a thread works with is that of its object.
HoldsTheHandle ==
    \A t \in Threads :
        /\ at[t] \in {"entering", "inside", "encoding"} =>
              held[t] # 0 /\ handle[object[t]] = held[t] /\ op[t] # "close"
        /\ at[t] = "freeing" =>
              held[t] # 0 /\ handle[object[t]] = 0 /\ memory[held[t]] = object[t]

\* The session points to the result of a thread that operates on it.
WriterIsInside ==
    \A a \in Addresses, t \in Threads :
        writer[a] = t => at[t] = "inside" /\ op[t] = "operate" /\ held[t] = a

IInv == TypeOK /\ CreatedFirst /\ HoldsTheHandle /\ WriterIsInside /\ SessionsAreOwned

\* The two parts of TypeOK.
Typed ==
    /\ handle \in [Objects -> Addresses \cup {0}]
    /\ lock \in [Objects -> Threads \cup {NULL}]
    /\ created \in SUBSET Objects
    /\ memory \in [Addresses -> Objects \cup {NULL}]
    /\ count \in [Addresses -> Nat]
    /\ writer \in [Addresses -> Threads \cup {NULL}]
    /\ at \in [Threads -> UnderLock \cup {"idle", "locking"}]
    /\ object \in [Threads -> Objects \cup {NULL}]
    /\ op \in [Threads -> {"none", "operate", "timeline", "close"}]
    /\ held \in [Threads -> Addresses \cup {0}]
    /\ seen \in [Threads -> Nat]
    /\ answer \in [Threads ->
           [status : {"none", "pending", "done", "refused", "lost"}, number : Nat]]

LockTells == \A o \in Objects, t \in Threads : lock[o] = t <=> at[t] \in UnderLock /\ object[t] = o

-----------------------------------------------------------------------------

\* It holds at first.
LEMMA InitIInv == Init => IInv
<1> SUFFICES ASSUME Init PROVE IInv
    OBVIOUS
<1> USE NativeAssumption DEF Init
<1>1. TypeOK
  BY DEF TypeOK, Answer, UnderLock, InNative
<1>2. CreatedFirst /\ HoldsTheHandle
  BY DEF CreatedFirst, HoldsTheHandle
<1>3. WriterIsInside /\ SessionsAreOwned
  BY DEF WriterIsInside, SessionsAreOwned
<1> QED
  BY <1>1, <1>2, <1>3 DEF IInv

\* A new session gets an address that no session has.
LEMMA NewKeeps ==
    ASSUME NEW t \in Threads, NEW o \in Objects, IInv, New(t, o)
    PROVE  IInv'
<1> USE NativeAssumption DEF IInv, New, objectvars, nativevars, threadvars
<1>1. TypeOK'
  BY DEF TypeOK, UnderLock, InNative
<1>2. CreatedFirst'
  BY DEF TypeOK, CreatedFirst, UnderLock, InNative
<1>3. HoldsTheHandle'
  BY DEF TypeOK, CreatedFirst, HoldsTheHandle, SessionsAreOwned, UnderLock, InNative
<1>4. WriterIsInside'
  BY DEF TypeOK, WriterIsInside, UnderLock, InNative
<1>5. SessionsAreOwned'
  BY DEF TypeOK, CreatedFirst, HoldsTheHandle, SessionsAreOwned, UnderLock, InNative
<1> QED
  BY <1>1, <1>2, <1>3, <1>4, <1>5 DEF IInv

\* A call begins outside of the block.
LEMMA CallKeeps ==
    ASSUME NEW t \in Threads, NEW o \in Objects, NEW what \in {"operate", "timeline", "close"},
           IInv, Call(t, o, what)
    PROVE  IInv'
<1> USE NativeAssumption DEF IInv, Call, Moves, Answer, objectvars, nativevars, threadvars
<1>1. TypeOK'
  BY SMTT(30) DEF TypeOK, UnderLock, InNative
<1>2. CreatedFirst'
  BY DEF TypeOK, CreatedFirst, UnderLock, InNative
<1>3. HoldsTheHandle'
  BY DEF TypeOK, CreatedFirst, HoldsTheHandle, SessionsAreOwned, UnderLock, InNative
<1>4. WriterIsInside'
  BY DEF TypeOK, WriterIsInside, UnderLock, InNative
<1>5. SessionsAreOwned'
  BY DEF TypeOK, CreatedFirst, HoldsTheHandle, SessionsAreOwned, UnderLock, InNative
<1> QED
  BY <1>1, <1>2, <1>3, <1>4, <1>5 DEF IInv

\* One thread at a time enters the block.
LEMMA AcquireKeeps ==
    ASSUME NEW t \in Threads, IInv, Acquire(t)
    PROVE  IInv'
<1> USE NativeAssumption DEF IInv, Acquire, Lock, Moves, objectvars, nativevars, threadvars
<1>1. TypeOK'
  <2>1. object[t] \in Objects
    BY DEF TypeOK, CreatedFirst, UnderLock, InNative
  <2>2. Typed'
    BY <2>1 DEF TypeOK, Typed, UnderLock, InNative
  <2>3. LockTells'
    BY <2>1 DEF TypeOK, LockTells, UnderLock, InNative
  <2> QED
    BY <2>2, <2>3 DEF TypeOK, Typed, LockTells
<1>2. CreatedFirst'
  BY DEF TypeOK, CreatedFirst, UnderLock, InNative
<1>3. HoldsTheHandle'
  BY DEF TypeOK, CreatedFirst, HoldsTheHandle, SessionsAreOwned, UnderLock, InNative
<1>4. WriterIsInside'
  BY DEF TypeOK, WriterIsInside, UnderLock, InNative
<1>5. SessionsAreOwned'
  BY DEF TypeOK, CreatedFirst, HoldsTheHandle, SessionsAreOwned, UnderLock, InNative
<1> QED
  BY <1>1, <1>2, <1>3, <1>4, <1>5 DEF IInv

\* A refused call touches no session.
LEMMA FindsClosedKeeps ==
    ASSUME NEW t \in Threads, IInv, FindsClosed(t)
    PROVE  IInv'
<1> USE NativeAssumption DEF IInv, FindsClosed, Moves, Answer, objectvars, nativevars, threadvars
<1>1. TypeOK'
  BY DEF TypeOK, UnderLock, InNative
<1>2. CreatedFirst'
  BY DEF TypeOK, CreatedFirst, UnderLock, InNative
<1>3. HoldsTheHandle'
  BY DEF TypeOK, CreatedFirst, HoldsTheHandle, SessionsAreOwned, UnderLock, InNative
<1>4. WriterIsInside'
  BY DEF TypeOK, WriterIsInside, UnderLock, InNative
<1>5. SessionsAreOwned'
  BY DEF TypeOK, CreatedFirst, HoldsTheHandle, SessionsAreOwned, UnderLock, InNative
<1> QED
  BY <1>1, <1>2, <1>3, <1>4, <1>5 DEF IInv

\* The handle that is taken is that of a live session.
LEMMA TakesHandleKeeps ==
    ASSUME NEW t \in Threads, IInv, TakesHandle(t)
    PROVE  IInv'
<1> USE NativeAssumption DEF IInv, TakesHandle, Moves, objectvars, nativevars, threadvars
<1>1. TypeOK'
  <2>1. object[t] \in Objects
    BY DEF TypeOK, CreatedFirst, UnderLock, InNative
  <2>2. Typed'
    BY <2>1 DEF TypeOK, Typed, UnderLock, InNative
  <2>3. LockTells'
    BY <2>1 DEF TypeOK, LockTells, UnderLock, InNative
  <2> QED
    BY <2>2, <2>3 DEF TypeOK, Typed, LockTells
<1>2. CreatedFirst'
  BY DEF TypeOK, CreatedFirst, UnderLock, InNative
<1>3. HoldsTheHandle'
  BY DEF TypeOK, CreatedFirst, HoldsTheHandle, SessionsAreOwned, UnderLock, InNative
<1>4. WriterIsInside'
  BY DEF TypeOK, WriterIsInside, UnderLock, InNative
<1>5. SessionsAreOwned'
  BY DEF TypeOK, CreatedFirst, HoldsTheHandle, SessionsAreOwned, UnderLock, InNative
<1> QED
  BY <1>1, <1>2, <1>3, <1>4, <1>5 DEF IInv

\* A close takes the handle away from the object and keeps it for itself.
LEMMA TakesHandleToCloseKeeps ==
    ASSUME NEW t \in Threads, IInv, TakesHandleToClose(t)
    PROVE  IInv'
<1> USE NativeAssumption
        DEF IInv, TakesHandleToClose, ClearsHandle, Moves, Answer, objectvars, nativevars, threadvars
<1>1. TypeOK'
  <2>1. object[t] \in Objects
    BY DEF TypeOK, CreatedFirst, UnderLock, InNative
  <2>2. Typed'
    BY <2>1 DEF TypeOK, Typed, UnderLock, InNative
  <2>3. LockTells'
    BY <2>1 DEF TypeOK, LockTells, UnderLock, InNative
  <2> QED
    BY <2>2, <2>3 DEF TypeOK, Typed, LockTells
<1>2. CreatedFirst'
  BY DEF TypeOK, CreatedFirst, UnderLock, InNative
<1>3. HoldsTheHandle'
  BY DEF TypeOK, CreatedFirst, HoldsTheHandle, SessionsAreOwned, UnderLock, InNative
<1>4. WriterIsInside'
  BY DEF TypeOK, WriterIsInside, UnderLock, InNative
<1>5. SessionsAreOwned'
  BY DEF TypeOK, CreatedFirst, HoldsTheHandle, SessionsAreOwned, UnderLock, InNative
<1> QED
  BY <1>1, <1>2, <1>3, <1>4, <1>5 DEF IInv

\* A session is entered.
LEMMA EnterKeeps ==
    ASSUME NEW t \in Threads, IInv, Enter(t)
    PROVE  IInv'
<1> USE NativeAssumption DEF IInv, Enter, Moves, objectvars, nativevars, threadvars
<1>1. TypeOK'
  <2>1. object[t] \in Objects /\ held[t] \in Addresses
    BY DEF TypeOK, CreatedFirst, HoldsTheHandle, UnderLock, InNative
  <2>2. Typed'
    BY <2>1 DEF TypeOK, Typed, UnderLock, InNative
  <2>3. LockTells'
    BY <2>1 DEF TypeOK, LockTells, UnderLock, InNative
  <2> QED
    BY <2>2, <2>3 DEF TypeOK, Typed, LockTells
<1>2. CreatedFirst'
  BY DEF TypeOK, CreatedFirst, UnderLock, InNative
<1>3. HoldsTheHandle'
  BY DEF TypeOK, CreatedFirst, HoldsTheHandle, SessionsAreOwned, UnderLock, InNative
<1>4. WriterIsInside'
  BY DEF TypeOK, WriterIsInside, UnderLock, InNative
<1>5. SessionsAreOwned'
  BY DEF TypeOK, CreatedFirst, HoldsTheHandle, SessionsAreOwned, UnderLock, InNative
<1> QED
  BY <1>1, <1>2, <1>3, <1>4, <1>5 DEF IInv

\* An operation ends.
LEMMA FinishKeeps ==
    ASSUME NEW t \in Threads, IInv, Finish(t)
    PROVE  IInv'
<1> USE NativeAssumption DEF IInv, Finish, Moves, Answer, objectvars, nativevars, threadvars
<1>1. TypeOK'
  BY DEF TypeOK, UnderLock, InNative
<1>2. CreatedFirst'
  BY DEF TypeOK, CreatedFirst, UnderLock, InNative
<1>3. HoldsTheHandle'
  BY DEF TypeOK, CreatedFirst, HoldsTheHandle, SessionsAreOwned, UnderLock, InNative
<1>4. WriterIsInside'
  BY DEF TypeOK, WriterIsInside, UnderLock, InNative
<1>5. SessionsAreOwned'
  BY DEF TypeOK, CreatedFirst, HoldsTheHandle, SessionsAreOwned, UnderLock, InNative
<1> QED
  BY <1>1, <1>2, <1>3, <1>4, <1>5 DEF IInv

\* A result is encoded, or lost.
LEMMA EncodeKeeps ==
    ASSUME NEW t \in Threads, IInv, Encode(t)
    PROVE  IInv'
<1> USE NativeAssumption
        DEF IInv, Encode, AfterEncoding, Moves, Answer, objectvars, nativevars, threadvars
<1>1. TypeOK'
  BY DEF TypeOK, UnderLock, InNative
<1>2. CreatedFirst'
  BY DEF TypeOK, CreatedFirst, UnderLock, InNative
<1>3. HoldsTheHandle'
  BY DEF TypeOK, CreatedFirst, HoldsTheHandle, SessionsAreOwned, UnderLock, InNative
<1>4. WriterIsInside'
  BY DEF TypeOK, WriterIsInside, UnderLock, InNative
<1>5. SessionsAreOwned'
  BY DEF TypeOK, CreatedFirst, HoldsTheHandle, SessionsAreOwned, UnderLock, InNative
<1> QED
  BY <1>1, <1>2, <1>3, <1>4, <1>5 DEF IInv

\* A session that no handle leads to is given back.
LEMMA FreeKeeps ==
    ASSUME NEW t \in Threads, IInv, Free(t)
    PROVE  IInv'
<1> USE NativeAssumption DEF IInv, Free, Frees, Moves, objectvars, nativevars, threadvars
<1>1. TypeOK'
  <2>1. object[t] \in Objects
    BY DEF TypeOK, CreatedFirst, UnderLock, InNative
  <2>2. Typed'
    BY <2>1 DEF TypeOK, Typed, UnderLock, InNative
  <2>3. LockTells'
    BY <2>1 DEF TypeOK, LockTells, UnderLock, InNative
  <2> QED
    BY <2>2, <2>3 DEF TypeOK, Typed, LockTells
<1>2. CreatedFirst'
  BY DEF TypeOK, CreatedFirst, UnderLock, InNative
<1>3. HoldsTheHandle'
  BY DEF TypeOK, CreatedFirst, HoldsTheHandle, SessionsAreOwned, UnderLock, InNative
<1>4. WriterIsInside'
  BY DEF TypeOK, WriterIsInside, UnderLock, InNative
<1>5. SessionsAreOwned'
  BY DEF TypeOK, CreatedFirst, HoldsTheHandle, SessionsAreOwned, UnderLock, InNative
<1> QED
  BY <1>1, <1>2, <1>3, <1>4, <1>5 DEF IInv

\* The block is left.
LEMMA LeaveKeeps ==
    ASSUME NEW t \in Threads, IInv, Leave(t)
    PROVE  IInv'
<1> USE NativeAssumption DEF IInv, Leave, Unlocks, Answer, objectvars, nativevars, threadvars
<1>1. TypeOK'
  <2>1. object[t] \in Objects
    BY DEF TypeOK, CreatedFirst, UnderLock, InNative
  <2>2. Typed'
    BY <2>1 DEF TypeOK, Typed, UnderLock, InNative
  <2>3. LockTells'
    BY <2>1 DEF TypeOK, LockTells, UnderLock, InNative
  <2> QED
    BY <2>2, <2>3 DEF TypeOK, Typed, LockTells
<1>2. CreatedFirst'
  BY DEF TypeOK, CreatedFirst, UnderLock, InNative
<1>3. HoldsTheHandle'
  BY DEF TypeOK, CreatedFirst, HoldsTheHandle, SessionsAreOwned, UnderLock, InNative
<1>4. WriterIsInside'
  BY DEF TypeOK, WriterIsInside, UnderLock, InNative
<1>5. SessionsAreOwned'
  BY DEF TypeOK, CreatedFirst, HoldsTheHandle, SessionsAreOwned, UnderLock, InNative
<1> QED
  BY <1>1, <1>2, <1>3, <1>4, <1>5 DEF IInv

-----------------------------------------------------------------------------

\* Every step keeps the invariant.
LEMMA NextKeepsIInv == IInv /\ [Next]_vars => IInv'
<1> SUFFICES ASSUME IInv, [Next]_vars PROVE IInv'
    OBVIOUS
<1>1. CASE UNCHANGED vars
  BY <1>1 DEF vars, objectvars, nativevars, threadvars, IInv, TypeOK, CreatedFirst,
              HoldsTheHandle, WriterIsInside, SessionsAreOwned
<1>2. CASE Next
  <2>1. PICK t \in Threads :
           \/ \E o \in Objects :
                 New(t, o) \/ \E what \in {"operate", "timeline", "close"} : Call(t, o, what)
           \/ Acquire(t)
           \/ Runs(t)
    BY <1>2 DEF Next
  <2>2. CASE \E o \in Objects : New(t, o)
    BY <2>2, NewKeeps
  <2>3. CASE \E o \in Objects, what \in {"operate", "timeline", "close"} : Call(t, o, what)
    BY <2>3, CallKeeps
  <2>4. CASE Acquire(t)
    BY <2>4, AcquireKeeps
  <2>5. CASE Runs(t)
    BY <2>5, FindsClosedKeeps, TakesHandleKeeps, TakesHandleToCloseKeeps, EnterKeeps,
       FinishKeeps, EncodeKeeps, FreeKeeps, LeaveKeeps DEF Runs
  <2> QED
    BY <2>1, <2>2, <2>3, <2>4, <2>5
<1> QED
  BY <1>1, <1>2

\* It is an invariant.
LEMMA IInvHolds == Spec => []IInv
  BY InitIInv, NextKeepsIInv, PTL DEF Spec

\* A thread in native code works on its object's session.
LEMMA IInvGivesUsesOwnSession == IInv => UsesOwnSession
<1> SUFFICES ASSUME IInv, NEW t \in Threads, at[t] \in InNative PROVE memory[held[t]] = object[t]
    BY DEF UsesOwnSession
<1> USE DEF IInv, TypeOK
<1>1. object[t] \in Objects
  BY DEF CreatedFirst, InNative
<1>2. CASE at[t] = "freeing"
  BY <1>2 DEF HoldsTheHandle
<1>3. CASE at[t] \in {"entering", "inside", "encoding"}
  <2>1. held[t] \in Addresses /\ handle[object[t]] = held[t]
    BY <1>3 DEF HoldsTheHandle
  <2> QED
    BY <1>1, <2>1 DEF SessionsAreOwned
<1> QED
  BY <1>2, <1>3 DEF InNative

\* Two threads in native code with one session are in the block of one object.
LEMMA IInvGivesOneThreadInSession == IInv => OneThreadInSession
<1> SUFFICES ASSUME IInv PROVE OneThreadInSession
    OBVIOUS
<1>1. ASSUME NEW t \in Threads, NEW u \in Threads,
             at[t] \in InNative, at[u] \in InNative, held[t] = held[u]
      PROVE  t = u
  <2>1. memory[held[t]] = object[t] /\ memory[held[u]] = object[u]
    BY <1>1, IInvGivesUsesOwnSession DEF UsesOwnSession
  <2>2. object[t] = object[u]
    BY <1>1, <2>1
  <2>3. object[t] \in Objects
    BY <1>1 DEF IInv, TypeOK, CreatedFirst, InNative
  <2>4. lock[object[t]] = t /\ lock[object[u]] = u
    BY <1>1, <2>2, <2>3 DEF IInv, TypeOK, UnderLock
  <2> QED
    BY <2>2, <2>4
<1> QED
  BY <1>1 DEF OneThreadInSession, IInv, WriterIsInside

-----------------------------------------------------------------------------
(* The theorems. *)

\* The variables have their types, and the lock tells who is in the block of an object
\* (NativeHashSession.kt:24 and 75-79).
THEOREM TypeCorrect == Spec => []TypeOK
<1>1. IInv => TypeOK
  BY DEF IInv
<1> QED
  BY <1>1, IInvHolds, PTL

\* A native function never works on a session that was given back, nor on one of another
\* object that has come to lie at its address, whatever calls race a close
\* (NativeHashSession.kt:65-79, hash_inspector_jni.c:43-55).
THEOREM NoUseAfterClose == Spec => []UsesOwnSession
  BY IInvGivesUsesOwnSession, IInvHolds, PTL

\* A native session, which has no lock of its own, is used by one thread at a time.
THEOREM CallsAreSerialized == Spec => []OneThreadInSession
  BY IInvGivesOneThreadInSession, IInvHolds, PTL

\* No session is leaked, and none is owned or given back twice.
THEOREM NoSessionIsLeaked == Spec => []SessionsAreOwned
<1>1. IInv => SessionsAreOwned
  BY DEF IInv
<1> QED
  BY <1>1, IInvHolds, PTL

-----------------------------------------------------------------------------
(* The refinement. *)

\* What a thread knows of its call and of its session, by where it is.
KnowsItsCall ==
    \A t \in Threads :
        /\ at[t] \in {"locking", "checking", "entering", "inside"} =>
              answer[t] = Answer("pending", 0)
        /\ at[t] \in {"locking"} \cup UnderLock => op[t] \in {"operate", "timeline", "close"}
        /\ at[t] \in {"entering", "inside", "encoding"} => op[t] # "close"
        /\ at[t] = "inside" => seen[t] = count[held[t]]
        /\ at[t] \in {"encoding", "freeing"} => answer[t].status = "done"
        /\ at[t] = "leaving" => answer[t].status \in {"done", "refused", "lost"}

\* At first no thread calls.
LEMMA InitKnows == Init => KnowsItsCall
  BY DEF Init, KnowsItsCall, UnderLock, InNative

\* Every step keeps what the threads know.
LEMMA NextKeepsKnows == IInv /\ KnowsItsCall /\ [Next]_vars => KnowsItsCall'
<1> SUFFICES ASSUME IInv, KnowsItsCall, [Next]_vars PROVE KnowsItsCall'
    OBVIOUS
<1> USE NativeAssumption
        DEF KnowsItsCall, Answer, UnderLock, InNative, objectvars, nativevars, threadvars
<1>1. UsesOwnSession /\ OneThreadInSession
  BY IInvGivesUsesOwnSession, IInvGivesOneThreadInSession
<1>a. TypeOK
  BY DEF IInv
<1>b. \A t \in Threads : at[t] = "inside" => memory[held[t]] \in Objects /\ held[t] \in Addresses
  BY <1>1, <1>a DEF UsesOwnSession, IInv, CreatedFirst, HoldsTheHandle, TypeOK
<1>2. CASE UNCHANGED vars
  BY <1>2 DEF vars
<1>3. ASSUME NEW t \in Threads, NEW o \in Objects, New(t, o) PROVE KnowsItsCall'
  BY <1>3, <1>a, <1>b DEF New, TypeOK
<1>4. ASSUME NEW t \in Threads, NEW o \in Objects,
             NEW what \in {"operate", "timeline", "close"}, Call(t, o, what)
      PROVE KnowsItsCall'
  BY <1>4, <1>a DEF Call, Moves, TypeOK
<1>5. ASSUME NEW t \in Threads, Acquire(t) PROVE KnowsItsCall'
  BY <1>5, <1>a DEF Acquire, Moves, TypeOK
<1>6. ASSUME NEW t \in Threads, FindsClosed(t) PROVE KnowsItsCall'
  BY <1>6, <1>a DEF FindsClosed, Moves, TypeOK
<1>7. ASSUME NEW t \in Threads, TakesHandle(t) PROVE KnowsItsCall'
  BY <1>7, <1>a DEF TakesHandle, Moves, TypeOK
<1>8. ASSUME NEW t \in Threads, TakesHandleToClose(t) PROVE KnowsItsCall'
  BY <1>8, <1>a DEF TakesHandleToClose, ClearsHandle, Moves, TypeOK
<1>9. ASSUME NEW t \in Threads, Enter(t) PROVE KnowsItsCall'
  BY <1>9, <1>a DEF Enter, Moves, TypeOK
<1>10. ASSUME NEW t \in Threads, Finish(t) PROVE KnowsItsCall'
  <2>1. held[t] \in Addresses /\ at[t] = "inside"
    BY <1>10, <1>b DEF Finish
  <2>2. \A u \in Threads : at[u] = "inside" /\ u # t => held[u] # held[t]
    BY <1>1, <2>1 DEF OneThreadInSession
  <2>3. \A u \in Threads :
           at'[u] = "inside" => u # t /\ at[u] = "inside" /\ count'[held[u]] = count[held[u]]
    BY <1>10, <1>a, <2>1, <2>2, <1>b DEF Finish, Moves, TypeOK
  <2> QED
    BY <1>10, <1>a, <2>1, <2>3 DEF Finish, Moves, TypeOK
<1>11. ASSUME NEW t \in Threads, Encode(t) PROVE KnowsItsCall'
  BY <1>11, <1>a DEF Encode, AfterEncoding, Moves, TypeOK
<1>12. ASSUME NEW t \in Threads, Free(t) PROVE KnowsItsCall'
  BY <1>12, <1>a DEF Free, Frees, Moves, TypeOK
<1>13. ASSUME NEW t \in Threads, Leave(t) PROVE KnowsItsCall'
  BY <1>13, <1>a DEF Leave, Unlocks, TypeOK
<1> QED
  BY <1>2, <1>3, <1>4, <1>5, <1>6, <1>7, <1>8, <1>9, <1>10, <1>11, <1>12, <1>13 DEF Next, Runs
-----------------------------------------------------------------------------

\* A thread that moves on within its call changes nothing for the callers.
LEMMA MovesOn ==
    ASSUME TypeOK, NEW t \in Threads, NEW there, at[t] # "idle", there # "idle", Moves(t, there),
           UNCHANGED <<object, op, answer>>
    PROVE  SerialCall' = SerialCall
  BY DEF TypeOK, Moves, SerialCall

\* An answer within a call is an answer of the abstract call.
LEMMA Answers ==
    ASSUME TypeOK, NEW t \in Threads, NEW there, at[t] # "idle", there # "idle", Moves(t, there),
           NEW status, NEW number,
           answer' = [answer EXCEPT ![t] = Answer(status, number)],
           UNCHANGED <<object, op>>
    PROVE  Serial!Answer(t, status, number)
  BY DEF TypeOK, Moves, Answer, SerialCall, Serial!Answer

\* What the callers see of a call that is going on.
LEMMA Seen ==
    ASSUME NEW t \in Threads, at[t] # "idle"
    PROVE  /\ SerialCall[t].object = object[t] /\ SerialCall[t].op = op[t]
           /\ SerialCall[t].status = answer[t].status /\ SerialCall[t].number = answer[t].number
  BY DEF SerialCall

\* The objects look the same while handles and counts are.
LEMMA SameSessions ==
    ASSUME UNCHANGED <<handle, created, count>>
    PROVE  SerialState' = SerialState /\ SerialOperations' = SerialOperations
  BY DEF SerialState, SerialOperations

\* Callers see nothing of a step.
Unseen == UNCHANGED <<SerialState, SerialOperations, SerialCall>>

\* A new object is an opened one.
LEMMA NewIsOpen ==
    ASSUME IInv, NEW t \in Threads, NEW o \in Objects, New(t, o)
    PROVE  Serial!Open(o)
<1> USE NativeAssumption DEF New, IInv, TypeOK, threadvars
<1>1. SerialState[o] = "none" /\ SerialState' = [SerialState EXCEPT ![o] = "open"]
  <2>1. PICK a \in Addresses : handle' = [handle EXCEPT ![o] = a]
    OBVIOUS
  <2>2. /\ o \notin created /\ created' = created \cup {o}
        /\ handle'[o] # 0 /\ \A x \in Objects \ {o} : handle'[x] = handle[x]
    BY <2>1
  <2> HIDE DEF New, IInv, TypeOK
  <2> QED
    BY <2>2 DEF SerialState
<1>2. SerialOperations' = SerialOperations
  BY DEF SerialOperations, CreatedFirst, SessionsAreOwned
<1>3. SerialCall' = SerialCall
  BY DEF SerialCall
<1> QED
  BY <1>1, <1>2, <1>3 DEF Serial!Open

\* A call begins where the abstract call begins.
LEMMA CallIsBegin ==
    ASSUME IInv, NEW t \in Threads, NEW o \in Objects,
           NEW what \in {"operate", "timeline", "close"}, Call(t, o, what)
    PROVE  Serial!Begin(t, o, what)
<1> USE DEF Call, IInv, TypeOK, objectvars, nativevars
<1>1. SerialState' = SerialState /\ SerialOperations' = SerialOperations
  BY SameSessions
<1>2. SerialState[o] # "none"
  BY NativeAssumption DEF SerialState
<1>3. /\ SerialCall[t] = Serial!NoCall
      /\ SerialCall' = [SerialCall EXCEPT
            ![t] = [object |-> o, op |-> what, status |-> "pending", number |-> 0]]
  BY ZenonT(60) DEF SerialCall, Serial!NoCall, Moves, Answer
<1> QED
  BY <1>1, <1>2, <1>3 DEF Serial!Begin

\* A handle of 0 is a closed object's.
LEMMA FindsClosedIsRefuse ==
    ASSUME IInv, KnowsItsCall, NEW t \in Threads, FindsClosed(t)
    PROVE  Serial!Refuse(t)
<1> USE DEF FindsClosed, IInv, objectvars, nativevars
<1>1. at[t] = "checking" /\ object[t] \in created /\ object[t] \in Objects /\ handle[object[t]] = 0
  BY DEF TypeOK, CreatedFirst
<1>2. SerialState[object[t]] = "closed"
  BY <1>1 DEF SerialState
<1>3. op[t] \in Serial!Ops /\ answer[t].status = "pending"
  BY <1>1 DEF KnowsItsCall, UnderLock, Serial!Ops, Answer
<1>4. Serial!IsPending(t, op[t], "closed")
  BY <1>1, <1>2, <1>3, Seen DEF Serial!IsPending
<1>5. Serial!Answer(t, "refused", 0)
  BY <1>1, Answers DEF TypeOK
<1>6. SerialState' = SerialState /\ SerialOperations' = SerialOperations
  BY SameSessions
<1> QED
  BY <1>3, <1>4, <1>5, <1>6 DEF Serial!Refuse

\* A close takes effect when it clears the handle.
LEMMA TakesHandleToCloseIsClose ==
    ASSUME IInv, KnowsItsCall, NEW t \in Threads, TakesHandleToClose(t)
    PROVE  Serial!Close(t)
<1> USE DEF TakesHandleToClose, IInv, ClearsHandle, nativevars
<1>1. /\ at[t] = "checking" /\ op[t] = "close"
      /\ object[t] \in created /\ object[t] \in Objects /\ handle[object[t]] # 0
  BY DEF TypeOK, CreatedFirst
<1>2. SerialState[object[t]] = "open"
  BY <1>1 DEF SerialState
<1>3. answer[t].status = "pending"
  BY <1>1 DEF KnowsItsCall, Answer
<1>4. Serial!IsPending(t, "close", "open")
  BY <1>1, <1>2, <1>3, Seen DEF Serial!IsPending
<1>5. Serial!Answer(t, "done", 0)
  BY <1>1, Answers DEF TypeOK
<1>6. /\ SerialState' = [SerialState EXCEPT ![object[t]] = "closed"]
      /\ SerialOperations' = [SerialOperations EXCEPT ![object[t]] = 0]
  <2>1. /\ created' = created /\ count' = count
        /\ handle'[object[t]] = 0 /\ \A x \in Objects \ {object[t]} : handle'[x] = handle[x]
    BY <1>1 DEF TypeOK, objectvars
  <2> HIDE DEF TakesHandleToClose
  <2>2. SerialState' = [SerialState EXCEPT ![object[t]] = "closed"]
    BY <1>1, <2>1 DEF SerialState
  <2>3. SerialOperations' = [SerialOperations EXCEPT ![object[t]] = 0]
    BY <1>1, <2>1 DEF SerialOperations
  <2> QED
    BY <2>2, <2>3
<1>7. SerialCall[t].object = object[t]
  BY <1>1, Seen
<1> QED
  BY <1>4, <1>5, <1>6, <1>7 DEF Serial!Close

\* Another call takes effect when its native operation ends.
LEMMA FinishTakesEffect ==
    ASSUME IInv, KnowsItsCall, NEW t \in Threads, Finish(t)
    PROVE  Serial!Operate(t) \/ Serial!Read(t)
<1> USE DEF Finish, IInv
<1>1. /\ at[t] = "inside"
      /\ object[t] \in created /\ object[t] \in Objects
      /\ handle[object[t]] = held[t] /\ held[t] # 0 /\ held[t] \in Addresses
  BY DEF TypeOK, CreatedFirst, HoldsTheHandle
<1>2. /\ SerialState[object[t]] = "open"
      /\ SerialOperations[object[t]] = seen[t]
  BY <1>1 DEF SerialState, SerialOperations, KnowsItsCall
<1>3. answer[t].status = "pending" /\ op[t] \in {"operate", "timeline"}
  BY <1>1 DEF KnowsItsCall, Answer, UnderLock, InNative
<1>4. SerialCall[t].object = object[t] /\ SerialCall[t].op = op[t] /\ SerialCall[t].status = "pending"
  BY <1>1, <1>3, Seen
<1>5. SerialState' = SerialState
  BY DEF SerialState, objectvars
<1>6. CASE op[t] = "operate"
  <2>1. Serial!IsPending(t, "operate", "open")
    BY <1>2, <1>4, <1>6 DEF Serial!IsPending
  <2>2. Serial!Answer(t, "done", seen[t] + 1)
    BY <1>1, <1>6, Answers DEF TypeOK
  <2>3. \A o \in Objects : o # object[t] /\ handle[o] # 0 => handle[o] # held[t]
    BY <1>1 DEF SessionsAreOwned
  <2>4. SerialOperations' = [SerialOperations EXCEPT ![object[t]] = seen[t] + 1]
    <3>1. /\ handle' = handle /\ count'[held[t]] = seen[t] + 1
          /\ \A a \in Addresses \ {held[t]} : count'[a] = count[a]
      BY <1>1, <1>6 DEF TypeOK, objectvars
    <3>2. \A o \in Objects : handle[o] \in Addresses \cup {0}
      BY DEF TypeOK
    <3> HIDE DEF Finish
    <3> QED
      BY <1>1, <2>3, <3>1, <3>2 DEF SerialOperations
  <2> QED
    BY <1>2, <1>4, <1>5, <2>1, <2>2, <2>4 DEF Serial!Operate
<1>7. CASE op[t] = "timeline"
  <2>1. Serial!IsPending(t, "timeline", "open")
    BY <1>2, <1>4, <1>7 DEF Serial!IsPending
  <2>2. Serial!Answer(t, "done", seen[t])
    BY <1>1, <1>7, Answers DEF TypeOK
  <2>3. SerialOperations' = SerialOperations
    BY <1>7 DEF SerialOperations, objectvars
  <2> QED
    BY <1>2, <1>4, <1>5, <2>1, <2>2, <2>3 DEF Serial!Read
<1> QED
  BY <1>3, <1>6, <1>7

\* An encoding loses the answer or nothing.
LEMMA EncodeMayLose ==
    ASSUME IInv, KnowsItsCall, NEW t \in Threads, Encode(t)
    PROVE  Unseen \/ Serial!Lose(t)
<1> USE DEF Encode, AfterEncoding, IInv, objectvars, nativevars
<1>1. at[t] = "encoding" /\ answer[t].status = "done" /\ op[t] # "close"
  BY DEF KnowsItsCall
<1>2. SerialState' = SerialState /\ SerialOperations' = SerialOperations
  BY SameSessions
<1>3. CASE UNCHANGED answer
  BY <1>1, <1>2, <1>3, MovesOn DEF Unseen
<1>4. CASE answer' = [answer EXCEPT ![t] = Answer("lost", 0)]
  <2>1. Serial!Answer(t, "lost", 0)
    BY <1>1, <1>4, Answers
  <2> QED
    BY <1>1, <1>2, <2>1, Seen DEF Serial!Lose
<1> QED
  BY <1>3, <1>4

\* The return.
LEMMA LeaveIsReturn ==
    ASSUME IInv, KnowsItsCall, NEW t \in Threads, Leave(t)
    PROVE  Serial!Return(t)
<1> USE DEF Leave, IInv, nativevars
<1>1. at[t] = "leaving" /\ answer[t].status \in {"done", "refused", "lost"}
  BY DEF KnowsItsCall
<1>2. SerialState' = SerialState /\ SerialOperations' = SerialOperations
  BY SameSessions
<1>3. SerialCall' = [SerialCall EXCEPT ![t] = Serial!NoCall]
  BY DEF SerialCall, Serial!NoCall, TypeOK
<1> QED
  BY <1>1, <1>2, <1>3, Seen DEF Serial!Return

\* The steps of which callers see nothing.
LEMMA InnerSteps ==
    ASSUME IInv, NEW t \in Threads,
           Acquire(t) \/ TakesHandle(t) \/ Enter(t) \/ Free(t)
    PROVE  Unseen
<1> USE DEF Acquire, TakesHandle, Enter, Free, objectvars, nativevars
<1>1. SerialState' = SerialState /\ SerialOperations' = SerialOperations
  BY SameSessions
<1>2. PICK there \in {"checking", "entering", "inside", "leaving"} :
         at[t] # "idle" /\ Moves(t, there) /\ UNCHANGED <<object, op, answer>>
  OBVIOUS
<1>3. SerialCall' = SerialCall
  BY <1>2, MovesOn DEF IInv
<1> QED
  BY <1>1, <1>3 DEF Unseen

\* The initial states correspond.
LEMMA InitIsInit == Init => Serial!Init
  BY DEF Init, Serial!Init, SerialState, SerialOperations, SerialCall, Serial!NoCall

\* Every step is an abstract step or none.
LEMMA StepIsStep ==
    IInv /\ KnowsItsCall /\ [Next]_vars => [Serial!Next]_(Serial!serialvars)
<1> SUFFICES ASSUME IInv, KnowsItsCall, [Next]_vars PROVE Serial!Next \/ Unseen
    BY DEF Unseen, Serial!serialvars
<1>1. CASE UNCHANGED vars
  BY <1>1 DEF vars, objectvars, nativevars, threadvars, Unseen, SerialState, SerialOperations,
              SerialCall
<1>2. CASE \E t \in Threads, o \in Objects : New(t, o)
  BY <1>2, NewIsOpen DEF Serial!Next
<1>3. CASE \E t \in Threads, o \in Objects, what \in {"operate", "timeline", "close"} : Call(t, o, what)
  BY <1>3, CallIsBegin DEF Serial!Next, Serial!Ops
<1>4. CASE \E t \in Threads : Acquire(t) \/ TakesHandle(t) \/ Enter(t) \/ Free(t)
  BY <1>4, InnerSteps
<1>5. CASE \E t \in Threads : FindsClosed(t) \/ TakesHandleToClose(t) \/ Finish(t) \/ Leave(t)
  BY <1>5, FindsClosedIsRefuse, TakesHandleToCloseIsClose, FinishTakesEffect, LeaveIsReturn
     DEF Serial!Next
<1>6. CASE \E t \in Threads : Encode(t)
  BY <1>6, EncodeMayLose DEF Serial!Next
<1> QED
  BY <1>1, <1>2, <1>3, <1>4, <1>5, <1>6 DEF Next, Runs

\* The objects implement SerialSession: under any number of threads each call takes effect
\* at one moment between its beginning and its return, or is refused, and nothing takes
\* effect after a close.
THEOREM Linearizable == Spec => ImplementsSerial
<1>1. Spec => [](IInv /\ KnowsItsCall)
  BY InitIInv, InitKnows, NextKeepsIInv, NextKeepsKnows, PTL DEF Spec
<1> QED
  BY <1>1, InitIsInit, StepIsStep, PTL DEF Spec, ImplementsSerial, Serial!Spec

-----------------------------------------------------------------------------
(* How long a block can be held. *)

StepsOf ==
    [checking |-> 5, entering |-> 4, inside |-> 3, encoding |-> 2, freeing |-> 2, leaving |-> 1]

\* The steps that a thread has still to take in the block, at most.
StepsFrom(there) == IF there \in UnderLock THEN StepsOf[there] ELSE 0

LEMMA StepsFacts ==
    /\ StepsFrom("checking") = 5 /\ StepsFrom("entering") = 4 /\ StepsFrom("inside") = 3
    /\ StepsFrom("encoding") = 2 /\ StepsFrom("freeing") = 2 /\ StepsFrom("leaving") = 1
    /\ StepsFrom("idle") = 0 /\ StepsFrom("locking") = 0
  BY DEF StepsFrom, StepsOf, UnderLock, InNative

\* One thread takes a step; if it holds a lock it comes nearer to its end, and a lock that
\* is held is not lost but by that.
StepsOn(t) ==
    /\ \A u \in Threads : u # t => at'[u] = at[u]
    /\ at[t] \in UnderLock => StepsFrom(at'[t]) < StepsFrom(at[t])
    /\ \A o \in Objects : lock[o] # NULL =>
          \/ lock'[o] = lock[o]
          \/ lock'[o] = NULL /\ lock[o] = t /\ StepsFrom(at'[t]) = 0

LEMMA RunsOn ==
    ASSUME IInv, NEW t \in Threads, Runs(t)
    PROVE  StepsOn(t)
<1>1. /\ lock \in [Objects -> Threads \cup {NULL}] /\ at \in [Threads -> UnderLock \cup {"idle", "locking"}]
      /\ object[t] \in Objects \cup {NULL}
      /\ \A o \in Objects : lock[o] = t <=> at[t] \in UnderLock /\ object[t] = o
  BY DEF IInv, TypeOK
<1>2. ASSUME NEW there, Moves(t, there), UNCHANGED lock,
             StepsFrom(there) < StepsFrom(at[t])
      PROVE  StepsOn(t)
  <2>1. at'[t] = there /\ \A u \in Threads : u # t => at'[u] = at[u]
    BY <1>1, <1>2 DEF Moves
  <2> QED
    BY <1>2, <2>1 DEF StepsOn
<1>3. CASE Leave(t)
  <2>1. at[t] = "leaving" /\ at' = [at EXCEPT ![t] = "idle"]
        /\ lock' = [lock EXCEPT ![object[t]] = NULL]
    BY <1>3 DEF Leave, Unlocks
  <2>2. at'[t] = "idle" /\ \A u \in Threads : u # t => at'[u] = at[u]
    BY <1>1, <2>1
  <2>3. "leaving" \in UnderLock /\ StepsFrom("idle") < StepsFrom("leaving") /\ StepsFrom("idle") = 0
    BY StepsFacts DEF UnderLock
  <2>4. \A o \in Objects : lock'[o] = lock[o] \/ (lock'[o] = NULL /\ lock[o] = t)
    <3> TAKE o \in Objects
    <3>1. CASE o = object[t]
      BY <1>1, <2>1, <2>3, <3>1
    <3>2. CASE o # object[t]
      BY <1>1, <2>1, <3>2
    <3> QED
      BY <3>1, <3>2
  <2> QED
    BY <2>1, <2>2, <2>3, <2>4 DEF StepsOn
<1>4. CASE FindsClosed(t) \/ TakesHandle(t) \/ TakesHandleToClose(t)
  <2>1. at[t] = "checking" /\ UNCHANGED lock
        /\ \E there \in {"leaving", "entering", "freeing"} : Moves(t, there)
    BY <1>4 DEF FindsClosed, TakesHandle, TakesHandleToClose, objectvars
  <2> QED
    BY <1>2, <2>1, StepsFacts
<1>5. CASE Enter(t)
  BY <1>2, <1>5, StepsFacts DEF Enter, objectvars
<1>6. CASE Finish(t)
  BY <1>2, <1>6, StepsFacts DEF Finish, objectvars
<1>7. CASE Encode(t)
  BY <1>2, <1>7, StepsFacts DEF Encode, AfterEncoding, objectvars
<1>8. CASE Free(t)
  BY <1>2, <1>8, StepsFacts DEF Free, objectvars
<1> QED
  BY <1>3, <1>4, <1>5, <1>6, <1>7, <1>8 DEF Runs

\* A thread that is let into a block takes a lock that nobody holds.
LEMMA OthersStepOn ==
    ASSUME IInv, NEW t \in Threads,
           \/ Acquire(t)
           \/ \E o \in Objects :
                 New(t, o) \/ \E what \in {"operate", "timeline", "close"} : Call(t, o, what)
    PROVE  StepsOn(t)
<1>1. /\ lock \in [Objects -> Threads \cup {NULL}] /\ at \in [Threads -> UnderLock \cup {"idle", "locking"}]
  BY DEF IInv, TypeOK
<1>2. at[t] \in {"idle", "locking"} /\ (UNCHANGED at \/ \E there : Moves(t, there))
  BY DEF Acquire, New, Call, threadvars
<1>3. at[t] \notin UnderLock /\ \A u \in Threads : u # t => at'[u] = at[u]
  BY <1>1, <1>2 DEF Moves, UnderLock, InNative
<1>4. \A o \in Objects : lock[o] # NULL => lock'[o] = lock[o]
  BY <1>1 DEF Acquire, Lock, New, Call, objectvars
<1> QED
  BY <1>3, <1>4 DEF StepsOn

\* A thread that holds an object's lock gives it back after five steps of its own at most,
\* whichever call it makes and whatever fails in it, and until it does nobody takes the lock
\* from it (NativeHashSession.kt:65-79, close and withHandle).
THEOREM BlocksAreShort == Spec => [][\E t \in Threads : StepsOn(t)]_vars
<1>1. IInv /\ [Next]_vars => [\E t \in Threads : StepsOn(t)]_vars
  BY RunsOn, OthersStepOn DEF Next
<1> QED
  BY <1>1, IInvHolds, PTL DEF Spec

=============================================================================
