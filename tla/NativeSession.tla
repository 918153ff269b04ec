---------------------------- MODULE NativeSession ----------------------------
(***************************************************************************)
(* The objects of NativeHashSession.kt, which own native sessions through  *)
(* the functions of native/jni/hash_inspector_jni.c, under any number of   *)
(* threads that call and close them.                                       *)
(*                                                                         *)
(* A native session is memory at an address and has no lock of its own:    *)
(* its call reads the session, writes it later, and has the session point  *)
(* to the caller's result in between.  An address that was given back may  *)
(* be handed out again, so a handle that outlives its session would lead to*)
(* the session of another object.                                          *)
(*                                                                         *)
(* Left out: an object that could not be created (the factory throws and   *)
(* nothing is left), and keys, which are copied before the session is read.*)
(* A loss of the answer stands for each way in which the native function or*)
(* the parser throws after the operation has been performed.               *)
(***************************************************************************)
EXTENDS Naturals, FiniteSets

CONSTANTS
    Threads,
    Objects,        \* the instances of NativeHashSession
    Addresses,      \* where native sessions can lie; 0 is no address
    OperationsMax,  \* a bound on the operations of a session
    NULL

ASSUME NativeAssumption ==
    /\ 0 \notin Addresses
    /\ NULL \notin Threads \cup Objects

VARIABLES
    handle,   \* NativeHashSession.handle
    lock,     \* who is in the object's synchronized block, or NULL
    created,  \* the objects that have been created
    memory,   \* the object whose native session lies at each address, or NULL
    count,    \* how many operations the session there has performed
    writer,   \* the thread whose result the session points to, or NULL
    at,       \* where each thread is
    object,   \* on which object it calls
    op,       \* what
    held,     \* its copy of the handle (`it', `current')
    seen,     \* the count that its native call has read
    answer    \* what became of the call: its status and number

objectvars == <<handle, lock, created>>
nativevars == <<memory, count, writer>>
threadvars == <<at, object, op, held, seen, answer>>
vars == <<objectvars, nativevars, threadvars>>

\* What the callers see of all this.
SerialState ==
    [o \in Objects |-> CASE o \notin created                  -> "none"
                         [] o \in created /\ handle[o] = 0 -> "closed"
                         [] OTHER                           -> "open"]

SerialOperations == [o \in Objects |-> IF handle[o] = 0 THEN 0 ELSE count[handle[o]]]

SerialCall ==
    [t \in Threads |->
        IF at[t] = "idle" THEN [object |-> 0, op |-> "none", status |-> "none", number |-> 0]
        ELSE [object |-> object[t], op |-> op[t], status |-> answer[t].status,
              number |-> answer[t].number]]

Serial == INSTANCE SerialSession WITH
    state <- SerialState, operations <- SerialOperations, call <- SerialCall

-----------------------------------------------------------------------------

Answer(status, number) == [status |-> status, number |-> number]

Init ==
    /\ handle = [o \in Objects |-> 0] /\ lock = [o \in Objects |-> NULL] /\ created = {}
    /\ memory = [a \in Addresses |-> NULL] /\ count = [a \in Addresses |-> 0]
    /\ writer = [a \in Addresses |-> NULL]
    /\ at = [t \in Threads |-> "idle"]
    /\ object = [t \in Threads |-> NULL] /\ op = [t \in Threads |-> "none"]
    /\ held = [t \in Threads |-> 0] /\ seen = [t \in Threads |-> 0]
    /\ answer = [t \in Threads |-> Answer("none", 0)]

\* NativeHashSession.create: the native session, then the object that owns it.
New(t, o) ==
    /\ at[t] = "idle" /\ o \notin created
    /\ \E a \in Addresses :
          /\ memory[a] = NULL
          /\ memory' = [memory EXCEPT ![a] = o]
          /\ count' = [count EXCEPT ![a] = 0]
          /\ writer' = [writer EXCEPT ![a] = NULL]
          /\ handle' = [handle EXCEPT ![o] = a]
    /\ created' = created \cup {o}
    /\ UNCHANGED <<lock, threadvars>>

Moves(t, there) == at' = [at EXCEPT ![t] = there]

\* put, lookup, delete, validate, corruptSize and restore are "operate".
Call(t, o, what) ==
    /\ at[t] = "idle" /\ o \in created
    /\ what = "operate" => \A a \in Addresses : count[a] + Cardinality(Threads) <= OperationsMax
    /\ Moves(t, "locking")
    /\ object' = [object EXCEPT ![t] = o]
    /\ op' = [op EXCEPT ![t] = what]
    /\ answer' = [answer EXCEPT ![t] = Answer("pending", 0)]
    /\ UNCHANGED <<objectvars, nativevars, held, seen>>

\* Mutant: the block is not synchronized.
LockAlways(t) == lock' = [lock EXCEPT ![object[t]] = t]

Lock(t) == lock[object[t]] = NULL /\ lock' = [lock EXCEPT ![object[t]] = t]

\* synchronized (lock) { ... }
Acquire(t) ==
    /\ at[t] = "locking"
    /\ Lock(t)
    /\ Moves(t, "checking")
    /\ UNCHANGED <<handle, created, nativevars, object, op, held, seen, answer>>

\* The handle is 0: a call throws, a close has nothing to do.
FindsClosed(t) ==
    /\ at[t] = "checking" /\ handle[object[t]] = 0
    /\ answer' = [answer EXCEPT ![t] = Answer("refused", 0)]
    /\ Moves(t, "leaving")
    /\ UNCHANGED <<objectvars, nativevars, object, op, held, seen>>

\* withHandle passes the handle on to the native function.
TakesHandle(t) ==
    /\ at[t] = "checking" /\ op[t] # "close" /\ handle[object[t]] # 0
    /\ held' = [held EXCEPT ![t] = handle[object[t]]]
    /\ Moves(t, "entering")
    /\ UNCHANGED <<objectvars, nativevars, object, op, seen, answer>>

\* Mutant: the handle is not cleared.
KeepsHandle(t) == UNCHANGED handle

\* handle = 0L
ClearsHandle(t) == handle' = [handle EXCEPT ![object[t]] = 0]

\* close: the handle is cleared before the session is given back.
TakesHandleToClose(t) ==
    /\ at[t] = "checking" /\ op[t] = "close" /\ handle[object[t]] # 0
    /\ held' = [held EXCEPT ![t] = handle[object[t]]]
    /\ ClearsHandle(t)
    /\ answer' = [answer EXCEPT ![t] = Answer("done", 0)]
    /\ Moves(t, "freeing")
    /\ UNCHANGED <<lock, created, nativevars, object, op, seen>>

\* The native operation begins: the session points to this thread's result from now on.
Enter(t) ==
    /\ at[t] = "entering"
    /\ seen' = [seen EXCEPT ![t] = count[held[t]]]
    /\ writer' = IF op[t] = "operate" THEN [writer EXCEPT ![held[t]] = t] ELSE writer
    /\ Moves(t, "inside")
    /\ UNCHANGED <<objectvars, memory, count, object, op, held, answer>>

\* It ends; a reading of the timeline has changed nothing.
Finish(t) ==
    LET number == IF op[t] = "operate" THEN seen[t] + 1 ELSE seen[t]
    IN /\ at[t] = "inside"
       /\ IF op[t] = "operate"
          THEN /\ count' = [count EXCEPT ![held[t]] = number]
               /\ writer' = [writer EXCEPT ![held[t]] = NULL]
          ELSE UNCHANGED <<count, writer>>
       /\ answer' = [answer EXCEPT ![t] = Answer("done", number)]
       /\ Moves(t, "encoding")
       /\ UNCHANGED <<objectvars, memory, object, op, held, seen>>

\* Mutant: an encoding that failed is tried again until there is memory.
TriesAgain(t) == IF answer'[t].status = "lost" THEN "encoding" ELSE "leaving"

AfterEncoding(t) == "leaving"

\* The result is encoded from the session and copied, and the function returns; or there
\* is no memory for the document or its copy, and it throws.
Encode(t) ==
    /\ at[t] = "encoding"
    /\ \/ UNCHANGED answer
       \/ answer' = [answer EXCEPT ![t] = Answer("lost", 0)]
    /\ Moves(t, AfterEncoding(t))
    /\ UNCHANGED <<objectvars, nativevars, object, op, held, seen>>

\* Mutant: the session is not given back.
FreesNothing(t) == UNCHANGED memory

\* hti_session_destroy
Frees(t) == memory' = [memory EXCEPT ![held[t]] = NULL]

Free(t) ==
    /\ at[t] = "freeing"
    /\ Frees(t)
    /\ Moves(t, "leaving")
    /\ UNCHANGED <<objectvars, count, writer, object, op, held, seen, answer>>

\* The block is left the same way by a return and by an exception.
Unlocks(t) == lock' = [lock EXCEPT ![object[t]] = NULL]

Leave(t) ==
    /\ at[t] = "leaving"
    /\ Unlocks(t)
    /\ at' = [at EXCEPT ![t] = "idle"]
    /\ object' = [object EXCEPT ![t] = NULL] /\ op' = [op EXCEPT ![t] = "none"]
    /\ held' = [held EXCEPT ![t] = 0] /\ seen' = [seen EXCEPT ![t] = 0]
    /\ answer' = [answer EXCEPT ![t] = Answer("none", 0)]
    /\ UNCHANGED <<handle, created, nativevars>>

\* What a thread does that holds the lock.
Runs(t) ==
    \/ FindsClosed(t) \/ TakesHandle(t) \/ TakesHandleToClose(t)
    \/ Enter(t) \/ Finish(t) \/ Encode(t) \/ Free(t) \/ Leave(t)

Next ==
    \E t \in Threads :
        \/ \E o \in Objects :
              New(t, o) \/ \E what \in {"operate", "timeline", "close"} : Call(t, o, what)
        \/ Acquire(t)
        \/ Runs(t)

\* A thread that runs goes on, and a free lock is taken by one of those that wait for it;
\* nothing says by which (a Java monitor is not fair).
Spec ==
    /\ Init /\ [][Next]_vars
    /\ \A t \in Threads : WF_vars(Runs(t))
    /\ \A o \in Objects : WF_vars(\E t \in Threads : object[t] = o /\ Acquire(t))

-----------------------------------------------------------------------------
(* What the objects promise. *)

InNative == {"entering", "inside", "encoding", "freeing"}
UnderLock == InNative \cup {"checking", "leaving"}

\* The variables have their types, and a thread is in the block of an object exactly
\* while it has that object's lock.
TypeOK ==
    /\ handle \in [Objects -> Addresses \cup {0}]
    /\ lock \in [Objects -> Threads \cup {NULL}]
    /\ created \in SUBSET Objects
    /\ memory \in [Addresses -> Objects \cup {NULL}]
    /\ count \in [Addresses -> Nat]
    /\ writer \in [Addresses -> Threads \cup {NULL}]
    /\ at \in [Threads -> UnderLock \cup {"idle", "locking"}]
    /\ object \in [Threads -> Objects \cup {NULL}]
    /\ op \in [Threads -> {"none", "operate", "timeline", "close"}]
    /\ held \in [Threads -> Addresses \cup {0}]
    /\ seen \in [Threads -> Nat]
    /\ answer \in [Threads ->
           [status : {"none", "pending", "done", "refused", "lost"}, number : Nat]]
    /\ \A o \in Objects, t \in Threads : lock[o] = t <=> at[t] \in UnderLock /\ object[t] = o

\* A native function works on the live session of the object it was called for: not on
\* one that a close has given back, and not on the session of another object that has
\* come to lie at the same address (NativeHashSession.kt:65-79).
UsesOwnSession == \A t \in Threads : at[t] \in InNative => memory[held[t]] = object[t]

\* No two threads are in native code with the same session, and the result that a
\* session fills in is that of the operation that runs.
OneThreadInSession ==
    /\ \A t, u \in Threads :
          at[t] \in InNative /\ at[u] \in InNative /\ held[t] = held[u] => t = u
    /\ \A a \in Addresses, t \in Threads :
          writer[a] = t => at[t] = "inside" /\ op[t] = "operate" /\ held[t] = a

\* Every native session is that of the one object that bears its address, or is being
\* given back by a close: none is leaked or owned twice.
SessionsAreOwned ==
    \A a \in Addresses, o \in Objects :
        /\ handle[o] = a => memory[a] = o
        /\ memory[a] = o => handle[o] = a \/ \E t \in Threads : at[t] = "freeing" /\ held[t] = a

\* The objects behave as if each call took effect at one moment between its beginning and
\* its return, on an open object, or were refused by a closed one; a call that waits for
\* the lock while another closes is refused.
ImplementsSerial == Serial!Spec

\* A thread that is in an object's block leaves it, by whichever exception: a close that
\* waits is not locked out for good.
LockIsReleased == \A o \in Objects, t \in Threads : lock[o] = t ~> lock[o] # t

=============================================================================
