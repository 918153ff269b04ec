---------------------------- MODULE SerialSession ----------------------------
(***************************************************************************)
(* What NativeHashSession.kt promises its callers: a session object whose  *)
(* calls take effect one at a time, each at some moment between its        *)
(* beginning and its return, and which takes no effect after its close.    *)
(***************************************************************************)
EXTENDS Naturals

CONSTANTS
    Threads,
    Objects      \* the instances of NativeHashSession

VARIABLES
    state,       \* "none" until an object is created, then "open", then "closed"
    operations,  \* how many operations have taken effect on each object
    call         \* what each thread calls, and what became of it

serialvars == <<state, operations, call>>

Ops == {"operate", "timeline", "close"}

\* A call is "pending" until it takes effect or is refused.
NoCall == [object |-> 0, op |-> "none", status |-> "none", number |-> 0]

Init ==
    /\ state = [o \in Objects |-> "none"]
    /\ operations = [o \in Objects |-> 0]
    /\ call = [t \in Threads |-> NoCall]

Open(o) ==
    /\ state[o] = "none"
    /\ state' = [state EXCEPT ![o] = "open"]
    /\ UNCHANGED <<operations, call>>

Begin(t, o, op) ==
    /\ call[t] = NoCall /\ state[o] # "none"
    /\ call' = [call EXCEPT ![t] = [object |-> o, op |-> op, status |-> "pending", number |-> 0]]
    /\ UNCHANGED <<state, operations>>

IsPending(t, op, st) ==
    call[t].op = op /\ call[t].status = "pending" /\ state[call[t].object] = st

Answer(t, status, number) ==
    call' = [call EXCEPT ![t] = [@ EXCEPT !.status = status, !.number = number]]

\* An operation takes effect on an open object and gets the next number.
Operate(t) ==
    LET o == call[t].object
    IN /\ IsPending(t, "operate", "open")
       /\ operations' = [operations EXCEPT ![o] = @ + 1]
       /\ Answer(t, "done", operations[o] + 1)
       /\ UNCHANGED state

\* A read sees every operation that has taken effect.
Read(t) ==
    /\ IsPending(t, "timeline", "open")
    /\ Answer(t, "done", operations[call[t].object])
    /\ UNCHANGED <<state, operations>>

\* A close ends the object, with what it held.
Close(t) ==
    LET o == call[t].object
    IN /\ IsPending(t, "close", "open")
       /\ state' = [state EXCEPT ![o] = "closed"]
       /\ operations' = [operations EXCEPT ![o] = 0]
       /\ Answer(t, "done", 0)

\* A closed object refuses calls; a second close does nothing.
Refuse(t) ==
    /\ \E op \in Ops : IsPending(t, op, "closed")
    /\ Answer(t, "refused", 0)
    /\ UNCHANGED <<state, operations>>

\* The answer is lost on its way; the effect is not taken back.
Lose(t) ==
    /\ call[t].op # "close" /\ call[t].status = "done"
    /\ Answer(t, "lost", 0)
    /\ UNCHANGED <<state, operations>>

Return(t) ==
    /\ call[t].status \in {"done", "refused", "lost"}
    /\ call' = [call EXCEPT ![t] = NoCall]
    /\ UNCHANGED <<state, operations>>

Next ==
    \/ \E o \in Objects : Open(o)
    \/ \E t \in Threads :
          \/ \E o \in Objects, op \in Ops : Begin(t, o, op)
          \/ Operate(t) \/ Read(t) \/ Close(t) \/ Refuse(t)
          \/ Lose(t) \/ Return(t)

Spec == Init /\ [][Next]_serialvars

=============================================================================
