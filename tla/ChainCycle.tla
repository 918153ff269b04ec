----------------------------- MODULE ChainCycle -----------------------------
(***************************************************************************)
(* hti_chain_has_cycle of hash_snapshot.c: two pointers walk a chain, one  *)
(* twice as fast, until the fast one falls off the end or meets the slow   *)
(* one.  A chain here is a graph of next pointers, so that it may loop:    *)
(* the traversals of a capture would never end on such a chain, and this   *)
(* check is what they rely on.  SnapshotArena runs it on every bucket.     *)
(***************************************************************************)
EXTENDS Naturals, FiniteSets

CONSTANTS
    Nodes,  \* the entries
    NULL    \* the null pointer

ASSUME NodesAssumption == IsFiniteSet(Nodes) /\ NULL \notin Nodes /\ NULL \notin BOOLEAN

VARIABLES
    next,     \* entry->next
    head,     \* the first entry of the chain, or NULL
    slow,
    fast,
    has_cycle \* the answer, or NULL while the loop runs

cyclevars == <<next, head, slow, fast, has_cycle>>

Links == Nodes \cup {NULL}

\* The function is called.
StartsAt(entry) == head' = entry /\ slow' = entry /\ fast' = entry /\ has_cycle' = NULL

\* The loop's condition: both links of the fast pointer can be followed.
CanAdvance == fast # NULL /\ next[fast] # NULL

\* Mutant: the slow pointer stays where it is, so that they meet only at the head.
SlowAfterStaying == slow

SlowAfter == next[slow]

Advance ==
    /\ has_cycle = NULL
    /\ CanAdvance
    /\ slow' = SlowAfter
    /\ fast' = next[next[fast]]
    /\ has_cycle' = IF slow' = fast' THEN TRUE ELSE NULL
    /\ UNCHANGED <<next, head>>

\* Mutant: the end of the chain is not told from a meeting.
EndOfChainMeets ==
    /\ has_cycle = NULL
    /\ ~ CanAdvance
    /\ has_cycle' = (slow = fast)
    /\ UNCHANGED <<next, head, slow, fast>>

EndOfChain ==
    /\ has_cycle = NULL
    /\ ~ CanAdvance
    /\ has_cycle' = FALSE
    /\ UNCHANGED <<next, head, slow, fast>>

-----------------------------------------------------------------------------

\* What a set of pointers leads to, itself included, when no more is left out.
Closed(S) == \A n \in S \cap Nodes : next[n] \in S

\* What can be reached from an entry, itself included.
Reached(entry) == {n \in Links : \A S \in SUBSET Links : entry \in S /\ Closed(S) => n \in S}

\* The answer is right for every shape of a chain: a chain that ends, one that
\* loops back to its head, one that loops after a tail of any length
\* (hash_snapshot.c:75-88).
AnswerIsRight == has_cycle # NULL => (has_cycle <=> NULL \notin Reached(head))

=============================================================================
