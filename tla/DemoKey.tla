------------------------------- MODULE DemoKey -------------------------------
(***************************************************************************)
(* The way of a key: a string of Kotlin becomes US-ASCII bytes, the bridge *)
(* copies them into a buffer on its stack, the session checks them and the *)
(* table takes them; the encoder writes a key between quotes as it is, and *)
(* the parser reads it up to the next quote.                               *)
(*                                                                         *)
(* Four kinds of characters matter: those that the session allows, the     *)
(* quote, the question mark that stands for what US-ASCII cannot express,  *)
(* and what it cannot express.  NUL fills the buffer at first.             *)
(***************************************************************************)
EXTENDS Naturals, Sequences, SequencesExt

CONSTANTS
    Allowed,     \* [A-Za-z0-9._-]
    Foreign,     \* the characters that US-ASCII cannot express
    KeyMax       \* HTI_DEMO_KEY_MAX_BYTES

Quote == "quote"
QuestionMark == "question mark"
Nul == "NUL"

ASSUME KeyAssumption ==
    /\ KeyMax \in Nat \ {0}
    /\ Allowed \cap (Foreign \cup {Quote, QuestionMark, Nul}) = {}

VARIABLES
    typed, op,      \* the call: its string, and "put", "lookup" or "delete"
    pc,             \* "idle", "called", "copied"
    array,          \* the bytes of the call
    buffer, size,   \* key_bytes and key_size
    status,         \* the last answer
    table,          \* the keys of the table
    entered         \* the strings that were put and not deleted since, by the answers

vars == <<typed, op, pc, array, buffer, size, status, table, entered>>

\* Longer strings than a buffer are tried as well: the text field takes no more than 32
\* characters, but the session object does not count.
Strings == UNION {[1..n -> Allowed \cup Foreign \cup {Quote, QuestionMark}] : n \in 0..(KeyMax + 1)}

EmptyBuffer == [i \in 1..KeyMax |-> Nul]

Init ==
    /\ typed = <<>> /\ op = "lookup" /\ pc = "idle"
    /\ array = <<>> /\ buffer = EmptyBuffer /\ size = 0
    /\ status = "none" /\ table = {} /\ entered = {}

\* toByteArray(Charsets.US_ASCII)
ToDemoBytes(string) ==
    [i \in DOMAIN string |-> IF string[i] \in Foreign THEN QuestionMark ELSE string[i]]

Call ==
    /\ pc = "idle"
    /\ typed' \in Strings
    /\ op' \in {"put", "lookup", "delete"}
    /\ array' = ToDemoBytes(typed')
    /\ pc' = "called"
    /\ buffer' = EmptyBuffer /\ size' = 0 /\ status' = "none"
    /\ UNCHANGED <<table, entered>>

KeyLength == Len(array)

\* hti_jni_copy_key; a key that is too long leaves the buffer as it was.
CopyKey ==
    /\ pc = "called"
    /\ size' = KeyLength
    /\ buffer' = IF size' > 0 /\ size' <= KeyMax
                 THEN [i \in 1..KeyMax |-> IF i <= size' THEN array[i] ELSE buffer[i]]
                 ELSE buffer
    /\ pc' = "copied"
    /\ UNCHANGED <<typed, op, array, status, table, entered>>

\* What a read of key_bytes finds; beyond it lies anything, an allowed byte for one.
ByteAt(i) == IF i <= KeyMax THEN buffer[i] ELSE CHOOSE byte \in Allowed : TRUE

Key == [i \in 1..size |-> ByteAt(i)]

\* Mutant: every printable byte is allowed.
IsPrintable == size > 0 /\ size <= KeyMax /\ Nul \notin ToSet(Key)

\* hti_demo_key_is_valid
IsValid == size > 0 /\ size <= KeyMax /\ ToSet(Key) \subseteq Allowed

\* The session's operation, and the answer that comes back with its status.
Operate ==
    /\ pc = "copied"
    /\ status' = IF ~IsValid THEN "invalid"
                 ELSE IF op = "put" \/ Key \in table THEN "ok" ELSE "not found"
    /\ table' = IF status' # "ok" THEN table
                ELSE CASE op = "put" -> table \cup {Key}
                       [] op = "delete" -> table \ {Key}
                       [] op = "lookup" -> table
    /\ entered' = IF status' # "ok" THEN entered
                  ELSE CASE op = "put" -> entered \cup {typed}
                         [] op = "delete" -> entered \ {typed}
                         [] op = "lookup" -> entered
    /\ pc' = "idle"
    /\ UNCHANGED <<typed, op, array, buffer, size>>

Next == Call \/ CopyKey \/ Operate

Spec == Init /\ [][Next]_vars

-----------------------------------------------------------------------------

\* What the parser reads for a key that was written between two quotes.
ReadBack(key) == SelectInSeq(key, LAMBDA byte : byte = Quote)

Shown(key) == IF ReadBack(key) = 0 THEN key ELSE SubSeq(key, 1, ReadBack(key) - 1)

\* What is shown is what was typed: after any sequence of calls the snapshots show the
\* strings that were put and not deleted, although characters are replaced on the way in
\* and nothing is escaped on the way out, and a key that is cut or read past its end would be
\* another key (docs/architecture-plan.md:290-293).
ShownAsTyped == pc = "idle" => {Shown(key) : key \in table} = entered

=============================================================================
