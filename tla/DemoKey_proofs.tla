---------------------------- MODULE DemoKey_proofs ----------------------------
(***************************************************************************)
(* The way of a key, for every alphabet and every size of the buffer: what *)
(* is shown is what was typed.                                             *)
(*                                                                         *)
(* The invariant follows the bytes of the call: those of the string, then, *)
(* when they fit, those of the buffer.  A key that passes the check has no *)
(* question mark, so none of its characters was replaced; and no key of    *)
(* the table has a quote, so a document gives it back uncut.               *)
(***************************************************************************)
EXTENDS DemoKey, TLAPS

Characters == Allowed \cup Foreign \cup {Quote, QuestionMark}

\* A key that the session takes.
TakenKeys == UNION {[1..n -> Allowed] : n \in Nat}

\* The call's string, whatever its length.
IsTyped == \E n \in Nat : typed \in [1..n -> Characters]

\* key_bytes after the copy: the bytes of the call, if they fit, and NULs.
Copied ==
    [i \in 1..KeyMax |-> IF KeyLength <= KeyMax /\ i <= KeyLength THEN array[i] ELSE Nul]

KeyInv ==
    /\ op \in {"put", "lookup", "delete"}
    /\ table = entered
    /\ table \subseteq TakenKeys
    /\ IsTyped
    /\ array = ToDemoBytes(typed)
    /\ pc = "called" => buffer = EmptyBuffer
    /\ pc = "copied" => size = KeyLength /\ buffer = Copied

\* A string has as many bytes as characters.
LEMMA BytesOfString ==
    ASSUME NEW n \in Nat, NEW string \in [1..n -> Characters]
    PROVE  /\ DOMAIN ToDemoBytes(string) = 1..n
           /\ Len(ToDemoBytes(string)) = n
           /\ \A i \in 1..n : ToDemoBytes(string)[i] =
                                 IF string[i] \in Foreign THEN QuestionMark ELSE string[i]
<1> DEFINE b == ToDemoBytes(string)
<1>1. b = [i \in 1..n |-> IF string[i] \in Foreign THEN QuestionMark ELSE string[i]]
  BY DEF ToDemoBytes
<1>2. Len([i \in 1..n |-> IF string[i] \in Foreign THEN QuestionMark ELSE string[i]]) = n
  OBVIOUS
<1> QED
  BY <1>1, <1>2

\* A key that the session takes is shown as it is: a quote is none of its bytes.
LEMMA TakenIsShown == ASSUME NEW key \in TakenKeys PROVE Shown(key) = key
<1>1. PICK n \in Nat : key \in [1..n -> Allowed]
  BY DEF TakenKeys
<1>2. \A i \in DOMAIN key : key[i] # Quote
  BY <1>1, KeyAssumption
<1>3. ReadBack(key) = 0
  BY <1>2 DEF ReadBack, SelectInSeq
<1> QED
  BY <1>3 DEF Shown

\* A key that passes the check is the string that was typed, with no character replaced.
LEMMA ValidIsTyped ==
    ASSUME KeyInv, pc = "copied", IsValid
    PROVE  Key = typed /\ Key \in TakenKeys
<1>1. PICK n \in Nat : typed \in [1..n -> Characters]
  BY DEF KeyInv, IsTyped
<1>2. /\ Len(array) = n
      /\ \A i \in 1..n : array[i] = IF typed[i] \in Foreign THEN QuestionMark ELSE typed[i]
  BY <1>1, BytesOfString DEF KeyInv
<1>3. size = n /\ n > 0 /\ n <= KeyMax /\ buffer = Copied /\ ToSet(Key) \subseteq Allowed
  BY <1>2 DEF KeyInv, KeyLength, IsValid
<1>4. \A i \in 1..n : ByteAt(i) = array[i]
  BY <1>2, <1>3, KeyAssumption DEF ByteAt, Copied, KeyLength
<1>5. Key = [i \in 1..n |-> ByteAt(i)]
  BY <1>3 DEF Key
<1>6. \A i \in 1..n : array[i] \in Allowed
  <2> SUFFICES ASSUME NEW i \in 1..n PROVE array[i] \in Allowed
      OBVIOUS
  <2>1. Key[i] = array[i] /\ i \in DOMAIN Key
    BY <1>4, <1>5
  <2>2. Key[i] \in ToSet(Key)
    BY <2>1 DEF ToSet
  <2> QED
    BY <1>3, <2>1, <2>2
<1>7. \A i \in 1..n : array[i] = typed[i]
  BY <1>2, <1>6, KeyAssumption
<1>8. \A i \in 1..n : ByteAt(i) = typed[i] /\ typed[i] \in Allowed
  BY <1>4, <1>6, <1>7
<1>9. Key = typed
  BY <1>1, <1>5, <1>8
<1>10. typed \in [1..n -> Allowed]
  BY <1>1, <1>8
<1> QED
  BY <1>9, <1>10 DEF TakenKeys

LEMMA InitKeyInv == Init => KeyInv
<1> SUFFICES ASSUME Init PROVE KeyInv
    OBVIOUS
<1>1. typed = <<>> /\ array = <<>> /\ pc = "idle" /\ table = {} /\ entered = {}
  BY DEF Init
<1>2. <<>> \in [1..0 -> Characters]
  OBVIOUS
<1>3. ToDemoBytes(<<>>) = <<>>
  BY DEF ToDemoBytes
<1> QED
  BY <1>1, <1>2, <1>3 DEF Init, KeyInv, IsTyped

LEMMA CallKeeps == ASSUME KeyInv, Call PROVE KeyInv'
<1>1. PICK n \in 0..(KeyMax + 1) : typed' \in [1..n -> Characters]
  BY DEF Call, Strings, Characters
<1>2. IsTyped'
  BY <1>1, KeyAssumption DEF IsTyped, Characters
<1>3. /\ array' = ToDemoBytes(typed)' /\ pc' = "called" /\ buffer' = EmptyBuffer
      /\ op' \in {"put", "lookup", "delete"} /\ UNCHANGED <<table, entered>>
  BY DEF Call, ToDemoBytes
<1> QED
  BY <1>2, <1>3 DEF KeyInv, EmptyBuffer

LEMMA CopyKeyKeeps == ASSUME KeyInv, CopyKey PROVE KeyInv'
<1>1. /\ pc = "called" /\ pc' = "copied" /\ size' = Len(array)
      /\ UNCHANGED <<typed, op, array, table, entered>>
  BY DEF CopyKey, KeyLength
<1>2. PICK n \in Nat : typed \in [1..n -> Characters]
  BY DEF KeyInv, IsTyped
<1>3. Len(array) = n
  BY <1>2, BytesOfString DEF KeyInv
<1>4. buffer' = [i \in 1..KeyMax |-> IF n <= KeyMax /\ i <= n THEN array[i] ELSE Nul]
  <2>1. buffer' = IF n > 0 /\ n <= KeyMax
                  THEN [i \in 1..KeyMax |-> IF i <= n THEN array[i] ELSE buffer[i]]
                  ELSE buffer
    BY <1>1, <1>3 DEF CopyKey
  <2>2. buffer = [i \in 1..KeyMax |-> Nul]
    BY <1>1 DEF KeyInv, EmptyBuffer
  <2>3. CASE n > 0 /\ n <= KeyMax
    BY <2>1, <2>2, <2>3
  <2>4. CASE ~(n > 0 /\ n <= KeyMax)
    BY <2>1, <2>2, <2>4, KeyAssumption
  <2> QED
    BY <2>3, <2>4
<1>5. size' = KeyLength' /\ buffer' = Copied'
  BY <1>1, <1>3, <1>4 DEF Copied, KeyLength
<1> QED
  BY <1>1, <1>5 DEF KeyInv, IsTyped

LEMMA OperateKeeps == ASSUME KeyInv, Operate PROVE KeyInv'
<1>1. /\ pc = "copied" /\ pc' = "idle" /\ UNCHANGED <<typed, op, array>>
      /\ op \in {"put", "lookup", "delete"} /\ table = entered /\ table \subseteq TakenKeys
  BY DEF Operate, KeyInv
<1>2. IsTyped' /\ array' = ToDemoBytes(typed)'
  BY <1>1 DEF KeyInv, IsTyped, ToDemoBytes
<1>3. table' = entered' /\ table' \subseteq TakenKeys
  <2>1. CASE status' # "ok"
    BY <1>1, <2>1 DEF Operate
  <2>2. CASE status' = "ok"
    <3>1. IsValid
      BY <2>2 DEF Operate
    <3>2. Key = typed /\ Key \in TakenKeys
      BY <1>1, <3>1, ValidIsTyped
    <3> QED
      BY <1>1, <2>2, <3>2 DEF Operate
  <2> QED
    BY <2>1, <2>2
<1> QED
  BY <1>1, <1>2, <1>3 DEF KeyInv

LEMMA NextKeepsKeys == KeyInv /\ [Next]_vars => KeyInv'
<1> SUFFICES ASSUME KeyInv, [Next]_vars PROVE KeyInv'
    OBVIOUS
<1>1. CASE UNCHANGED vars
  BY <1>1 DEF vars, KeyInv, IsTyped, ToDemoBytes, Copied, KeyLength
<1>2. CASE Next
  BY <1>2, CallKeeps, CopyKeyKeeps, OperateKeeps DEF Next
<1> QED
  BY <1>1, <1>2

-----------------------------------------------------------------------------

\* After any calls, with strings of any characters, the keys that are shown are the strings
\* that were put and not deleted: none was altered by the conversion, cut by the buffer or
\* by the parser (NativeHashSession.kt, hti_jni_copy_key, hti_demo_key_is_valid).
THEOREM KeysAreShown == Spec => []ShownAsTyped
<1>1. KeyInv => ShownAsTyped
  <2> SUFFICES ASSUME KeyInv PROVE {Shown(key) : key \in table} = entered
      BY DEF ShownAsTyped
  <2>1. \A key \in table : Shown(key) = key
    BY TakenIsShown DEF KeyInv
  <2>2. table = entered
    BY DEF KeyInv
  <2> QED
    BY <2>1, <2>2
<1> QED
  BY <1>1, InitKeyInv, NextKeepsKeys, PTL DEF Spec

=============================================================================
