------------------------------ MODULE ByteMap ------------------------------
(***************************************************************************)
(* What the calls of hash_table.h promise their caller: a map from keys to *)
(* values.  A call takes effect and returns in one step.  An insertion, a  *)
(* creation and a reserve may be refused and then change nothing; an       *)
(* update, a lookup and a removal are never refused.                       *)
(***************************************************************************)
CONSTANTS Keys, Values, NULL

VARIABLES
    live,   \* there is a table
    map,    \* the value of each key, or NULL
    ret     \* what the last call returned

vars == <<live, map, ret>>

EmptyMap == [k \in Keys |-> NULL]

Return(op, k, status, out) ==
    ret' = [op |-> op, key |-> k, status |-> status, out |-> out]

Refused(op, k) ==
    \E status \in {"NO_MEMORY", "OVERFLOW"} : Return(op, k, status, NULL)

Init ==
    /\ live = FALSE
    /\ map = EmptyMap
    /\ ret = [op |-> "none", key |-> NULL, status |-> "OK", out |-> NULL]

Create ==
    /\ ~ live
    /\ \/ live' = TRUE /\ Return("create", NULL, "OK", NULL)
       \/ live' = FALSE /\ Refused("create", NULL)
    /\ map' = EmptyMap

Destroy ==
    /\ live
    /\ live' = FALSE
    /\ map' = EmptyMap
    /\ Return("destroy", NULL, "OK", NULL)

Put(k, v) ==
    /\ live
    /\ map' = [map EXCEPT ![k] = v]
    /\ Return("put", k, "OK", IF map[k] = NULL THEN "INSERTED" ELSE "UPDATED")
    /\ UNCHANGED live

PutRefused(k) ==
    /\ live
    /\ map[k] = NULL
    /\ Refused("put", k)
    /\ UNCHANGED <<live, map>>

Get(k) ==
    /\ live
    /\ Return("get", k, IF map[k] = NULL THEN "NOT_FOUND" ELSE "OK", map[k])
    /\ UNCHANGED <<live, map>>

Remove(k) ==
    /\ live
    /\ map' = [map EXCEPT ![k] = NULL]
    /\ Return("remove", k, IF map[k] = NULL THEN "NOT_FOUND" ELSE "OK", map[k])
    /\ UNCHANGED live

Reserve ==
    /\ live
    /\ Return("reserve", NULL, "OK", NULL) \/ Refused("reserve", NULL)
    /\ UNCHANGED <<live, map>>

Next ==
    \/ Create
    \/ Destroy
    \/ Reserve
    \/ \E k \in Keys :
          PutRefused(k) \/ Get(k) \/ Remove(k) \/ \E v \in Values : Put(k, v)

Spec == Init /\ [][Next]_vars
=============================================================================
