----------------------------- MODULE Dictionary -----------------------------
(***************************************************************************)
(* What a map promises: a finite function from keys to values.             *)
(***************************************************************************)
CONSTANTS Key, Value

VARIABLE dict

Put(d, k, v) == [x \in DOMAIN d \cup {k} |-> IF x = k THEN v ELSE d[x]]

Init == dict = [k \in {} |-> 0]

Set(k, v) == dict' = Put(dict, k, v)

Delete(k) ==
    /\ k \in DOMAIN dict
    /\ dict' = [x \in DOMAIN dict \ {k} |-> dict[x]]

Clear == dict' = [k \in {} |-> 0]

Next ==
    \/ \E k \in Key, v \in Value : Set(k, v)
    \/ \E k \in Key : Delete(k)
    \/ Clear

Spec == Init /\ [][Next]_dict
=============================================================================
