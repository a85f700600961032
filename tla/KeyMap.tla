------------------------------- MODULE KeyMap --------------------------------
(***************************************************************************)
(* What a hash table promises: a function from keys to values.             *)
(***************************************************************************)
CONSTANTS
    Keys,
    Values

VARIABLE map            \* the value of each key that was put

Init == map \in [{} -> Values]

Put(k, v) ==
    map' = [other \in DOMAIN map \cup {k} |-> IF other = k THEN v ELSE map[other]]

Remove(k) == map' = [other \in DOMAIN map \ {k} |-> map[other]]

Next == \E k \in Keys : Remove(k) \/ \E v \in Values : Put(k, v)

Spec == Init /\ [][Next]_map
=============================================================================
