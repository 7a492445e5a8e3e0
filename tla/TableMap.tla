------------------------------ MODULE TableMap ------------------------------
(* What a ValueTable promises (table.h): a finite map from interned        *)
(* strings to values, from which the collector may drop keys.              *)
CONSTANTS Keys, Values, Absent, NoAnswer

VARIABLES map, answer

Init == map = [k \in Keys |-> Absent] /\ answer = NoAnswer

Set(k, v) ==
    /\ map' = [map EXCEPT ![k] = v]
    /\ answer' = (map[k] = Absent)
Get(k) == answer' = map[k] /\ UNCHANGED map
Delete(k) ==
    /\ map' = [map EXCEPT ![k] = Absent]
    /\ answer' = (map[k] # Absent)
Drop(k) == map' = [map EXCEPT ![k] = Absent] /\ UNCHANGED answer

Next == \E k \in Keys :
    \/ \E v \in Values : Set(k, v)
    \/ Get(k) \/ Delete(k) \/ Drop(k)

Spec == Init /\ [][Next]_<<map, answer>>
=============================================================================
