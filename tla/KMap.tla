-------------------------------- MODULE KMap --------------------------------
(***************************************************************************)
(* What klib's hash table promises: a finite map.                          *)
(***************************************************************************)
CONSTANTS Keys, Vals

VARIABLE content    \* a function from a subset of Keys to Vals

Init == content = [k \in {} |-> k]

Put(k, v) == content' = [x \in DOMAIN content \cup {k} |-> IF x = k THEN v ELSE content[x]]

Del(k) == k \in DOMAIN content /\ content' = [x \in DOMAIN content \ {k} |-> content[x]]

Clear == content' = [k \in {} |-> k]

Next ==
    \/ \E k \in Keys, v \in Vals : Put(k, v)
    \/ \E k \in Keys : Del(k)
    \/ Clear

Spec == Init /\ [][Next]_content
=============================================================================
