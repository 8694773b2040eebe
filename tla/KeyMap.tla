------------------------------- MODULE KeyMap -------------------------------
(***************************************************************************)
(* What robin_map promises: a finite map from keys to values, which an     *)
(* operation changes once and which nothing changes while it runs on.      *)
(***************************************************************************)
CONSTANTS Keys, Values

VARIABLES
    map,    \* a function whose domain is the set of keys that have a value
    busy    \* an operation is under way

mapVars == <<map, busy>>

Init == map = [k \in {} |-> {}] /\ busy = FALSE

Insert(k, v) ==
    /\ ~busy /\ busy' = TRUE
    /\ map' = [j \in DOMAIN map \cup {k} |-> IF j = k THEN v ELSE map[j]]

Erase(k) ==
    /\ ~busy /\ busy' = TRUE
    /\ map' = [j \in DOMAIN map \ {k} |-> map[j]]

Clear ==
    /\ ~busy /\ UNCHANGED busy
    /\ map' = [k \in {} |-> {}]

\* The operation returns; its rounds before that are stuttering steps.
Return == busy /\ busy' = FALSE /\ UNCHANGED map

Next ==
    \/ \E k \in Keys, v \in Values : Insert(k, v)
    \/ \E k \in Keys : Erase(k)
    \/ Clear \/ Return

Spec == Init /\ [][Next]_mapVars
=============================================================================
