------------------------------- MODULE IdMap -------------------------------
(***************************************************************************)
(* What stable_storage promises: a map from ids to values, where add()     *)
(* hands out an id that was never handed out before.                       *)
(***************************************************************************)
CONSTANT Values

VARIABLES
    store,  \* the map: a function whose domain is the set of live ids
    issued  \* every id handed out so far

mapVars == <<store, issued>>

Init == store = [id \in {} |-> {}] /\ issued = {}

\* The id is new; which one it is, the caller learns from the result.
Add(v) ==
    \E id \in issued' \ issued :
        /\ issued' = issued \cup {id}
        /\ store' = [j \in DOMAIN store \cup {id} |-> IF j = id THEN v ELSE store[j]]

Remove(id) ==
    /\ id \in DOMAIN store
    /\ store' = [j \in DOMAIN store \ {id} |-> store[j]]
    /\ UNCHANGED issued

\* The owner writes through the pointer get() returned.
Write(id, v) ==
    /\ id \in DOMAIN store
    /\ store' = [store EXCEPT ![id] = v]
    /\ UNCHANGED issued

Next ==
    \/ \E v \in Values : Add(v)
    \/ \E id \in DOMAIN store : Remove(id)
    \/ \E id \in DOMAIN store, v \in Values : Write(id, v)

Spec == Init /\ [][Next]_mapVars
=============================================================================
