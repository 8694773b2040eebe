---------------------------- MODULE MCContainers ----------------------------
(* stable_storage and robin_map for TLC.  The two share nothing, so a run in which    *)
(* only one of them moves has every behaviour of either.  The actions of both are     *)
(* listed, so that TLC reports of each how often it was taken.                        *)
EXTENDS StableStorage, RobinHash

VARIABLE moving

mcVars == <<moving, storageVars, vars>>

MCInit == moving \in {"storage", "map"} /\ StorageInit /\ Init

Storage(A) == moving = "storage" /\ A /\ UNCHANGED <<moving, vars>>
Robin(A) == moving = "map" /\ A /\ UNCHANGED <<moving, storageVars>>

MCNext ==
    \/ \E v \in ItemValues : Storage(add(v))
    \/ \E id \in 0 .. MaxId : Storage(remove(id)) \/ Storage(remove_unknown(id))
    \/ \E id \in 0 .. MaxId, v \in ItemValues : Storage(write(id, v))
    \/ \E i \in 1 .. Len(_items), v \in ItemValues : Storage(raw_write(i, v))
    \/ \E k \in Keys, v \in Values : Robin(insert(k, v))
    \/ \E k \in Keys : Robin(erase(k))
    \/ Robin(clear)
    \/ Robin(_resize) \/ Robin(StartItem)
    \/ Robin(ProbeEmpty) \/ Robin(ProbeSame) \/ Robin(ProbeNext)
    \/ Robin(ShiftBack) \/ Robin(ShiftDone)

MCSpec == MCInit /\ [][MCNext]_mcVars /\ WF_vars(Running)
=============================================================================
