---------------------------- MODULE StableStorage ----------------------------
(***************************************************************************)
(* class stable_storage (stable_storage.hpp): a dense vector of items that *)
(* are addressed by ids which stay valid while items move inside it.       *)
(* An index of the code, counted from 0, is here a position counted from  *)
(* 1, in the vectors and in _id_to_index alike.                            *)
(***************************************************************************)
EXTENDS Integers, Sequences

CONSTANTS
    ItemValues, \* contents of an item
    MaxId       \* bound: ids handed out

ASSUME MaxIdAssumption == MaxId \in Nat

VARIABLES _next_id, _items, _index_to_id, _id_to_index

storageVars == <<_next_id, _items, _index_to_id, _id_to_index>>

StorageInit ==
    /\ _next_id = 0
    /\ _items = <<>>
    /\ _index_to_id = <<>>
    /\ _id_to_index = [id \in {} |-> {}]

\* Every vector without its last element (pop_back).
PopBack(s) == SubSeq(s, 1, Len(s) - 1)

\* m with k mapped to x (m[k] = x of an unordered_map), and m without k (erase).
Put(m, k, x) == [j \in DOMAIN m \cup {k} |-> IF j = k THEN x ELSE m[j]]
Erase(m, k)  == [j \in DOMAIN m \ {k} |-> m[j]]

\* Mutants: the item in the hole is not replaced; the items behind the hole close up;
\* the moved item's id is not relinked.
ItemNotMoved(index) == _items
ItemsCloseUp(index) ==
    [i \in 1 .. Len(_items) |-> _items[IF i < index \/ i = Len(_items) THEN i ELSE i + 1]]
NotRelinked(id, moved_id, index) == Erase(_id_to_index, id)

\* Where add() puts the item; the items, and the id table, once the last item has
\* moved to index and id is gone.
NewIndex == Len(_items) + 1
ItemMoved(index) == [_items EXCEPT ![index] = _items[Len(_items)]]
Relinked(id, moved_id, index) == Erase(Put(_id_to_index, moved_id, index), id)

add(value) ==
    /\ _next_id < MaxId
    /\ _next_id' = _next_id + 1
    /\ _items' = Append(_items, value)
    /\ _id_to_index' = Put(_id_to_index, _next_id, NewIndex)
    /\ _index_to_id' = Append(_index_to_id, _next_id)

\* The last item moves into the hole, unless it is the hole.
remove(id) ==
    /\ id \in DOMAIN _id_to_index
    /\ LET index    == _id_to_index[id]
           last     == Len(_items)
           moved_id == _index_to_id[last]
       IN  IF index # last
           THEN /\ _items' = PopBack(ItemMoved(index))
                /\ _index_to_id' = PopBack([_index_to_id EXCEPT ![index] = moved_id])
                /\ _id_to_index' = Relinked(id, moved_id, index)
           ELSE /\ _items' = PopBack(_items)
                /\ _index_to_id' = PopBack(_index_to_id)
                /\ _id_to_index' = Erase(_id_to_index, id)
    /\ UNCHANGED _next_id

\* An id that was removed, or never existed: remove() returns early.
remove_unknown(id) ==
    /\ id \notin DOMAIN _id_to_index
    /\ UNCHANGED storageVars

\* The owner assigns through get(id), ...
write(id, value) ==
    /\ id \in DOMAIN _id_to_index
    /\ _items' = [_items EXCEPT ![_id_to_index[id]] = value]
    /\ UNCHANGED <<_next_id, _index_to_id, _id_to_index>>

\* ... or through raw_at(index), reached by iterating over 0 .. size() - 1.
raw_write(index, value) ==
    /\ index \in 1 .. Len(_items)
    /\ _items' = [_items EXCEPT ![index] = value]
    /\ UNCHANGED <<_next_id, _index_to_id, _id_to_index>>

StorageNext ==
    \/ \E v \in ItemValues : add(v)
    \/ \E id \in 0 .. MaxId : remove(id) \/ remove_unknown(id)
    \/ \E id \in 0 .. MaxId, v \in ItemValues : write(id, v)
    \/ \E i \in 1 .. Len(_items), v \in ItemValues : raw_write(i, v)

StorageSpec == StorageInit /\ [][StorageNext]_storageVars

-----------------------------------------------------------------------------
StorageTypeOK ==
    /\ _next_id \in 0 .. MaxId
    /\ _items \in Seq(ItemValues)
    /\ _index_to_id \in Seq(0 .. MaxId)
    /\ DOMAIN _id_to_index \subseteq 0 .. MaxId
    /\ _id_to_index \in [DOMAIN _id_to_index -> Nat \ {0}]

\* _id_to_index and _index_to_id are inverse bijections between the live ids and
\* the positions of _items: what the swap-with-last of remove() must keep.
IndicesInverse ==
    /\ Len(_index_to_id) = Len(_items)
    /\ \A id \in DOMAIN _id_to_index :
          /\ _id_to_index[id] \in 1 .. Len(_items)
          /\ _index_to_id[_id_to_index[id]] = id
    /\ \A i \in 1 .. Len(_items) :
          /\ _index_to_id[i] \in DOMAIN _id_to_index
          /\ _id_to_index[_index_to_id[i]] = i

\* No id that is still to be handed out is live.
FreshIds == \A id \in DOMAIN _id_to_index : id < _next_id

\* get(id), for a live id.
get(id) == _items[_id_to_index[id]]

\* The class implements a map from ids to values: an item follows its id through
\* every move, a removed id stays unknown and no id is handed out twice.
Store == [id \in DOMAIN _id_to_index |-> get(id)]
Ids == INSTANCE IdMap WITH Values <- ItemValues, store <- Store, issued <- 0 .. _next_id - 1
IsIdMap == Ids!Spec

\* Under the ids it stays a dense_storage: through every remove() the items have no
\* gap, and only the last one changes its place.
Dense == INSTANCE DenseStorage WITH Values <- ItemValues, items <- _items
IsDense == Dense!Spec
=============================================================================
