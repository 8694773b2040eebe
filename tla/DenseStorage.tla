----------------------------- MODULE DenseStorage -----------------------------
(***************************************************************************)
(* class dense_storage (dense_storage.hpp): items without gaps, addressed  *)
(* by position.  A position of the code, counted from 0, is here counted   *)
(* from 1.                                                                 *)
(***************************************************************************)
EXTENDS Naturals, Sequences

CONSTANT Values

VARIABLE items

Init == items = <<>>

add(value) == items' = Append(items, value)

\* The last item takes the place of the one removed: its index changes.
remove(index) ==
    /\ index \in 1 .. Len(items)
    /\ items' = SubSeq([items EXCEPT ![index] = items[Len(items)]], 1, Len(items) - 1)

\* Through operator[] or an iterator.
write(index, value) ==
    /\ index \in 1 .. Len(items)
    /\ items' = [items EXCEPT ![index] = value]

Next ==
    \/ \E v \in Values : add(v)
    \/ \E i \in 1 .. Len(items) : remove(i)
    \/ \E i \in 1 .. Len(items), v \in Values : write(i, v)

Spec == Init /\ [][Next]_items
=============================================================================
