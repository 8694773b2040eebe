------------------------- MODULE StableStorageProofs -------------------------
(* Theorems about StableStorage, for every set of values and every bound. *)
EXTENDS StableStorage, SequenceTheorems, TLAPS

\* The inductive invariant.
IInv == StorageTypeOK /\ IndicesInverse /\ FreshIds

\* pop_back drops the last element and nothing else.
LEMMA PopBackProperties ==
    ASSUME NEW S, NEW s \in Seq(S), s # <<>>
    PROVE  /\ PopBack(s) \in Seq(S)
           /\ Len(PopBack(s)) = Len(s) - 1
           /\ \A i \in 1 .. Len(s) - 1 : PopBack(s)[i] = s[i]
<1>1. Len(s) \in Nat \ {0} /\ 1 \in Int /\ Len(s) - 1 \in Int
  OBVIOUS
<1>2. \A i \in 1 .. Len(s) - 1 : s[i] \in S
  BY <1>1
<1>3. /\ SubSeq(s, 1, Len(s) - 1) \in Seq(S)
      /\ Len(SubSeq(s, 1, Len(s) - 1)) = Len(s) - 1
      /\ \A i \in 1 .. Len(s) - 1 : SubSeq(s, 1, Len(s) - 1)[i] = s[i]
  <2> DEFINE n == Len(s) - 1
  <2>1. n \in Nat /\ n \in Int /\ \A i \in 1 .. n : s[i] \in S
    BY <1>1, <1>2
  <2> HIDE DEF n
  <2>2. /\ SubSeq(s, 1, n) \in Seq(S)
        /\ Len(SubSeq(s, 1, n)) = IF 1 <= n THEN n - 1 + 1 ELSE 0
        /\ \A i \in 1 .. n - 1 + 1 : SubSeq(s, 1, n)[i] = s[1 + i - 1]
    BY <1>1, <2>1, SubSeqProperties
  <2>3. /\ Len(SubSeq(s, 1, n)) = n
        /\ \A i \in 1 .. n : SubSeq(s, 1, n)[i] = s[i]
    BY <2>1, <2>2
  <2> QED  BY <2>2, <2>3 DEF n
<1> QED  BY <1>3 DEF PopBack

LEMMA InitInv == StorageInit => IInv
BY MaxIdAssumption DEF StorageInit, IInv, StorageTypeOK, IndicesInverse, FreshIds

\* add() puts a fresh id at the end of both vectors.
LEMMA AddStep ==
    ASSUME IInv, NEW v \in ItemValues, add(v)
    PROVE  IInv'
<1> DEFINE last == Len(_items)
<1> USE DEF IInv
<1>1. /\ last \in Nat /\ Len(_index_to_id) = last
      /\ Len(_items') = last + 1 /\ Len(_index_to_id') = last + 1
      /\ _items' \in Seq(ItemValues) /\ _index_to_id' \in Seq(0 .. MaxId)
      /\ \A i \in 1 .. last : _index_to_id'[i] = _index_to_id[i]
      /\ _index_to_id'[last + 1] = _next_id
  <2>1. last \in Nat /\ Len(_index_to_id) = last
    BY DEF StorageTypeOK, IndicesInverse
  <2>2. Len(_items') = last + 1 /\ _items' \in Seq(ItemValues)
    BY AppendProperties DEF StorageTypeOK, add
  <2>3. /\ _index_to_id' \in Seq(0 .. MaxId) /\ Len(_index_to_id') = Len(_index_to_id) + 1
        /\ \A i \in 1 .. Len(_index_to_id) : _index_to_id'[i] = _index_to_id[i]
        /\ _index_to_id'[Len(_index_to_id) + 1] = _next_id
    BY AppendProperties DEF StorageTypeOK, add
  <2> QED  BY <2>1, <2>2, <2>3
<1>2. /\ _next_id \in 0 .. MaxId - 1 /\ _next_id' = _next_id + 1
      /\ _next_id \notin DOMAIN _id_to_index
  BY MaxIdAssumption DEF add, StorageTypeOK, FreshIds
<1>3. /\ DOMAIN _id_to_index' = DOMAIN _id_to_index \cup {_next_id}
      /\ _id_to_index'[_next_id] = last + 1
      /\ \A j \in DOMAIN _id_to_index : _id_to_index'[j] = _id_to_index[j]
      /\ _id_to_index' \in [DOMAIN _id_to_index' -> Nat \ {0}]
  <2>1. _id_to_index' = Put(_id_to_index, _next_id, last + 1)
    BY DEF add, NewIndex
  <2>2. /\ DOMAIN _id_to_index' = DOMAIN _id_to_index \cup {_next_id}
        /\ _id_to_index'[_next_id] = last + 1
        /\ \A j \in DOMAIN _id_to_index : _id_to_index'[j] = _id_to_index[j]
    BY <1>2, <2>1 DEF Put
  <2>3. ASSUME NEW j \in DOMAIN _id_to_index' PROVE _id_to_index'[j] \in Nat \ {0}
    <3>1. CASE j = _next_id
      BY <1>1, <2>2, <3>1
    <3>2. CASE j \in DOMAIN _id_to_index
      BY <2>2, <3>2 DEF StorageTypeOK
    <3> QED  BY <2>2, <3>1, <3>2
  <2>4. _id_to_index' = [j \in DOMAIN _id_to_index' |-> _id_to_index'[j]]
    BY <2>1 DEF Put
  <2> QED  BY <2>2, <2>3, <2>4
<1>4. StorageTypeOK'
  <2>1. DOMAIN _id_to_index' \subseteq 0 .. MaxId
    BY <1>2, <1>3, MaxIdAssumption DEF StorageTypeOK
  <2>2. _next_id' \in 0 .. MaxId
    BY <1>2, MaxIdAssumption
  <2> QED  BY <1>1, <1>3, <2>1, <2>2 DEF StorageTypeOK
<1>5. IndicesInverse'
  <2>1. ASSUME NEW id \in DOMAIN _id_to_index'
        PROVE  /\ _id_to_index'[id] \in 1 .. Len(_items')
               /\ _index_to_id'[_id_to_index'[id]] = id
    <3>1. CASE id = _next_id
      <4>1. last + 1 \in 1 .. Len(_items')
        BY <1>1
      <4> QED  BY <1>1, <1>3, <3>1, <4>1
    <3>2. CASE id \in DOMAIN _id_to_index
      <4>1. _id_to_index[id] \in 1 .. last /\ _index_to_id[_id_to_index[id]] = id
        BY <3>2 DEF IndicesInverse
      <4>2. _id_to_index'[id] = _id_to_index[id] /\ _id_to_index[id] \in 1 .. Len(_items')
        BY <1>1, <1>3, <3>2, <4>1
      <4> QED  BY <1>1, <4>1, <4>2
    <3> QED  BY <1>3, <3>1, <3>2
  <2>2. ASSUME NEW i \in 1 .. Len(_items')
        PROVE  /\ _index_to_id'[i] \in DOMAIN _id_to_index'
               /\ _id_to_index'[_index_to_id'[i]] = i
    <3>1. CASE i = last + 1
      BY <1>1, <1>3, <3>1
    <3>2. CASE i # last + 1
      <4>1. i \in 1 .. last
        BY <1>1, <3>2
      <4>2. /\ _index_to_id[i] \in DOMAIN _id_to_index
            /\ _id_to_index[_index_to_id[i]] = i
        BY <4>1 DEF IndicesInverse
      <4> QED  BY <1>1, <1>3, <4>1, <4>2
    <3> QED  BY <3>1, <3>2
  <2> QED  BY <1>1, <2>1, <2>2 DEF IndicesInverse
<1>6. FreshIds'
  BY <1>2, <1>3, MaxIdAssumption DEF FreshIds, StorageTypeOK
<1> QED  BY <1>4, <1>5, <1>6

\* remove(): the vectors shrink by one and the last id takes the freed position.
LEMMA RemoveStep ==
    ASSUME IInv, NEW id \in 0 .. MaxId, remove(id)
    PROVE  IInv'
<1> DEFINE index == _id_to_index[id]
           last  == Len(_items)
           moved == _index_to_id[last]
<1> USE DEF IInv
<1>0. id \in DOMAIN _id_to_index
  BY DEF remove
<1>1. /\ id \in DOMAIN _id_to_index
      /\ index \in 1 .. last
      /\ last \in Nat \ {0}
      /\ Len(_index_to_id) = last
      /\ _items # <<>> /\ _index_to_id # <<>>
      /\ moved \in DOMAIN _id_to_index /\ _id_to_index[moved] = last
      /\ _index_to_id[index] = id
      /\ moved \in 0 .. MaxId
  <2>1. /\ Len(_index_to_id) = last /\ last \in Nat
        /\ index \in 1 .. last /\ _index_to_id[index] = id
    BY <1>0 DEF IndicesInverse, StorageTypeOK
  <2>2. last \in 1 .. last /\ last # 0
    BY <2>1
  <2>3. moved \in DOMAIN _id_to_index /\ _id_to_index[moved] = last
    BY <2>2 DEF IndicesInverse
  <2>4. moved \in 0 .. MaxId
    BY <2>3 DEF StorageTypeOK
  <2>5. _items # <<>> /\ _index_to_id # <<>>
    BY <2>1, <2>2 DEF StorageTypeOK
  <2> QED  BY <1>0, <2>1, <2>2, <2>3, <2>4, <2>5
<1>2. CASE index = last
  <2>1. moved = id
    BY <1>1, <1>2
  <2>2. /\ _items' = PopBack(_items)
        /\ _index_to_id' = PopBack(_index_to_id)
        /\ _id_to_index' = Erase(_id_to_index, id)
    BY <1>2 DEF remove
  <2>3. /\ Len(_items') = last - 1 /\ Len(_index_to_id') = last - 1
        /\ _items' \in Seq(ItemValues) /\ _index_to_id' \in Seq(0 .. MaxId)
        /\ \A i \in 1 .. last - 1 : _index_to_id'[i] = _index_to_id[i]
    BY <1>1, <2>2, PopBackProperties DEF StorageTypeOK
  <2>4. /\ DOMAIN _id_to_index' = DOMAIN _id_to_index \ {id}
        /\ \A j \in DOMAIN _id_to_index \ {id} : _id_to_index'[j] = _id_to_index[j]
    BY <2>2 DEF Erase
  <2>5. StorageTypeOK'
    BY <2>3, <2>4, <2>2 DEF StorageTypeOK, remove, Erase
  <2>6. IndicesInverse'
    <3>1. ASSUME NEW j \in DOMAIN _id_to_index'
          PROVE  /\ _id_to_index'[j] \in 1 .. Len(_items')
                 /\ _index_to_id'[_id_to_index'[j]] = j
      <4>1. /\ j \in DOMAIN _id_to_index /\ j # id
            /\ _id_to_index'[j] = _id_to_index[j]
        BY <2>4
      <4>2. _id_to_index[j] \in 1 .. last /\ _index_to_id[_id_to_index[j]] = j
        BY <4>1 DEF IndicesInverse
      <4>3. _id_to_index[j] # last
        BY <2>1, <4>1, <4>2
      <4>4. _id_to_index[j] \in 1 .. last - 1
        BY <1>1, <4>2, <4>3
      <4> QED  BY <2>3, <4>1, <4>2, <4>4
    <3>2. ASSUME NEW i \in 1 .. Len(_items')
          PROVE  /\ _index_to_id'[i] \in DOMAIN _id_to_index'
                 /\ _id_to_index'[_index_to_id'[i]] = i
      <4>1. i \in 1 .. last - 1 /\ i \in 1 .. last /\ i # last
        BY <1>1, <2>3
      <4>2. _index_to_id'[i] = _index_to_id[i]
        BY <2>3, <4>1
      <4>3. /\ _index_to_id[i] \in DOMAIN _id_to_index
            /\ _id_to_index[_index_to_id[i]] = i
        BY <4>1 DEF IndicesInverse
      <4>4. _index_to_id[i] # id
        BY <1>2, <4>1, <4>3
      <4> QED  BY <2>4, <4>2, <4>3, <4>4
    <3> QED  BY <2>3, <3>1, <3>2 DEF IndicesInverse
  <2>7. FreshIds'
    BY <2>4 DEF FreshIds, remove
  <2> QED  BY <2>5, <2>6, <2>7
<1>3. CASE index # last
  <2>1. moved # id
    BY <1>1, <1>3
  <2>2. /\ _items' = PopBack([_items EXCEPT ![index] = _items[last]])
        /\ _index_to_id' = PopBack([_index_to_id EXCEPT ![index] = moved])
        /\ _id_to_index' = Erase(Put(_id_to_index, moved, index), id)
    BY <1>3 DEF remove, ItemMoved, Relinked
  <2>3. /\ [_items EXCEPT ![index] = _items[last]] \in Seq(ItemValues)
        /\ [_index_to_id EXCEPT ![index] = moved] \in Seq(0 .. MaxId)
        /\ Len([_items EXCEPT ![index] = _items[last]]) = last
        /\ Len([_index_to_id EXCEPT ![index] = moved]) = last
    BY <1>1 DEF StorageTypeOK
  <2>4. /\ Len(_items') = last - 1 /\ Len(_index_to_id') = last - 1
        /\ _items' \in Seq(ItemValues) /\ _index_to_id' \in Seq(0 .. MaxId)
        /\ \A i \in 1 .. last - 1 :
              _index_to_id'[i] = [_index_to_id EXCEPT ![index] = moved][i]
    <3>1. PICK s \in Seq(ItemValues) :
             s = [_items EXCEPT ![index] = _items[last]] /\ Len(s) = last
      BY <2>3
    <3>2. PICK t \in Seq(0 .. MaxId) :
             t = [_index_to_id EXCEPT ![index] = moved] /\ Len(t) = last
      BY <2>3
    <3>3. s # <<>> /\ t # <<>>
      BY <1>1, <3>1, <3>2
    <3>4. _items' \in Seq(ItemValues) /\ Len(_items') = last - 1
      BY ONLY <2>2, <3>1, <3>3, PopBackProperties
    <3>5. /\ _index_to_id' \in Seq(0 .. MaxId) /\ Len(_index_to_id') = last - 1
          /\ \A i \in 1 .. last - 1 : _index_to_id'[i] = t[i]
      BY ONLY <2>2, <3>2, <3>3, PopBackProperties
    <3> QED  BY ONLY <3>2, <3>4, <3>5
  <2>5. ASSUME NEW i \in 1 .. last - 1
        PROVE  _index_to_id'[i] = IF i = index THEN moved ELSE _index_to_id[i]
    <3>1. i \in DOMAIN _index_to_id
      BY <1>1 DEF StorageTypeOK
    <3>2. [_index_to_id EXCEPT ![index] = moved][i]
             = IF i = index THEN moved ELSE _index_to_id[i]
      BY ONLY <3>1
    <3> QED  BY ONLY <2>4, <3>2
  <2>6. /\ DOMAIN _id_to_index' = DOMAIN _id_to_index \ {id}
        /\ \A j \in DOMAIN _id_to_index \ {id} :
              _id_to_index'[j] = IF j = moved THEN index ELSE _id_to_index[j]
    BY <1>1, <2>2 DEF Erase, Put
  <2>7. StorageTypeOK'
    <3>1. _next_id' \in 0 .. MaxId /\ DOMAIN _id_to_index' \subseteq 0 .. MaxId
      BY <2>6 DEF StorageTypeOK, remove
    <3>2. ASSUME NEW j \in DOMAIN _id_to_index'
          PROVE  _id_to_index'[j] \in Nat \ {0}
      <4>1. _id_to_index[j] \in Nat \ {0} /\ index \in Nat \ {0}
        BY <1>1, <2>6 DEF StorageTypeOK
      <4> QED  BY <2>6, <4>1
    <3>3. _id_to_index' = [j \in DOMAIN _id_to_index' |-> _id_to_index'[j]]
      BY <2>2 DEF Erase
    <3> QED  BY <2>4, <3>1, <3>2, <3>3 DEF StorageTypeOK
  <2>8. IndicesInverse'
    <3>1. ASSUME NEW j \in DOMAIN _id_to_index'
          PROVE  /\ _id_to_index'[j] \in 1 .. Len(_items')
                 /\ _index_to_id'[_id_to_index'[j]] = j
      <4>1. j \in DOMAIN _id_to_index /\ j # id
        BY <2>6
      <4>2. _id_to_index[j] \in 1 .. last /\ _index_to_id[_id_to_index[j]] = j
        BY <4>1 DEF IndicesInverse
      <4>3. CASE j = moved
        <5>1. _id_to_index'[j] = index /\ index \in 1 .. last - 1
          BY <1>1, <1>3, <2>6, <4>1, <4>3
        <5> QED  BY <2>4, <2>5, <4>3, <5>1
      <4>4. CASE j # moved
        <5>1. _id_to_index'[j] = _id_to_index[j]
          BY <2>6, <4>1, <4>4
        <5>2. _id_to_index[j] # last /\ _id_to_index[j] # index
          BY <1>1, <4>1, <4>2, <4>4
        <5>3. _id_to_index[j] \in 1 .. last - 1
          BY <1>1, <4>2, <5>2
        <5> QED  BY <2>4, <2>5, <4>2, <5>1, <5>2, <5>3
      <4> QED  BY <4>3, <4>4
    <3>2. ASSUME NEW i \in 1 .. Len(_items')
          PROVE  /\ _index_to_id'[i] \in DOMAIN _id_to_index'
                 /\ _id_to_index'[_index_to_id'[i]] = i
      <4>1. i \in 1 .. last - 1 /\ i \in 1 .. last /\ i # last
        BY <1>1, <2>4
      <4>2. CASE i = index
        BY <1>1, <2>1, <2>5, <2>6, <4>1, <4>2
      <4>3. CASE i # index
        <5>1. _index_to_id'[i] = _index_to_id[i]
          BY <2>5, <4>1, <4>3
        <5>2. /\ _index_to_id[i] \in DOMAIN _id_to_index
              /\ _id_to_index[_index_to_id[i]] = i
          BY <4>1 DEF IndicesInverse
        <5>3. _index_to_id[i] # id /\ _index_to_id[i] # moved
          BY <1>1, <4>1, <4>3, <5>2
        <5> QED  BY <2>6, <5>1, <5>2, <5>3
      <4> QED  BY <4>2, <4>3
    <3> QED  BY <2>4, <3>1, <3>2 DEF IndicesInverse
  <2>9. FreshIds'
    BY <2>6 DEF FreshIds, remove
  <2> QED  BY <2>7, <2>8, <2>9
<1> QED  BY <1>2, <1>3

\* Assigning to an item leaves the indices alone.
LEMMA WriteStep ==
    ASSUME IInv, NEW i \in 1 .. Len(_items), NEW v \in ItemValues, raw_write(i, v)
    PROVE  IInv'
BY DEF IInv, StorageTypeOK, IndicesInverse, FreshIds, raw_write

LEMMA WriteIsRawWrite ==
    ASSUME IInv, NEW id, NEW v, write(id, v)
    PROVE  raw_write(_id_to_index[id], v) /\ _id_to_index[id] \in 1 .. Len(_items)
BY DEF IInv, IndicesInverse, write, raw_write

LEMMA NextInv == IInv /\ [StorageNext]_storageVars => IInv'
<1> SUFFICES ASSUME IInv, [StorageNext]_storageVars PROVE IInv'
  OBVIOUS
<1>1. ASSUME NEW v \in ItemValues, add(v) PROVE IInv'
  BY <1>1, AddStep
<1>2. ASSUME NEW id \in 0 .. MaxId, remove(id) PROVE IInv'
  BY <1>2, RemoveStep
<1>3. ASSUME NEW id \in 0 .. MaxId, NEW v \in ItemValues, write(id, v) PROVE IInv'
  BY <1>3, WriteIsRawWrite, WriteStep
<1>4. ASSUME NEW i \in 1 .. Len(_items), NEW v \in ItemValues, raw_write(i, v) PROVE IInv'
  BY <1>4, WriteStep
<1>5. CASE UNCHANGED storageVars
  BY <1>5 DEF IInv, StorageTypeOK, IndicesInverse, FreshIds, storageVars
<1> QED  BY <1>1, <1>2, <1>3, <1>4, <1>5 DEF StorageNext, remove_unknown

LEMMA Invariance == StorageSpec => []IInv
BY InitInv, NextInv, PTL DEF StorageSpec

-----------------------------------------------------------------------------
(* Every operation is an operation of the map, or leaves the map alone. *)

LEMMA AddRefines ==
    ASSUME IInv, NEW v \in ItemValues, add(v)
    PROVE  Ids!Add(v)
<1> USE MaxIdAssumption DEF IInv, StorageTypeOK, IndicesInverse, FreshIds
<1> DEFINE issued == 0 .. _next_id - 1
<1>1. /\ issued' = issued \cup {_next_id}
      /\ _next_id \in issued' \ issued
  BY DEF add
<1>2. _next_id \notin DOMAIN _id_to_index
  OBVIOUS
<1>3. DOMAIN Store = DOMAIN _id_to_index
  BY DEF Store
<1>4. DOMAIN Store' = DOMAIN Store \cup {_next_id}
  BY <1>3 DEF Store, add, NewIndex, Put
<1>5. ASSUME NEW j \in DOMAIN Store'
      PROVE  Store'[j] = IF j = _next_id THEN v ELSE Store[j]
  <2>1. CASE j = _next_id
    BY <1>4, <2>1 DEF Store, get, add, NewIndex, Put
  <2>2. CASE j # _next_id
    <3>1. j \in DOMAIN _id_to_index /\ j \in DOMAIN _id_to_index'
      BY <1>3, <1>4, <2>2 DEF Store
    <3>2. _id_to_index'[j] = _id_to_index[j] /\ _id_to_index[j] \in 1 .. Len(_items)
      BY <2>2, <3>1 DEF add, NewIndex, Put
    <3>3. _items'[_id_to_index[j]] = _items[_id_to_index[j]]
      BY <3>2 DEF add
    <3> QED  BY <2>2, <3>1, <3>2, <3>3 DEF Store, get
  <2> QED  BY <2>1, <2>2
<1>6. Store' = [j \in DOMAIN Store \cup {_next_id} |->
                  IF j = _next_id THEN v ELSE Store[j]]
  BY <1>4, <1>5 DEF Store
<1> QED  BY <1>1, <1>6 DEF Ids!Add

LEMMA RemoveRefines ==
    ASSUME IInv, NEW id \in 0 .. MaxId, remove(id)
    PROVE  id \in DOMAIN Store /\ Ids!Remove(id)
<1> DEFINE index == _id_to_index[id]
           last  == Len(_items)
           moved == _index_to_id[last]
<1> USE DEF IInv
<1>0. id \in DOMAIN _id_to_index
  BY DEF remove
<1>1. /\ id \in DOMAIN _id_to_index
      /\ index \in 1 .. last
      /\ last \in Nat \ {0}
      /\ Len(_index_to_id) = last
      /\ _items # <<>>
      /\ moved \in DOMAIN _id_to_index /\ _id_to_index[moved] = last
      /\ _index_to_id[index] = id
  <2>1. /\ Len(_index_to_id) = last /\ last \in Nat
        /\ index \in 1 .. last /\ _index_to_id[index] = id
    BY <1>0 DEF IndicesInverse, StorageTypeOK
  <2>2. last \in 1 .. last /\ last # 0
    BY <2>1
  <2>3. moved \in DOMAIN _id_to_index /\ _id_to_index[moved] = last
    BY <2>2 DEF IndicesInverse
  <2>4. moved \in 0 .. MaxId
    BY <2>3 DEF StorageTypeOK
  <2>5. _items # <<>> /\ _index_to_id # <<>>
    BY <2>1, <2>2 DEF StorageTypeOK
  <2> QED  BY <1>0, <2>1, <2>2, <2>3, <2>4, <2>5
<1>2. /\ DOMAIN Store = DOMAIN _id_to_index
      /\ DOMAIN Store' = DOMAIN _id_to_index \ {id}
  BY <1>1 DEF Store, remove, ItemMoved, Relinked, Erase, Put
<1>3. ASSUME NEW j \in DOMAIN Store'
      PROVE  Store'[j] = Store[j]
  <2>1. /\ j \in DOMAIN _id_to_index /\ j \in DOMAIN _id_to_index' /\ j # id
        /\ Store'[j] = _items'[_id_to_index'[j]]
        /\ Store[j] = _items[_id_to_index[j]]
        /\ _id_to_index[j] \in 1 .. last
        /\ _index_to_id[_id_to_index[j]] = j
    BY <1>2 DEF Store, get, IndicesInverse
  <2>2. CASE index = last
    <3>1. _id_to_index'[j] = _id_to_index[j] /\ _items' = PopBack(_items)
      BY <1>2, <2>1, <2>2 DEF remove, Relinked, Erase
    <3>2. _id_to_index[j] \in 1 .. last - 1
      BY <1>1, <2>1, <2>2
    <3>3. _items'[_id_to_index[j]] = _items[_id_to_index[j]]
      BY <1>1, <3>1, <3>2, PopBackProperties DEF StorageTypeOK
    <3> QED  BY <2>1, <3>1, <3>3
  <2>3. CASE index # last
    <3> DEFINE swapped == [_items EXCEPT ![index] = _items[last]]
    <3>1. /\ _items' = PopBack(swapped)
          /\ _id_to_index'[j] = IF j = moved THEN index ELSE _id_to_index[j]
      BY <1>1, <1>2, <2>1, <2>3 DEF remove, ItemMoved, Relinked, Erase, Put
    <3>2. swapped \in Seq(ItemValues) /\ Len(swapped) = last /\ swapped # <<>>
      BY <1>1 DEF StorageTypeOK
    <3>3. \A i \in 1 .. last - 1 : _items'[i] = IF i = index THEN _items[last] ELSE _items[i]
      <4>1. \A i \in 1 .. last - 1 : _items'[i] = swapped[i]
        <5> HIDE DEF swapped, last
        <5> QED  BY <3>1, <3>2, PopBackProperties
      <4>2. \A i \in 1 .. last - 1 :
               swapped[i] = IF i = index THEN _items[last] ELSE _items[i]
        BY <1>1 DEF StorageTypeOK
      <4> QED  BY <4>1, <4>2
    <3>4. CASE j = moved
      <4>1. index \in 1 .. last - 1
        BY <1>1, <2>3
      <4> QED  BY <1>1, <2>1, <3>1, <3>3, <3>4, <4>1
    <3>5. CASE j # moved
      <4>1. _id_to_index[j] \in 1 .. last - 1 /\ _id_to_index[j] # index
        BY <1>1, <2>1, <3>5
      <4> QED  BY <2>1, <3>1, <3>3, <3>5, <4>1
    <3> QED  BY <3>4, <3>5
  <2> QED  BY <2>2, <2>3
<1>4. Store' = [j \in DOMAIN Store \ {id} |-> Store[j]]
  BY <1>2, <1>3 DEF Store
<1>5. (0 .. _next_id - 1)' = 0 .. _next_id - 1
  BY DEF remove
<1> QED  BY <1>1, <1>2, <1>4, <1>5 DEF Ids!Remove

LEMMA WriteRefines ==
    ASSUME IInv, NEW i \in 1 .. Len(_items), NEW v \in ItemValues, raw_write(i, v)
    PROVE  \E id \in DOMAIN Store : Ids!Write(id, v)
<1> DEFINE id == _index_to_id[i]
<1> USE DEF IInv
<1>1. /\ id \in DOMAIN _id_to_index /\ _id_to_index[id] = i
      /\ DOMAIN Store = DOMAIN _id_to_index /\ DOMAIN Store' = DOMAIN _id_to_index
  BY DEF IndicesInverse, Store, raw_write
<1>2. ASSUME NEW j \in DOMAIN Store'
      PROVE  Store'[j] = IF j = id THEN v ELSE Store[j]
  <2>1. /\ j \in DOMAIN _id_to_index
        /\ _id_to_index[j] \in 1 .. Len(_items)
        /\ _index_to_id[_id_to_index[j]] = j
        /\ Store'[j] = _items'[_id_to_index[j]]
        /\ Store[j] = _items[_id_to_index[j]]
    BY <1>1 DEF IndicesInverse, Store, get, raw_write
  <2>2. _items'[_id_to_index[j]] = IF _id_to_index[j] = i THEN v ELSE _items[_id_to_index[j]]
    BY <2>1 DEF raw_write, StorageTypeOK
  <2> QED  BY <1>1, <2>1, <2>2
<1>3. Store' = [Store EXCEPT ![id] = v]
  BY <1>1, <1>2 DEF Store
<1>4. (0 .. _next_id - 1)' = 0 .. _next_id - 1
  BY DEF raw_write
<1> QED  BY <1>1, <1>3, <1>4 DEF Ids!Write

LEMMA InitRefines == StorageInit => Ids!Init
BY DEF StorageInit, Ids!Init, Store

LEMMA StepRefines == IInv /\ [StorageNext]_storageVars => [Ids!Next]_(Ids!mapVars)
<1> SUFFICES ASSUME IInv, [StorageNext]_storageVars PROVE [Ids!Next]_(Ids!mapVars)
  OBVIOUS
<1>1. ASSUME NEW v \in ItemValues, add(v) PROVE Ids!Next
  BY <1>1, AddRefines DEF Ids!Next
<1>2. ASSUME NEW id \in 0 .. MaxId, remove(id) PROVE Ids!Next
  BY <1>2, RemoveRefines DEF Ids!Next
<1>3. ASSUME NEW i \in 1 .. Len(_items), NEW v \in ItemValues, raw_write(i, v) PROVE Ids!Next
  BY <1>3, WriteRefines DEF Ids!Next
<1>4. ASSUME NEW id \in 0 .. MaxId, NEW v \in ItemValues, write(id, v) PROVE Ids!Next
  BY <1>3, <1>4, WriteIsRawWrite
<1>5. CASE UNCHANGED storageVars
  BY <1>5 DEF storageVars, Ids!mapVars, Store, get
<1> QED  BY <1>1, <1>2, <1>3, <1>4, <1>5 DEF StorageNext, remove_unknown


\* The type invariant of stable_storage.
THEOREM TypeCorrect == StorageSpec => []StorageTypeOK
BY Invariance, PTL DEF IInv

\* add() and remove() keep _id_to_index and _index_to_id inverse to each other.
THEOREM IndicesStayInverse == StorageSpec => []IndicesInverse
BY Invariance, PTL DEF IInv

\* stable_storage implements a map from ids to values: through every sequence of
\* operations an item follows its id, and no id is handed out twice.
THEOREM StorageImplementsIdMap == StorageSpec => IsIdMap
BY InitRefines, StepRefines, Invariance, PTL DEF StorageSpec, IsIdMap, Ids!Spec

\* stable_storage moves its items as dense_storage does: a remove fills the hole with
\* the last item and leaves every other index alone.
THEOREM StorageIsDense == StorageSpec => IsDense
<1>1. StorageInit => Dense!Init  BY DEF StorageInit, Dense!Init
<1>2. IInv /\ [StorageNext]_storageVars => [Dense!Next]_(_items)
  <2> SUFFICES ASSUME IInv, StorageNext PROVE Dense!Next \/ UNCHANGED _items
    BY DEF storageVars
  <2>1. ASSUME NEW v \in ItemValues, add(v) PROVE Dense!Next
    BY <2>1 DEF add, Dense!Next, Dense!add
  <2>2. ASSUME NEW id \in 0 .. MaxId, remove(id) PROVE Dense!Next
    <3> DEFINE index == _id_to_index[id]
    <3>1. index \in 1 .. Len(_items)  BY <2>2 DEF IInv, IndicesInverse, remove
    <3>2. index = Len(_items) => [_items EXCEPT ![index] = _items[Len(_items)]] = _items
      BY <3>1 DEF IInv, StorageTypeOK
    <3>3. Dense!remove(index)
      BY <2>2, <3>1, <3>2 DEF remove, ItemMoved, PopBack, Dense!remove
    <3> QED BY <3>1, <3>3 DEF Dense!Next
  <2>3. ASSUME NEW i \in 1 .. Len(_items), NEW v \in ItemValues, raw_write(i, v) PROVE Dense!Next
    BY <2>3 DEF raw_write, Dense!Next, Dense!write
  <2>4. ASSUME NEW id \in 0 .. MaxId, NEW v \in ItemValues, write(id, v) PROVE Dense!Next
    BY <2>4 DEF IInv, IndicesInverse, write, Dense!Next, Dense!write
  <2> QED BY <2>1, <2>2, <2>3, <2>4 DEF StorageNext, remove_unknown, storageVars
<1> QED BY <1>1, <1>2, Invariance, PTL DEF StorageSpec, IsDense, Dense!Spec
=============================================================================
