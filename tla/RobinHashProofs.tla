--------------------------- MODULE RobinHashProofs ---------------------------
(***************************************************************************)
(* Theorems about RobinHash, for every value of its constants: a probing   *)
(* loop always meets a free slot; and, in every run in which the assertion *)
(* of insert() holds, the order of the table is kept, find() finds every   *)
(* key, and the table implements a map.  The assertion holds in every      *)
(* small table.                                                            *)
(***************************************************************************)
EXTENDS RobinHash, FiniteSetTheorems, WellFoundedInduction, TLAPS

Items == [key : Keys, value : Values]
Nodes == [key : Keys, value : Values, distance : Nat] \cup {EmptyNode}
Slots == 0 .. Capacity - 1

\* How many items the running insert still brings, and the load they make.
Pending == Len(queue) + (IF pc = "probe" THEN 1 ELSE 0)

\* The load factor test keeps the table from filling up; the bound of the model on a
\* growing table is the guard of insert().
LoadInv ==
    /\ 10 * count <= 7 * Capacity
    /\ pc = "probe" => 10 * (count + 1) <= 7 * Capacity
    /\ \/ 10 * (count + Pending) <= 7 * Capacity
       \/ pc = "start" /\ Len(queue) = 1 /\ 2 * Capacity <= MaxCapacity
    /\ Capacity = InitialCapacity \/ Capacity <= MaxCapacity

\* The types, and the count that the load factor test relies on.
TInv ==
    /\ Capacity \in Nat \ {0} /\ table \in [Slots -> Nodes]
    /\ count = Cardinality(Live)
    /\ queue \in Seq(Items)
    /\ pc \in {"idle", "start", "probe", "shift"}
    /\ pc = "probe" => item \in Items /\ pos \in Slots /\ dist \in Nat
    /\ pc # "probe" => dist = 0
    /\ pc = "shift" => pos \in Live
    /\ pc = "start" => queue # <<>>
    /\ pc \in {"idle", "shift"} => queue = <<>>
    /\ LoadInv

-----------------------------------------------------------------------------
\* The slot k slots before slot i, going round the table.
Back(i, k) == IF k <= i THEN i - k ELSE i - k + Capacity

\* The d slots before slot p are filled, and no entry in them is nearer to its home than
\* one that ends up in p, d slots from its home, was there itself.
Run(p, d) ==
    /\ d < Capacity
    /\ \A k \in 1 .. d : Back(p, k) \in Live /\ table[Back(p, k)].distance + k >= d

\* The entry of slot i is as far from its home as it says, by such a run.
Settled(i) ==
    /\ table[i].distance < DistanceMax
    /\ Masked(table[i].key) = Back(i, table[i].distance)
    /\ Run(i, table[i].distance)

\* What erase() has moved away, or found, but not yet overwritten.
Hole == IF pc = "shift" THEN {pos} ELSE {}

KeysUnique ==
    \A i, j \in Live \ Hole : table[i].key = table[j].key => i = j

\* The same of the item that insert() holds at slot pos; where its key is in the table, it
\* is not behind pos.
ItemFits ==
    pc = "probe" =>
        /\ Masked(item.key) = Back(pos, dist)
        /\ Run(pos, dist)
        /\ \A i \in Live : table[i].key = item.key => table[i].distance >= dist

\* The inductive invariant of the order.
OInv == (\A i \in Live : Settled(i)) /\ KeysUnique /\ ItemFits

\* The assertion at the end of a round of insert()'s loop (line 84).
Asserted == dist < DistanceMax

-----------------------------------------------------------------------------
(* Numbers: least elements, remainders, and walking round the table. *)

LEMMA LeastElement ==
    ASSUME NEW S \in SUBSET Nat, S # {}
    PROVE  \E m \in S : \A n \in S : m <= n
<1> DEFINE R == OpToRel(<, Nat)
<1>1. IsWellFoundedOn(R, Nat)
  BY NatLessThanWellFounded
<1>2. \A x, y \in Nat : x < y => <<x, y>> \in R
  BY DEF OpToRel
<1> HIDE DEF R
<1>3. PICK x \in S : \A y \in S : <<y, x>> \notin R
  BY <1>1, WFMin
<1>4. ASSUME NEW n \in S PROVE x <= n
  <2>1. x \in Nat /\ n \in Nat
    OBVIOUS
  <2>2. ~(n < x)
    BY <1>2, <1>3, <2>1
  <2> QED  BY <2>1, <2>2
<1> QED  BY <1>4

LEMMA DivMod ==
    ASSUME NEW x \in Nat, NEW c \in Nat \ {0}
    PROVE  x % c \in 0 .. c - 1 /\ x \div c \in Nat /\ x = c * (x \div c) + (x % c)
OBVIOUS

LEMMA ModUnique ==
    ASSUME NEW q \in Nat, NEW c \in Nat \ {0}, NEW r \in 0 .. c - 1
    PROVE  (c * q + r) % c = r
OBVIOUS

LEMMA ModSmall ==
    ASSUME NEW c \in Nat \ {0}, NEW r \in 0 .. c - 1
    PROVE  r % c = r
OBVIOUS

LEMMA ModPlus ==
    ASSUME NEW x \in Nat, NEW c \in Nat \ {0}, NEW i \in 0 .. c
    PROVE  (x + i) % c = IF (x % c) + i < c THEN (x % c) + i ELSE (x % c) + i - c
<1> DEFINE q == x \div c
           r == x % c
<1>1. q \in Nat /\ r \in 0 .. c - 1 /\ x = c * q + r
  BY DivMod
<1> HIDE DEF q, r
<1>2. CASE r + i < c
  <2>1. x + i = c * q + (r + i) /\ r + i \in 0 .. c - 1
    BY <1>1, <1>2
  <2>2. (c * q + (r + i)) % c = r + i
    BY <1>1, <2>1, ModUnique
  <2> QED  BY <1>2, <2>1, <2>2 DEF r
<1>3. CASE r + i >= c
  <2>1. r + i - c \in 0 .. c - 1 /\ q + 1 \in Nat /\ c * q \in Nat
    BY <1>1, <1>3
  <2>2. c * (q + 1) = c * q + c
    BY <1>1
  <2>3. x + i = c * (q + 1) + (r + i - c)
    BY <1>1, <2>1, <2>2
  <2>4. (c * (q + 1) + (r + i - c)) % c = r + i - c
    BY ONLY <2>1, ModUnique, c \in Nat \ {0}
  <2> QED  BY <1>1, <1>3, <2>3, <2>4 DEF r
<1> QED  BY <1>1, <1>2, <1>3

LEMMA MaskedType ==
    ASSUME Capacity \in Nat \ {0}, NEW x \in Nat
    PROVE  Masked(x) \in Slots
BY DivMod DEF Masked, Slots

LEMMA MaskedPlus ==
    ASSUME Capacity \in Nat \ {0}, NEW x \in Nat, NEW k \in 0 .. Capacity
    PROVE  Masked(x + k) = IF Masked(x) + k < Capacity THEN Masked(x) + k
                           ELSE Masked(x) + k - Capacity
BY ModPlus DEF Masked

LEMMA NextSlot ==
    ASSUME Capacity \in Nat \ {0}, NEW i \in Slots
    PROVE  /\ Masked(i + 1) \in Slots
           /\ Masked(i + 1) = IF i + 1 < Capacity THEN i + 1 ELSE 0
<1>1. i \in Nat /\ 1 \in 0 .. Capacity /\ Masked(i) = i
  BY ModSmall DEF Slots, Masked
<1>2. Masked(i + 1) = IF i + 1 < Capacity THEN i + 1 ELSE i + 1 - Capacity
  BY <1>1, MaskedPlus
<1> QED  BY <1>2 DEF Slots

LEMMA BackType ==
    ASSUME Capacity \in Nat \ {0}, NEW i \in Slots, NEW k \in 0 .. Capacity
    PROVE  Back(i, k) \in Slots
BY DEF Back, Slots

\* The slot before the next one is this one.
LEMMA BackNext ==
    ASSUME Capacity \in Nat \ {0}, NEW i \in Slots, NEW k \in 1 .. Capacity
    PROVE  Back(Masked(i + 1), k) = Back(i, k - 1)
<1>1. Masked(i + 1) = IF i + 1 < Capacity THEN i + 1 ELSE 0
  BY NextSlot
<1> QED  BY <1>1 DEF Back, Slots

LEMMA BackZero ==
    ASSUME Capacity \in Nat \ {0}, NEW i \in Slots
    PROVE  Back(i, 0) = i
BY DEF Back, Slots

LEMMA BackTwice ==
    ASSUME Capacity \in Nat \ {0}, NEW i \in Slots, NEW a \in Nat, NEW b \in Nat,
           a + b <= Capacity
    PROVE  Back(Back(i, a), b) = Back(i, a + b)
BY DEF Back, Slots

\* Different numbers of slots before a slot lead to different slots, and the same number
\* of slots before different ones too.
LEMMA BackInjective ==
    ASSUME Capacity \in Nat \ {0}, NEW i \in Slots, NEW j \in Slots,
           NEW a \in 0 .. Capacity - 1, NEW b \in 0 .. Capacity - 1
    PROVE  /\ Back(i, a) = Back(i, b) => a = b
           /\ Back(i, a) = Back(j, a) => i = j
           /\ Back(i, a) = i => a = 0
BY DEF Back, Slots

\* The slots at two distances from a common home are that much apart.
LEMMA BackDifference ==
    ASSUME Capacity \in Nat \ {0}, NEW i \in Slots, NEW j \in Slots,
           NEW a \in 0 .. Capacity - 1, NEW b \in 0 .. a,
           Back(i, a) = Back(j, b)
    PROVE  j = Back(i, a - b)
BY DEF Back, Slots

\* Every slot is before every other.
LEMMA BackReaches ==
    ASSUME Capacity \in Nat \ {0}, NEW i \in Slots, NEW j \in Slots
    PROVE  \E k \in 1 .. Capacity : Back(i, k) = j
<1> DEFINE k == IF j < i THEN i - j ELSE i - j + Capacity
<1>1. k \in 1 .. Capacity /\ Back(i, k) = j
  BY DEF Back, Slots
<1> QED  BY <1>1

-----------------------------------------------------------------------------
(* The count and the load. *)

LEMMA TableFinite ==
    ASSUME TInv
    PROVE  /\ DOMAIN table = Slots /\ Live \subseteq Slots
           /\ IsFiniteSet(Slots) /\ Cardinality(Slots) = Capacity
           /\ IsFiniteSet(Live) /\ count \in Nat
<1>1. Capacity \in Nat \ {0} /\ table \in [Slots -> Nodes] /\ count = Cardinality(Live)
  BY DEF TInv
<1>2. DOMAIN table = Slots /\ Live \subseteq Slots
  BY <1>1 DEF Live
<1>3. IsFiniteSet(Slots) /\ Cardinality(Slots) = Capacity
  <2>1. 0 \in Int /\ Capacity - 1 \in Int /\ ~(0 > Capacity - 1)
        /\ (Capacity - 1) - 0 + 1 = Capacity
    BY <1>1
  <2> QED  BY <2>1, FS_Interval DEF Slots
<1>4. IsFiniteSet(Live) /\ Cardinality(Live) \in Nat
  BY <1>2, <1>3, FS_Subset, FS_CardinalityType
<1> QED  BY <1>1, <1>2, <1>3, <1>4

\* Most steps write one slot, or none.
LEMMA Unwritten ==
    ASSUME TInv, UNCHANGED table
    PROVE  Capacity' = Capacity /\ Slots' = Slots /\ Live' = Live
BY DEF Capacity, Slots, Live, IsEmpty

LEMMA Written ==
    ASSUME TInv, NEW i \in Slots, NEW n \in Nodes, table' = [table EXCEPT ![i] = n]
    PROVE  /\ Capacity' = Capacity /\ Slots' = Slots /\ table' \in [Slots -> Nodes]
           /\ table'[i] = n /\ \A j \in Slots : j # i => table'[j] = table[j]
           /\ Live' = IF n.key = EmptyKey THEN Live \ {i} ELSE Live \cup {i}
<1>1. table \in [Slots -> Nodes]
  BY DEF TInv
<1>2. DOMAIN table' = DOMAIN table
  BY <1>1
<1>3. Capacity' = Capacity /\ Slots' = Slots
  BY <1>2 DEF Capacity, Slots
<1>4. /\ table' \in [Slots -> Nodes]
      /\ table'[i] = n /\ \A j \in Slots : j # i => table'[j] = table[j]
  BY <1>1
<1>5. Live' = {j \in Slots : table'[j].key # EmptyKey}
      /\ Live = {j \in Slots : table[j].key # EmptyKey}
  BY <1>1, <1>4 DEF Live, IsEmpty
<1>6. Live' = IF n.key = EmptyKey THEN Live \ {i} ELSE Live \cup {i}
  BY <1>4, <1>5
<1> QED  BY <1>3, <1>4, <1>6

LEMMA EmptyTable ==
    ASSUME NEW size \in Nat \ {0}
    PROVE  /\ NewTable(size) \in [0 .. size - 1 -> Nodes]
           /\ DOMAIN NewTable(size) = 0 .. size - 1
           /\ Cardinality(DOMAIN NewTable(size)) = size
           /\ \A i \in 0 .. size - 1 : NewTable(size)[i].key = EmptyKey
<1>1. /\ NewTable(size) \in [0 .. size - 1 -> Nodes]
      /\ DOMAIN NewTable(size) = 0 .. size - 1
      /\ \A i \in 0 .. size - 1 : NewTable(size)[i].key = EmptyKey
  BY DEF NewTable, EmptyNode, Nodes
<1>2. Cardinality(0 .. size - 1) = size
  <2>1. 0 \in Int /\ size - 1 \in Int /\ ~(0 > size - 1) /\ (size - 1) - 0 + 1 = size
    OBVIOUS
  <2> QED  BY <2>1, FS_Interval
<1> QED  BY <1>1, <1>2

\* A new table after a step.
LEMMA Emptied ==
    ASSUME NEW size \in Nat \ {0}, table' = NewTable(size)
    PROVE  Capacity' = size /\ table' \in [Slots' -> Nodes] /\ Live' = {}
BY EmptyTable DEF Capacity, Slots, Live, IsEmpty

\* The numbers of a finite set have different ranks, so the n-th of them exists, and each
\* of them is the n-th for some n.
LEMMA InOrderType ==
    ASSUME NEW S \in SUBSET Nat, IsFiniteSet(S)
    PROVE  /\ \A n \in 1 .. Cardinality(S) : InOrder(S)[n] \in S
           /\ \A i \in S : \E n \in 1 .. Cardinality(S) : InOrder(S)[n] = i
<1> DEFINE UpTo(i) == {j \in S : j <= i}
           rank == [i \in S |-> Cardinality(UpTo(i))]
           c == Cardinality(S)
<1>1. c \in Nat
  BY FS_CardinalityType
<1>2. ASSUME NEW i \in S
      PROVE  IsFiniteSet(UpTo(i)) /\ rank[i] \in 1 .. c
  <2>1. UpTo(i) \in SUBSET S /\ i \in UpTo(i)
    OBVIOUS
  <2>2. IsFiniteSet(UpTo(i)) /\ Cardinality(UpTo(i)) <= c /\ Cardinality(UpTo(i)) \in Nat
    <3> HIDE DEF UpTo
    <3> QED  BY <2>1, FS_Subset, FS_CardinalityType
  <2>3. Cardinality(UpTo(i)) # 0
    <3> HIDE DEF UpTo
    <3> QED  BY <2>1, <2>2, FS_EmptySet
  <2> QED  BY <1>1, <2>2, <2>3
<1>3. ASSUME NEW i \in S, NEW j \in S, i < j
      PROVE  rank[i] # rank[j]
  <2>1. UpTo(i) \in SUBSET UpTo(j) /\ j \in UpTo(j) /\ j \notin UpTo(i)
    <3>1. ASSUME NEW k \in S, k <= i
          PROVE  k <= j
      <4>1. k \in Nat /\ i \in Nat /\ j \in Nat
        OBVIOUS
      <4> QED  BY <1>3, <3>1, <4>1
    <3>2. i \in Nat /\ j \in Nat /\ ~(j <= i) /\ j <= j
      BY <1>3
    <3> QED  BY <3>1, <3>2
  <2> HIDE DEF UpTo
  <2>2. UpTo(i) # UpTo(j) /\ IsFiniteSet(UpTo(j))
    BY <1>2, <2>1
  <2>3. Cardinality(UpTo(j)) # Cardinality(UpTo(i))
    BY <2>1, <2>2, FS_Subset
  <2> QED  BY <2>3
<1>4. rank \in Injection(S, 1 .. c)
  <2>1. rank \in [S -> 1 .. c]
    BY <1>2
  <2>2. ASSUME NEW i \in S, NEW j \in S, i # j
        PROVE  rank[i] # rank[j]
    <3>1. i < j \/ j < i
      BY <2>2
    <3> HIDE DEF rank
    <3> QED  BY <1>3, <3>1
  <2> HIDE DEF rank
  <2> QED  BY <2>1, <2>2 DEF Injection, IsInjective
<1>5. rank \in Surjection(S, 1 .. c)
  <2>1. IsFiniteSet(1 .. c) /\ Cardinality(1 .. c) = c
    <3>1. 1 \in Int /\ c \in Int /\ (1 > c => c = 0) /\ c - 1 + 1 = c
      BY <1>1
    <3> QED  BY <3>1, FS_Interval
  <2> HIDE DEF rank, c
  <2>2. Cardinality(S) = Cardinality(1 .. c)
    BY <2>1 DEF c
  <2> QED  BY <1>4, <2>1, <2>2, FS_Injection
<1>6. ASSUME NEW n \in 1 .. c
      PROVE  InOrder(S)[n] \in S /\ rank[InOrder(S)[n]] = n
  <2>1. PICK i \in S : rank[i] = n
    <3> HIDE DEF rank
    <3> QED  BY <1>5 DEF Surjection
  <2>2. Cardinality({j \in S : j <= i}) = n
    BY <2>1
  <2>3. InOrder(S)[n] = CHOOSE k \in S : Cardinality({j \in S : j <= k}) = n
    BY DEF InOrder
  <2>4. InOrder(S)[n] \in S /\ Cardinality({j \in S : j <= InOrder(S)[n]}) = n
    BY <2>2, <2>3
  <2> QED  BY <2>4
<1>7. ASSUME NEW i \in S
      PROVE  \E n \in 1 .. c : InOrder(S)[n] = i
  <2>1. rank[i] \in 1 .. c
    BY <1>2
  <2>2. InOrder(S)[rank[i]] \in S /\ rank[InOrder(S)[rank[i]]] = rank[i]
    BY <1>6, <2>1
  <2> HIDE DEF rank
  <2>3. \A j \in S : rank[j] = rank[i] => j = i
    BY <1>4 DEF Injection, IsInjective
  <2> QED  BY <2>1, <2>2, <2>3
<1> QED  BY <1>6, <1>7

\* What _resize carries over: as many items as there are filled slots.
LEMMA OldEntriesType ==
    ASSUME TInv
    PROVE  OldEntries \in Seq(Items) /\ Len(OldEntries) = count
<1>1. /\ IsFiniteSet(Live) /\ Live \in SUBSET Nat /\ count \in Nat
      /\ count = Cardinality(Live) /\ table \in [Slots -> Nodes] /\ Live \subseteq Slots
  BY TableFinite DEF TInv, Slots
<1>2. ASSUME NEW n \in 1 .. count
      PROVE  [key |-> table[InOrder(Live)[n]].key,
              value |-> table[InOrder(Live)[n]].value] \in Items
  <2>1. InOrder(Live)[n] \in Live
    BY <1>1, InOrderType
  <2>2. table[InOrder(Live)[n]] \in [key : Keys, value : Values, distance : Nat]
    BY <1>1, <2>1 DEF Live, IsEmpty, Nodes, EmptyNode
  <2> QED  BY <2>2 DEF Items
<1>3. OldEntries \in [1 .. count -> Items]
  BY <1>1, <1>2 DEF OldEntries, Entries
<1> QED  BY <1>1, <1>3

LEMMA InitT == Init => TInv
<1> SUFFICES ASSUME Init PROVE TInv
  OBVIOUS
<1>1. InitialCapacity \in Nat \ {0} /\ table = NewTable(InitialCapacity)
  BY CapacityAssumption DEF Init
<1>2. Capacity = InitialCapacity /\ table \in [Slots -> Nodes] /\ Live = {}
  BY <1>1, EmptyTable DEF Capacity, Slots, Live, IsEmpty
<1>3. count = Cardinality(Live)
  BY <1>2, FS_EmptySet DEF Init
<1>4. queue \in Seq(Items) /\ Len(queue) = 0 /\ count = 0
  BY DEF Init
<1>5. LoadInv
  BY <1>1, <1>2, <1>4 DEF Init, LoadInv, Pending
<1> QED  BY <1>1, <1>2, <1>3, <1>4, <1>5 DEF Init, TInv

LEMMA InsertT ==
    ASSUME TInv, NEW k \in Keys, NEW v \in Values, insert(k, v)
    PROVE  TInv'
<1>1. /\ pc = "idle" /\ pc' = "start" /\ UNCHANGED <<table, count, dist>>
      /\ queue' = <<[key |-> k, value |-> v]>>
      /\ 10 * (count + 1) <= 7 * Capacity \/ 2 * Capacity <= MaxCapacity
  BY DEF insert
<1>2. Capacity' = Capacity /\ Slots' = Slots /\ Live' = Live
  BY <1>1, Unwritten
<1>3. queue' \in Seq(Items) /\ Len(queue') = 1 /\ queue' # <<>>
  BY <1>1 DEF Items
<1>4. Pending' = 1
  BY <1>1, <1>3 DEF Pending
<1>5. LoadInv'
  BY <1>1, <1>2, <1>3, <1>4 DEF LoadInv, TInv
<1> QED  BY <1>1, <1>2, <1>3, <1>5 DEF TInv

\* A resize happens for the item that was asked for only: the old entries then find room.
LEMMA ResizeT ==
    ASSUME TInv, _resize
    PROVE  TInv'
<1>1. /\ pc = "start" /\ pc' = "start" /\ 10 * (count + 1) > 7 * Capacity
      /\ table' = NewTable(2 * Capacity) /\ count' = 0 /\ queue' = OldEntries \o queue
      /\ dist' = dist
  BY DEF _resize, Overloaded
<1>2. /\ Capacity \in Nat \ {0} /\ 2 * Capacity \in Nat \ {0} /\ count \in Nat
      /\ queue \in Seq(Items) /\ queue # <<>> /\ Len(queue) \in Nat /\ Len(queue) >= 1
  BY <1>1, TableFinite DEF TInv
<1>3. Len(queue) = 1 /\ 2 * Capacity <= MaxCapacity /\ 10 * count <= 7 * Capacity
  <2>1. Pending = Len(queue)
    BY <1>1, <1>2 DEF Pending
  <2>2. /\ 10 * count <= 7 * Capacity
        /\ \/ 10 * (count + Len(queue)) <= 7 * Capacity
           \/ Len(queue) = 1 /\ 2 * Capacity <= MaxCapacity
    BY <2>1 DEF TInv, LoadInv
  <2>3. ~(10 * (count + Len(queue)) <= 7 * Capacity)
    <3>1. PICK l \in Nat, c \in Nat, m \in Nat : l = Len(queue) /\ c = count /\ m = 7 * Capacity
      BY <1>2
    <3>2. l >= 1 /\ 10 * (c + 1) > m
      BY <1>1, <1>2, <3>1
    <3>3. ~(10 * (c + l) <= m)
      BY ONLY <3>2, l \in Nat, c \in Nat, m \in Nat
    <3> QED  BY ONLY <3>1, <3>3
  <2> QED  BY ONLY <2>2, <2>3
<1>4. Capacity' = 2 * Capacity /\ table' \in [Slots' -> Nodes] /\ Live' = {}
  BY <1>1, <1>2, Emptied
<1>5. queue' \in Seq(Items) /\ Len(queue') = count + 1 /\ queue' # <<>>
  <2>1. OldEntries \in Seq(Items) /\ Len(OldEntries) = count
    BY OldEntriesType
  <2>2. OldEntries \o queue \in Seq(Items) /\ Len(OldEntries \o queue) = Len(OldEntries) + Len(queue)
    BY <1>2, <2>1
  <2> QED  BY <1>1, <1>2, <1>3, <2>1, <2>2
<1>6. LoadInv'
  <2>1. Pending' = count + 1
    BY <1>1, <1>2, <1>5 DEF Pending
  <2>2. 10 * (count + 1) <= 7 * (2 * Capacity)
    <3>1. CASE Capacity = 1
      BY <1>2, <1>3, <3>1
    <3>2. CASE Capacity # 1
      BY <1>2, <1>3, <3>2
    <3> QED  BY <3>1, <3>2
  <2>3. 10 * (count' + Pending') <= 7 * Capacity'
    BY <1>1, <1>2, <1>4, <2>1, <2>2
  <2> QED  BY <1>1, <1>2, <1>3, <1>4, <2>3 DEF LoadInv
<1>7. count' = Cardinality(Live')
  BY <1>1, <1>4, FS_EmptySet
<1> QED  BY <1>1, <1>2, <1>4, <1>5, <1>6, <1>7 DEF TInv

LEMMA StartItemT ==
    ASSUME TInv, StartItem
    PROVE  /\ TInv' /\ Capacity' = Capacity /\ Live' = Live
           /\ item' \in Items /\ pos' = Masked(item'.key) /\ dist' = 0
           /\ pc' = "probe" /\ UNCHANGED table
<1>1. /\ pc = "start" /\ pc' = "probe" /\ 10 * (count + 1) <= 7 * Capacity
      /\ item' = Head(queue) /\ queue' = Tail(queue)
      /\ pos' = Masked(item'.key) /\ dist' = 0 /\ UNCHANGED <<table, count>>
  <2>1. Capacity \in Nat \ {0} /\ count \in Nat
    BY TableFinite DEF TInv
  <2> QED  BY <2>1 DEF StartItem, Overloaded
<1>2. Capacity' = Capacity /\ Slots' = Slots /\ Live' = Live
  BY <1>1, Unwritten
<1>3. /\ Capacity \in Nat \ {0} /\ count \in Nat /\ queue \in Seq(Items) /\ queue # <<>>
      /\ Len(queue) \in Nat /\ Len(queue) >= 1
  BY <1>1, TableFinite DEF TInv
<1>4. item' \in Items /\ queue' \in Seq(Items) /\ Len(queue') = Len(queue) - 1
  BY <1>1, <1>3
<1>5. item'.key \in Nat
  BY <1>4, KeysAssumption DEF Items
<1>6. pos' \in Slots'
  BY <1>1, <1>2, <1>3, <1>5, MaskedType
<1>7. LoadInv'
  <2>1. Pending' = Len(queue) /\ Pending = Len(queue)
    BY <1>1, <1>3, <1>4 DEF Pending
  <2>2. 10 * (count' + Pending') <= 7 * Capacity'
    BY <1>1, <1>2, <1>3, <2>1 DEF TInv, LoadInv
  <2> QED  BY <1>1, <1>2, <1>3, <2>2 DEF TInv, LoadInv
<1> QED  BY <1>1, <1>2, <1>3, <1>4, <1>6, <1>7 DEF TInv

\* An item that is placed takes a free slot and raises the count.
LEMMA ProbeEmptyT ==
    ASSUME TInv, ProbeEmpty
    PROVE  TInv'
<1> DEFINE n == [key |-> item.key, value |-> item.value, distance |-> dist]
<1>1. /\ pc = "probe" /\ table[pos].key = EmptyKey /\ table' = [table EXCEPT ![pos] = n]
      /\ count' = count + 1 /\ queue' = queue
      /\ pc' = (IF queue = <<>> THEN "idle" ELSE "start") /\ dist' = 0
  BY DEF ProbeEmpty, IsEmpty, CountAfterPlacing, ItemDone
<1>2. /\ item \in Items /\ pos \in Slots /\ dist \in Nat /\ queue \in Seq(Items)
      /\ Len(queue) \in Nat /\ Capacity \in Nat \ {0} /\ count \in Nat
  BY <1>1, TableFinite DEF TInv
<1>3. n \in Nodes /\ n.key \in Keys /\ n.key # EmptyKey
  BY <1>2, KeysAssumption DEF Nodes, Items
<1> HIDE DEF n
<1>4. /\ Capacity' = Capacity /\ Slots' = Slots /\ table' \in [Slots -> Nodes]
      /\ Live' = Live \cup {pos}
  BY <1>1, <1>2, <1>3, Written
<1>5. count' = Cardinality(Live')
  <2>1. pos \notin Live /\ IsFiniteSet(Live) /\ count = Cardinality(Live)
    BY <1>1, TableFinite DEF Live, IsEmpty, TInv
  <2> QED  BY <1>1, <1>4, <2>1, FS_AddElement
<1>6. LoadInv'
  <2>1. Pending' = Len(queue) /\ Pending = Len(queue) + 1
    BY <1>1, <1>2 DEF Pending
  <2>2. /\ 10 * (count + 1) <= 7 * Capacity
        /\ 10 * (count + Pending) <= 7 * Capacity
    BY <1>1 DEF TInv, LoadInv
  <2>3. 10 * (count' + Pending') <= 7 * Capacity' /\ 10 * count' <= 7 * Capacity'
    BY <1>1, <1>2, <1>4, <2>1, <2>2
  <2>4. pc' # "probe" /\ (Capacity' = InitialCapacity \/ Capacity' <= MaxCapacity)
    BY <1>1, <1>4 DEF TInv, LoadInv
  <2> QED  BY <2>3, <2>4 DEF LoadInv
<1> QED  BY <1>1, <1>2, <1>4, <1>5, <1>6 DEF TInv

LEMMA ProbeSameT ==
    ASSUME TInv, ProbeSame
    PROVE  TInv'
<1> DEFINE n == [table[pos] EXCEPT !.value = item.value]
<1>1. /\ pc = "probe" /\ table[pos].key = item.key /\ table' = [table EXCEPT ![pos] = n]
      /\ count' = count /\ queue' = queue
      /\ pc' = (IF queue = <<>> THEN "idle" ELSE "start") /\ dist' = 0
  BY DEF ProbeSame, ItemDone
<1>2. /\ item \in Items /\ pos \in Slots /\ dist \in Nat /\ queue \in Seq(Items)
      /\ Len(queue) \in Nat /\ Capacity \in Nat \ {0} /\ count \in Nat
      /\ table[pos] \in Nodes /\ item.key # EmptyKey /\ item.value \in Values
  BY <1>1, TableFinite, KeysAssumption DEF TInv, Items
<1>3. table[pos] \in [key : Keys, value : Values, distance : Nat]
  BY <1>1, <1>2 DEF Nodes, EmptyNode
<1>4. n \in Nodes /\ n.key = item.key /\ n.key # EmptyKey
  BY <1>1, <1>2, <1>3 DEF Nodes
<1> HIDE DEF n
<1>5. /\ Capacity' = Capacity /\ Slots' = Slots /\ table' \in [Slots -> Nodes]
      /\ Live' = Live \cup {pos}
  BY <1>1, <1>2, <1>4, Written
<1>6. Live' = Live
  <2>1. pos \in Live
    BY <1>1, <1>2, TableFinite DEF Live, IsEmpty
  <2> QED  BY <1>5, <2>1
<1>7. LoadInv'
  <2>1. Pending' = Len(queue) /\ Pending = Len(queue) + 1
    BY <1>1, <1>2 DEF Pending
  <2>2. 10 * (count' + Pending') <= 7 * Capacity' /\ 10 * count' <= 7 * Capacity'
    <3>1. /\ 10 * count <= 7 * Capacity /\ 10 * (count + Pending) <= 7 * Capacity
      BY <1>1 DEF TInv, LoadInv
    <3>2. PICK p \in Nat, c \in Nat, l \in Nat :
             p = Len(queue) /\ c = count /\ l = 7 * Capacity
      BY <1>1, <1>2
    <3>3. 10 * (c + (p + 1)) <= l
      BY ONLY <2>1, <3>1, <3>2
    <3>4. 10 * (c + p) <= l
      BY ONLY <3>3, p \in Nat, c \in Nat, l \in Nat
    <3>5. count' = count /\ Capacity' = Capacity
      BY <1>1, <1>5
    <3> QED  BY ONLY <2>1, <3>1, <3>2, <3>4, <3>5
  <2>3. pc' # "probe" /\ (Capacity' = InitialCapacity \/ Capacity' <= MaxCapacity)
    BY <1>1, <1>5 DEF TInv, LoadInv
  <2> QED  BY <2>2, <2>3 DEF LoadInv
<1> QED  BY <1>1, <1>2, <1>5, <1>6, <1>7 DEF TInv

\* An item that passes a slot may leave itself there and take the entry along.
LEMMA ProbeNextT ==
    ASSUME TInv, ProbeNext
    PROVE  /\ TInv' /\ Capacity' = Capacity /\ Slots' = Slots /\ Live' = Live
           /\ pos \in Live /\ table[pos].key \in Keys
<1> DEFINE n == [key |-> item.key, value |-> item.value, distance |-> dist]
<1>1. /\ pc = "probe" /\ pc' = "probe" /\ table[pos].key # EmptyKey
      /\ pos' = Masked(pos + 1) /\ UNCHANGED <<count, queue>>
      /\ \/ /\ table' = [table EXCEPT ![pos] = n]
            /\ item' = [key |-> table[pos].key, value |-> table[pos].value]
            /\ dist' = Increment(table[pos].distance)
         \/ UNCHANGED <<table, item>> /\ dist' = Increment(dist)
  BY DEF ProbeNext, IsEmpty
<1>2. /\ item \in Items /\ pos \in Slots /\ dist \in Nat /\ queue \in Seq(Items)
      /\ Len(queue) \in Nat /\ Capacity \in Nat \ {0} /\ count \in Nat
      /\ table \in [Slots -> Nodes]
  BY <1>1, TableFinite DEF TInv
<1>3. table[pos] \in [key : Keys, value : Values, distance : Nat]
  BY <1>1, <1>2 DEF Nodes, EmptyNode
<1>4. pos \in Live
  BY <1>1, <1>2, TableFinite DEF Live, IsEmpty
<1>5. n \in Nodes /\ n.key # EmptyKey
  BY <1>2, KeysAssumption DEF Nodes, Items
<1>6. \A d \in Nat : Increment(d) \in Nat
  <2>1. DistanceMax + 1 \in Nat \ {0}
    BY DistanceAssumption
  <2>2. \A d \in Nat : d + 1 \in Nat
    OBVIOUS
  <2> QED  BY <2>1, <2>2, DivMod DEF Increment
<1> HIDE DEF n
<1>7. /\ Capacity' = Capacity /\ Slots' = Slots /\ table' \in [Slots -> Nodes]
      /\ Live' = Live /\ item' \in Items /\ dist' \in Nat
  <2>1. CASE /\ table' = [table EXCEPT ![pos] = n]
             /\ item' = [key |-> table[pos].key, value |-> table[pos].value]
             /\ dist' = Increment(table[pos].distance)
    <3>1. /\ Capacity' = Capacity /\ Slots' = Slots /\ table' \in [Slots -> Nodes]
          /\ Live' = Live \cup {pos}
      BY <1>2, <1>5, <2>1, Written
    <3>2. item' \in Items /\ dist' \in Nat
      BY <1>3, <1>6, <2>1 DEF Items
    <3> QED  BY <1>4, <3>1, <3>2
  <2>2. CASE UNCHANGED <<table, item>> /\ dist' = Increment(dist)
    BY <1>2, <1>6, <2>2, Unwritten
  <2> QED  BY <1>1, <2>1, <2>2
<1>8. pos' \in Slots'
  BY <1>1, <1>2, <1>7, NextSlot
<1>9. LoadInv'
  BY <1>1, <1>7 DEF TInv, LoadInv, Pending
<1> QED  BY <1>1, <1>2, <1>3, <1>4, <1>7, <1>8, <1>9 DEF TInv

\* find() and the search of erase() end at a slot that holds the key.
LEMMA FoundSlot ==
    ASSUME TInv, NEW k \in Nat, FindFrom(k) # NotFound
    PROVE  FindFrom(k) \in Slots /\ table[FindFrom(k)].key = k
<1> DEFINE slot(i) == Masked(k + i)
           stops == {i \in 0 .. Capacity - 1 :
                        \/ IsEmpty(slot(i)) \/ table[slot(i)].key = k
                        \/ table[slot(i)].distance < i % (DistanceMax + 1)}
           first == CHOOSE i \in stops : \A j \in stops : i <= j
<1>1. FindFrom(k) = IF stops = {} THEN NotFound
                    ELSE IF table[slot(first)].key = k THEN slot(first) ELSE NotFound
  BY DEF FindFrom
<1>2. stops # {} /\ stops \in SUBSET Nat
  <2>1. stops # {}
    BY <1>1
  <2>2. stops \subseteq 0 .. Capacity - 1
    OBVIOUS
  <2>3. 0 .. Capacity - 1 \subseteq Nat
    OBVIOUS
  <2> HIDE DEF stops
  <2> QED  BY <2>1, <2>2, <2>3
<1>3. first \in stops
  <2> HIDE DEF stops
  <2>1. \E i \in stops : \A j \in stops : i <= j
    BY <1>2, LeastElement
  <2> QED  BY <2>1
<1> HIDE DEF stops, first
<1>4. table[slot(first)].key = k /\ FindFrom(k) = slot(first)
  BY <1>1, <1>2
<1>5. Capacity \in Nat \ {0} /\ k + first \in Nat
  BY <1>2, <1>3 DEF TInv
<1> QED  BY <1>4, <1>5, MaskedType

LEMMA EraseT ==
    ASSUME TInv, NEW k \in Keys, erase(k)
    PROVE  /\ TInv' /\ Capacity' = Capacity /\ Live' = Live /\ pos' \in Live
           /\ UNCHANGED table /\ pc = "idle" /\ pc' = "shift"
<1>1. /\ pc = "idle" /\ pc' = "shift" /\ FindFrom(k) # NotFound /\ pos' = FindFrom(k)
      /\ UNCHANGED <<table, count, dist, queue>>
  BY DEF erase
<1>2. k \in Nat /\ k # EmptyKey
  BY KeysAssumption
<1>3. pos' \in Slots /\ table[pos'].key = k
  BY <1>1, <1>2, FoundSlot
<1>4. pos' \in Live
  BY <1>2, <1>3, TableFinite DEF Live, IsEmpty
<1>5. Capacity' = Capacity /\ Slots' = Slots /\ Live' = Live
  BY <1>1, Unwritten
<1>6. LoadInv'
  BY <1>1, <1>5 DEF TInv, LoadInv, Pending
<1> QED  BY <1>1, <1>4, <1>5, <1>6 DEF TInv

\* The shift copies an entry back over the hole.
LEMMA ShiftBackT ==
    ASSUME TInv, ShiftBack
    PROVE  /\ TInv' /\ Capacity' = Capacity /\ Slots' = Slots /\ Live' = Live
           /\ pos \in Live /\ pos' = Masked(pos + 1) /\ pos' \in Live
           /\ pc = "shift" /\ pc' = "shift"
           /\ table[pos'].distance \in Nat \ {0}
           /\ table'[pos].key = table[pos'].key
           /\ table'[pos].value = table[pos'].value
           /\ table'[pos].distance = table[pos'].distance - 1
           /\ \A j \in Slots : j # pos => table'[j] = table[j]
<1> DEFINE next == Masked(pos + 1)
           n == [table[next] EXCEPT !.distance = @ - 1]
<1>1. /\ pc = "shift" /\ pc' = "shift" /\ table[next].key # EmptyKey
      /\ table[next].distance > 0
      /\ table' = [table EXCEPT ![pos] = n] /\ pos' = next
      /\ UNCHANGED <<count, dist, queue>>
  BY DEF ShiftBack, Shifts, IsEmpty
<1>2. /\ pos \in Live /\ pos \in Slots /\ Capacity \in Nat \ {0}
      /\ table \in [Slots -> Nodes]
  BY <1>1, TableFinite DEF TInv
<1>3. next \in Slots
  BY <1>2, NextSlot
<1> HIDE DEF next
<1>4. table[next] \in [key : Keys, value : Values, distance : Nat \ {0}]
  BY <1>1, <1>2, <1>3 DEF Nodes, EmptyNode
<1>5. /\ n \in Nodes /\ n.key = table[next].key /\ n.value = table[next].value
      /\ n.distance = table[next].distance - 1
  <2>1. n = [key |-> table[next].key, value |-> table[next].value,
             distance |-> table[next].distance - 1]
    BY <1>4
  <2>2. table[next].distance - 1 \in Nat
    BY <1>4
  <2> QED  BY <1>4, <2>1, <2>2 DEF Nodes
<1> HIDE DEF n
<1>6. /\ Capacity' = Capacity /\ Slots' = Slots /\ table' \in [Slots -> Nodes]
      /\ Live' = Live \cup {pos}
      /\ table'[pos] = n /\ \A j \in Slots : j # pos => table'[j] = table[j]
  BY <1>1, <1>2, <1>5, Written
<1>7. Live' = Live /\ next \in Live
  BY <1>1, <1>2, <1>3, <1>6, TableFinite DEF Live, IsEmpty
<1>8. LoadInv'
  BY <1>1, <1>6 DEF TInv, LoadInv, Pending
<1>9. TInv'
  BY <1>1, <1>2, <1>6, <1>7, <1>8 DEF TInv
<1> QED  BY <1>1, <1>2, <1>4, <1>5, <1>6, <1>7, <1>9 DEF next

\* The shift ends by freeing the hole.
LEMMA ShiftDoneT ==
    ASSUME TInv, ShiftDone
    PROVE  /\ TInv' /\ Capacity' = Capacity /\ Slots' = Slots
           /\ pos \in Live /\ Live' = Live \ {pos}
           /\ pc = "shift" /\ pc' = "idle"
           /\ Masked(pos + 1) \in Live => table[Masked(pos + 1)].distance = 0
           /\ \A j \in Slots : j # pos => table'[j] = table[j]
<1>1. /\ pc = "shift" /\ pc' = "idle" /\ ~Shifts(Masked(pos + 1))
      /\ table' = [table EXCEPT ![pos] = EmptyNode]
      /\ count' = count - 1 /\ UNCHANGED <<dist, queue>>
  BY DEF ShiftDone
<1>2. /\ pos \in Live /\ pos \in Slots /\ Capacity \in Nat \ {0}
      /\ table \in [Slots -> Nodes] /\ queue = <<>> /\ count = Cardinality(Live)
      /\ count \in Nat /\ IsFiniteSet(Live)
  BY <1>1, TableFinite DEF TInv
<1>3. EmptyNode \in Nodes /\ EmptyNode.key = EmptyKey
  BY DEF Nodes, EmptyNode
<1>4. /\ Capacity' = Capacity /\ Slots' = Slots /\ table' \in [Slots -> Nodes]
      /\ Live' = Live \ {pos}
      /\ \A j \in Slots : j # pos => table'[j] = table[j]
  BY <1>1, <1>2, <1>3, Written
<1>5. count' = Cardinality(Live')
  BY <1>1, <1>2, <1>4, FS_RemoveElement
<1>6. LoadInv'
  <2>1. Pending' = 0 /\ Pending = 0
    BY <1>1, <1>2 DEF Pending
  <2>2. 10 * count <= 7 * Capacity
    BY DEF TInv, LoadInv
  <2>3. 10 * (count' + Pending') <= 7 * Capacity' /\ 10 * count' <= 7 * Capacity'
    BY <1>1, <1>2, <1>4, <2>1, <2>2
  <2>4. pc' # "probe" /\ (Capacity' = InitialCapacity \/ Capacity' <= MaxCapacity)
    BY <1>1, <1>4 DEF TInv, LoadInv
  <2> QED  BY <2>3, <2>4 DEF LoadInv
<1>7. Masked(pos + 1) \in Live => table[Masked(pos + 1)].distance = 0
  <2>1. Masked(pos + 1) \in Slots
    BY <1>2, NextSlot
  <2>2. \A n \in Nodes : n.distance \in Nat
    BY DEF Nodes, EmptyNode
  <2>3. table[Masked(pos + 1)].distance \in Nat
    BY <1>2, <2>1, <2>2
  <2> QED  BY <1>1, <2>3 DEF Shifts, Live
<1>8. TInv'
  BY <1>1, <1>2, <1>4, <1>5, <1>6 DEF TInv
<1> QED  BY <1>1, <1>2, <1>4, <1>7, <1>8

LEMMA ClearT ==
    ASSUME TInv, clear
    PROVE  TInv' /\ Capacity' = Capacity /\ Live' = {} /\ pc' = "idle"
<1>1. /\ pc = "idle" /\ table' = NewTable(Capacity) /\ count' = 0
      /\ UNCHANGED <<pc, dist, queue>>
  BY DEF clear
<1>2. Capacity \in Nat \ {0} /\ queue = <<>> /\ Len(queue) = 0
  BY <1>1 DEF TInv
<1>3. Capacity' = Capacity /\ table' \in [Slots' -> Nodes] /\ Live' = {}
  BY <1>1, <1>2, Emptied
<1>4. count' = Cardinality(Live')
  BY <1>1, <1>3, FS_EmptySet
<1>5. LoadInv'
  BY <1>1, <1>2, <1>3 DEF TInv, LoadInv, Pending
<1> QED  BY <1>1, <1>2, <1>3, <1>4, <1>5 DEF TInv

LEMMA NextT == TInv /\ [Next]_vars => TInv'
<1> SUFFICES ASSUME TInv, [Next]_vars PROVE TInv'
  OBVIOUS
<1>1. CASE UNCHANGED vars
  <2>1. Capacity' = Capacity /\ Slots' = Slots /\ Live' = Live
    BY <1>1, Unwritten DEF vars
  <2>2. Pending' = Pending
    BY <1>1 DEF vars, Pending
  <2> QED  BY <1>1, <2>1, <2>2 DEF vars, TInv, LoadInv
<1> QED
  BY <1>1, InsertT, ResizeT, StartItemT, ProbeEmptyT, ProbeSameT, ProbeNextT,
     EraseT, ShiftBackT, ShiftDoneT, ClearT
     DEF Next, Operation, Running

LEMMA TInvariance == Spec => []TInv
BY InitT, NextT, PTL DEF Spec

\* Through displacements, resizes and backward shifts, the count is that of the filled
\* slots and a slot is always free: every probing loop of insert(), find() and erase() ends.
THEOREM SlotAlwaysFree == Spec => []RoomLeft
<1>1. ASSUME TInv PROVE RoomLeft
  <2> SUFFICES ASSUME Live = DOMAIN table PROVE FALSE
    BY DEF RoomLeft
  <2>1. count = Capacity /\ Capacity \in Nat \ {0}
    BY <1>1, TableFinite DEF TInv
  <2>2. 10 * count <= 7 * Capacity
    BY <1>1 DEF TInv, LoadInv
  <2> QED  BY <2>1, <2>2
<1> QED  BY <1>1, TInvariance, PTL

-----------------------------------------------------------------------------
(* The order of the table. *)

LEMMA LiveEntry ==
    ASSUME TInv, NEW i \in Live
    PROVE  /\ i \in Slots /\ table[i].key \in Keys /\ table[i].key \in Nat
           /\ table[i].distance \in Nat /\ table[i].value \in Values
<1>1. i \in Slots /\ table[i] \in Nodes /\ table[i].key # EmptyKey
  BY TableFinite DEF TInv, Live, IsEmpty
<1>2. table[i] \in [key : Keys, value : Values, distance : Nat]
  BY <1>1 DEF Nodes, EmptyNode
<1> QED  BY <1>1, <1>2, KeysAssumption

\* A run stays one if its entries stay, or make room for others farther from home.
LEMMA RunKept ==
    ASSUME TInv, TInv', Capacity' = Capacity,
           NEW p \in Slots, NEW d \in Nat, Run(p, d),
           \A k \in 1 .. d : /\ Back(p, k) \in Live'
                             /\ table'[Back(p, k)].distance >= table[Back(p, k)].distance
    PROVE  Run(p, d)'
<1>1. \A k \in Nat : Back(p, k)' = Back(p, k)
  BY DEF Back
<1>2. ASSUME NEW k \in 1 .. d
      PROVE  Back(p, k) \in Live' /\ table'[Back(p, k)].distance + k >= d
  <2>1. /\ Back(p, k) \in Live /\ Back(p, k) \in Live'
        /\ table[Back(p, k)].distance + k >= d
        /\ table'[Back(p, k)].distance >= table[Back(p, k)].distance
    BY DEF Run
  <2>2. table[Back(p, k)].distance \in Nat /\ table'[Back(p, k)].distance \in Nat
    <3>1. PICK j \in Live : j = Back(p, k)
      BY <2>1
    <3>2. table[j].distance \in Nat
      BY LiveEntry
    <3>3. table'[j].distance \in Nat
      BY <2>1, <3>1 DEF TInv, Live, IsEmpty, Nodes, EmptyNode
    <3> QED  BY <3>1, <3>2, <3>3
  <2> QED  BY <2>1, <2>2
<1>3. d < Capacity'
  BY DEF Run
<1> QED  BY <1>1, <1>2, <1>3 DEF Run

\* A run that ends at a filled slot goes on to the next one.
LEMMA RunNext ==
    ASSUME TInv, NEW p \in Live, NEW d \in Nat, Run(p, d), table[p].distance >= d
    PROVE  Run(Masked(p + 1), d + 1)
<1>1. p \in Slots /\ Capacity \in Nat \ {0} /\ d < Capacity /\ table[p].distance \in Nat
  BY LiveEntry DEF TInv, Run
<1>2. ASSUME NEW k \in 1 .. d + 1
      PROVE  /\ Back(Masked(p + 1), k) \in Live
             /\ table[Back(Masked(p + 1), k)].distance + k >= d + 1
  <2>1. Back(Masked(p + 1), k) = Back(p, k - 1)
    BY <1>1, BackNext
  <2>2. CASE k = 1
    <3>1. Back(p, k - 1) = p
      BY <1>1, <2>2, BackZero
    <3> QED  BY <1>1, <2>1, <2>2, <3>1
  <2>3. CASE k # 1
    <3>1. k - 1 \in 1 .. d
      BY <1>1, <2>3
    <3>2. Back(p, k - 1) \in Live /\ table[Back(p, k - 1)].distance + (k - 1) >= d
      BY <3>1 DEF Run
    <3>3. table[Back(p, k - 1)].distance \in Nat
      BY <3>2, LiveEntry
    <3> QED  BY <1>1, <2>1, <3>1, <3>2, <3>3
  <2> QED  BY <2>2, <2>3
<1>3. d + 1 < Capacity
  <2> SUFFICES ASSUME d + 1 = Capacity PROVE FALSE
    BY <1>1
  <2>1. ASSUME NEW j \in Slots PROVE j \in Live
    <3>1. PICK k \in 1 .. Capacity : Back(p, k) = j
      BY <1>1, BackReaches
    <3>2. CASE k = Capacity
      <4>1. Back(p, Capacity) = p
        BY <1>1 DEF Back, Slots
      <4> QED  BY <3>1, <3>2, <4>1
    <3>3. CASE k # Capacity
      <4>1. k \in 1 .. d
        BY <1>1, <3>3
      <4> QED  BY <3>1, <4>1 DEF Run
    <3> QED  BY <3>2, <3>3
  <2>2. count = Capacity
    BY <2>1, TableFinite DEF TInv
  <2>3. 10 * count <= 7 * Capacity
    BY DEF TInv, LoadInv
  <2> QED  BY <1>1, <2>2, <2>3
<1> QED  BY <1>2, <1>3 DEF Run

\* An entry that is written at the end of a run, with its distance, is settled there.
LEMMA Placed ==
    ASSUME TInv, TInv', Capacity' = Capacity, NEW p \in Slots, NEW d \in Nat, NEW key,
           Run(p, d), d < DistanceMax, Masked(key) = Back(p, d),
           table'[p].key = key, table'[p].distance = d,
           \A k \in 1 .. d : /\ Back(p, k) \in Live'
                             /\ table'[Back(p, k)].distance >= table[Back(p, k)].distance
    PROVE  Settled(p)'
<1>1. Run(p, d)'
  BY RunKept
<1>2. Masked(key) = key % Capacity' /\ Back(p, d)' = Back(p, d)
  BY DEF Masked, Back
<1> QED  BY <1>1, <1>2 DEF Settled, Run, Back, Masked

\* An entry stays settled if nothing in its run comes nearer to its home.
LEMMA SettledKept ==
    ASSUME TInv, TInv', Capacity' = Capacity, NEW i \in Live, Settled(i),
           table'[i].key = table[i].key, table'[i].distance = table[i].distance,
           \A k \in 1 .. table[i].distance :
               /\ Back(i, k) \in Live'
               /\ table'[Back(i, k)].distance >= table[Back(i, k)].distance
    PROVE  Settled(i)'
<1>1. PICK d \in Nat : d = table[i].distance
  BY LiveEntry
<1>2. PICK key : key = table[i].key
  OBVIOUS
<1>3. i \in Slots /\ Run(i, d) /\ d < DistanceMax /\ Masked(key) = Back(i, d)
  BY <1>1, <1>2, LiveEntry DEF Settled
<1> QED  BY <1>1, <1>2, <1>3, Placed

\* Where the key of the item that insert() holds is in the table, it is at slot pos or
\* behind an entry there that is at least as far from its home.
LEMMA KeyAhead ==
    ASSUME TInv, OInv, pc = "probe", NEW i \in Live, table[i].key = item.key
    PROVE  \/ i = pos
           \/ pos \in Live /\ table[pos].distance >= dist /\ table[i].distance > dist
<1>1. /\ i \in Slots /\ table[i].distance \in Nat /\ pos \in Slots /\ dist \in Nat
      /\ Capacity \in Nat \ {0}
  BY LiveEntry DEF TInv
<1>2. /\ table[i].distance < Capacity /\ table[i].distance >= dist
      /\ Back(i, table[i].distance) = Back(pos, dist)
      /\ Run(i, table[i].distance)
  BY DEF OInv, Settled, ItemFits, Run
<1> DEFINE k == table[i].distance - dist
<1>3. pos = Back(i, k) /\ k \in Nat
  BY <1>1, <1>2, BackDifference
<1>4. CASE k = 0
  BY <1>1, <1>3, <1>4, BackZero
<1>5. CASE k # 0
  <2>1. k \in 1 .. table[i].distance
    BY <1>1, <1>3, <1>5
  <2>2. pos \in Live /\ table[pos].distance + k >= table[i].distance
    BY <1>2, <1>3, <2>1 DEF Run
  <2>3. table[pos].distance \in Nat
    BY <2>2, LiveEntry
  <2> QED  BY <1>1, <1>5, <2>1, <2>2, <2>3
<1> QED  BY <1>4, <1>5

\* ++dist, as long as the assertion holds.
LEMMA NoWrap ==
    ASSUME NEW d \in Nat, d < DistanceMax
    PROVE  Increment(d) = d + 1
<1>1. DistanceMax + 1 \in Nat \ {0} /\ d + 1 \in 0 .. (DistanceMax + 1) - 1
  BY DistanceAssumption
<1> QED  BY <1>1, ModSmall DEF Increment

\* Steps that leave the table alone leave every entry settled.
LEMMA AllSettledKept ==
    ASSUME TInv, TInv', OInv, UNCHANGED table
    PROVE  Capacity' = Capacity /\ Live' = Live /\ \A i \in Live : Settled(i)'
<1>1. Capacity' = Capacity /\ Live' = Live
  BY Unwritten
<1>2. ASSUME NEW i \in Live PROVE Settled(i)'
  <2>1. Settled(i)
    BY DEF OInv
  <2>2. ASSUME NEW k \in 1 .. table[i].distance
        PROVE  /\ Back(i, k) \in Live'
               /\ table'[Back(i, k)].distance >= table[Back(i, k)].distance
    <3>1. Back(i, k) \in Live
      BY <2>1, <2>2 DEF Settled, Run
    <3>2. table[Back(i, k)].distance \in Nat
      BY <3>1, LiveEntry
    <3> QED  BY <1>1, <3>1, <3>2
  <2> QED  BY <1>1, <2>1, <2>2, SettledKept
<1> QED  BY <1>1, <1>2

LEMMA InsertO ==
    ASSUME TInv, TInv', OInv, NEW k \in Keys, NEW v \in Values, insert(k, v)
    PROVE  OInv'
<1>1. pc = "idle" /\ pc' = "start" /\ UNCHANGED table
  BY DEF insert
<1>2. Live' = Live /\ \A i \in Live : Settled(i)'
  BY <1>1, AllSettledKept
<1>3. Hole = {} /\ Hole' = {}
  BY <1>1 DEF Hole
<1> QED  BY <1>1, <1>2, <1>3 DEF OInv, KeysUnique, ItemFits

LEMMA StartItemO ==
    ASSUME TInv, TInv', OInv, StartItem
    PROVE  OInv'
<1>1. /\ pc = "start" /\ pc' = "probe" /\ UNCHANGED table
      /\ item' \in Items /\ pos' = Masked(item'.key) /\ dist' = 0
      /\ Capacity' = Capacity /\ Live' = Live
  BY StartItemT DEF StartItem
<1>2. \A i \in Live : Settled(i)'
  BY <1>1, AllSettledKept
<1>3. Hole = {} /\ Hole' = {}
  BY <1>1 DEF Hole
<1>4. KeysUnique'
  BY <1>1, <1>3 DEF OInv, KeysUnique
<1>5. ItemFits'
  <2>1. Masked(item.key)' = Back(pos, dist)'
    <3>1. Capacity' \in Nat \ {0} /\ pos' \in Slots'
      BY <1>1 DEF TInv
    <3>2. Back(pos, dist)' = pos'
      BY <1>1, <3>1 DEF Back, Slots
    <3>3. Masked(item.key)' = Masked(item'.key)
      BY <1>1 DEF Masked
    <3> QED  BY <1>1, <3>2, <3>3
  <2>2. Run(pos, dist)'
    BY <1>1 DEF Run, TInv
  <2>3. \A i \in Live' : table'[i].distance >= dist'
    BY <1>1 DEF TInv, Live, IsEmpty, Nodes, EmptyNode
  <2> QED  BY <1>1, <2>1, <2>2, <2>3 DEF ItemFits
<1> QED  BY <1>1, <1>2, <1>4, <1>5 DEF OInv

\* A new table has no order to keep.
LEMMA EmptyO ==
    ASSUME Live' = {}, pc' # "probe"
    PROVE  OInv'
BY DEF OInv, KeysUnique, ItemFits

\* The item is placed in a free slot: its key was nowhere behind it.
LEMMA ProbeEmptyO ==
    ASSUME TInv, TInv', OInv, Asserted, ProbeEmpty
    PROVE  OInv'
<1> DEFINE n == [key |-> item.key, value |-> item.value, distance |-> dist]
<1>1. /\ pc = "probe" /\ pc' # "probe" /\ pc' # "shift"
      /\ table[pos].key = EmptyKey /\ table' = [table EXCEPT ![pos] = n]
  BY DEF ProbeEmpty, IsEmpty, CountAfterPlacing, ItemDone
<1>2. /\ item \in Items /\ pos \in Slots /\ dist \in Nat /\ Capacity \in Nat \ {0}
  BY <1>1 DEF TInv
<1>3. n \in Nodes /\ n.key = item.key /\ n.key # EmptyKey /\ n.distance = dist
  BY <1>2, KeysAssumption DEF Nodes, Items
<1> HIDE DEF n
<1>4. /\ Capacity' = Capacity /\ Slots' = Slots
      /\ Live' = Live \cup {pos}
      /\ table'[pos] = n /\ \A j \in Slots : j # pos => table'[j] = table[j]
  BY <1>1, <1>2, <1>3, Written
<1>5. pos \notin Live
  BY <1>1 DEF Live, IsEmpty
<1>6. \A j \in Live : /\ j \in Live' /\ table'[j] = table[j]
                      /\ table'[j].distance >= table[j].distance
  BY <1>4, <1>5, LiveEntry
<1>7. ASSUME NEW i \in Live PROVE Settled(i)'
  <2>1. Settled(i)
    BY DEF OInv
  <2>2. \A k \in 1 .. table[i].distance : Back(i, k) \in Live
    BY <2>1 DEF Settled, Run
  <2> QED  BY <1>4, <1>6, <2>1, <2>2, SettledKept
<1>8. ASSUME NEW p \in Slots, p = pos PROVE Settled(p)'
  <2>1. PICK d \in Nat : d = dist
    BY <1>2
  <2>2. PICK key : key = item.key
    OBVIOUS
  <2>3. Masked(key) = Back(p, d) /\ Run(p, d) /\ d < DistanceMax
    BY <1>1, <1>8, <2>1, <2>2 DEF OInv, ItemFits, Asserted
  <2>4. \A k \in 1 .. d : Back(p, k) \in Live
    BY <2>3 DEF Run
  <2>5. table'[p].distance = d /\ table'[p].key = key
    BY <1>3, <1>4, <1>8, <2>1, <2>2
  <2> QED  BY <1>4, <1>6, <2>3, <2>4, <2>5, Placed
<1>9. KeysUnique'
  <2>1. \A i \in Live : table[i].key # item.key
    BY <1>1, <1>5, KeyAhead
  <2>2. Hole = {} /\ Hole' = {}
    BY <1>1 DEF Hole
  <2>3. ASSUME NEW i \in Live', NEW j \in Live', table'[i].key = table'[j].key
        PROVE  i = j
    BY <1>3, <1>4, <1>6, <2>1, <2>2, <2>3 DEF OInv, KeysUnique
  <2> QED  BY <2>2, <2>3 DEF KeysUnique
<1>10. \A i \in Live' : Settled(i)'
  BY <1>2, <1>4, <1>7, <1>8
<1> QED  BY <1>1, <1>9, <1>10 DEF OInv, ItemFits

LEMMA ProbeSameO ==
    ASSUME TInv, TInv', OInv, ProbeSame
    PROVE  OInv'
<1> DEFINE n == [table[pos] EXCEPT !.value = item.value]
<1>1. /\ pc = "probe" /\ pc' # "probe" /\ pc' # "shift"
      /\ table[pos].key = item.key /\ table' = [table EXCEPT ![pos] = n]
  BY DEF ProbeSame, ItemDone
<1>2. item \in Items /\ pos \in Slots /\ table[pos] \in Nodes /\ item.key # EmptyKey
  BY <1>1, KeysAssumption DEF TInv, Items
<1>3. pos \in Live
  BY <1>1, <1>2, TableFinite DEF Live, IsEmpty
<1>4. /\ n \in Nodes /\ n.key = table[pos].key /\ n.distance = table[pos].distance
      /\ n.key # EmptyKey
  <2>1. table[pos] \in [key : Keys, value : Values, distance : Nat]
    BY <1>1, <1>2 DEF Nodes, EmptyNode
  <2> QED  BY <1>1, <1>2, <2>1 DEF Nodes, Items
<1> HIDE DEF n
<1>5. /\ Capacity' = Capacity /\ Live' = Live
      /\ table'[pos] = n /\ \A j \in Slots : j # pos => table'[j] = table[j]
  <2>1. /\ Capacity' = Capacity /\ Live' = Live \cup {pos}
        /\ table'[pos] = n /\ \A j \in Slots : j # pos => table'[j] = table[j]
    BY <1>1, <1>2, <1>4, Written
  <2> QED  BY <1>3, <2>1
<1>6. \A j \in Live : /\ table'[j].key = table[j].key
                      /\ table'[j].distance = table[j].distance
                      /\ table'[j].distance >= table[j].distance
  BY <1>4, <1>5, LiveEntry
<1>7. ASSUME NEW i \in Live PROVE Settled(i)'
  <2>1. Settled(i)
    BY DEF OInv
  <2>2. \A k \in 1 .. table[i].distance : Back(i, k) \in Live
    BY <2>1 DEF Settled, Run
  <2> QED  BY <1>5, <1>6, <2>1, <2>2, SettledKept
<1>8. Hole = {} /\ Hole' = {}
  BY <1>1 DEF Hole
<1>9. KeysUnique'
  BY <1>5, <1>6, <1>8 DEF OInv, KeysUnique
<1> QED  BY <1>1, <1>5, <1>7, <1>9 DEF OInv, ItemFits

\* The item goes on, having met an entry that is as far from its home as it is itself.
LEMMA PassO ==
    ASSUME TInv, TInv', OInv, Asserted, ProbeNext, UNCHANGED <<table, item>>,
           dist' = Increment(dist), table[pos].distance >= dist
    PROVE  OInv'
<1>1. /\ pc = "probe" /\ pc' = "probe" /\ pos' = Masked(pos + 1)
      /\ table[pos].key # item.key /\ pos \in Live
      /\ pos \in Slots /\ dist \in Nat /\ Capacity \in Nat \ {0}
  BY ProbeNextT, LiveEntry DEF ProbeNext, TInv
<1>2. dist' = dist + 1
  BY <1>1, NoWrap DEF Asserted
<1>3. Capacity' = Capacity /\ Live' = Live /\ \A i \in Live : Settled(i)'
  BY AllSettledKept
<1>4. Hole = {} /\ Hole' = {}
  BY <1>1 DEF Hole
<1>5. KeysUnique'
  BY <1>3, <1>4 DEF OInv, KeysUnique
<1>6. PICK p \in Slots, d \in Nat : p = pos' /\ d = dist'
  BY <1>1, <1>2, NextSlot
<1>7. Masked(item.key) = Back(pos, dist) /\ Run(pos, dist) /\ dist < Capacity
  BY <1>1 DEF OInv, ItemFits, Run
<1>8. Run(p, d)
  BY <1>1, <1>2, <1>6, <1>7, RunNext
<1>9. Run(p, d)'
  <2>1. \A k \in 1 .. d : Back(p, k) \in Live
    BY <1>8 DEF Run
  <2>2. \A j \in Live : table'[j].distance >= table[j].distance
    BY LiveEntry
  <2> QED  BY <1>3, <1>8, <2>1, <2>2, RunKept
<1>10. Masked(item.key) = Back(p, d)
  <2>1. d \in 1 .. Capacity /\ d - 1 = dist
    BY <1>1, <1>2, <1>6, <1>7
  <2>2. Back(p, d) = Back(pos, d - 1)
    BY <1>1, <1>6, <2>1, BackNext
  <2> QED  BY <1>7, <2>1, <2>2
<1>11. ASSUME NEW i \in Live, table[i].key = item.key
       PROVE  table[i].distance >= dist + 1
  BY <1>1, <1>11, KeyAhead, LiveEntry
<1>12. ItemFits'
  <2>1. Masked(item.key)' = Back(pos, dist)'
    BY <1>3, <1>6, <1>10 DEF Masked, Back
  <2>2. Run(pos, dist)'
    BY <1>6, <1>9 DEF Run, Back
  <2> QED  BY <1>2, <1>3, <1>11, <2>1, <2>2 DEF ItemFits
<1> QED  BY <1>3, <1>5, <1>12 DEF OInv

\* The item takes the slot of an entry nearer to its home, which goes on in its place.
LEMMA SwapO ==
    ASSUME TInv, TInv', OInv, Asserted, ProbeNext, table[pos].distance < dist,
           table' = [table EXCEPT ![pos] =
                        [key |-> item.key, value |-> item.value, distance |-> dist]],
           item' = [key |-> table[pos].key, value |-> table[pos].value],
           dist' = Increment(table[pos].distance)
    PROVE  OInv'
<1> DEFINE n == [key |-> item.key, value |-> item.value, distance |-> dist]
<1>1. /\ pc = "probe" /\ pc' = "probe" /\ pos' = Masked(pos + 1)
      /\ table[pos].key # item.key /\ pos \in Live
      /\ pos \in Slots /\ dist \in Nat /\ Capacity \in Nat \ {0} /\ item \in Items
      /\ table[pos].distance \in Nat
  BY ProbeNextT, LiveEntry DEF ProbeNext, TInv
<1>2. n \in Nodes /\ n.key = item.key /\ n.key # EmptyKey /\ n.distance = dist
  BY <1>1, KeysAssumption DEF Nodes, Items
<1>3. table' = [table EXCEPT ![pos] = n]
  OBVIOUS
<1> HIDE DEF n
<1>4. /\ Capacity' = Capacity /\ Live' = Live
      /\ table'[pos] = n /\ \A j \in Slots : j # pos => table'[j] = table[j]
  <2>1. /\ Capacity' = Capacity /\ table'[pos] = n
        /\ \A j \in Slots : j # pos => table'[j] = table[j]
        /\ Live' = IF n.key = EmptyKey THEN Live \ {pos} ELSE Live \cup {pos}
    BY <1>1, <1>2, <1>3, Written
  <2>2. Live' = Live
    BY <1>1, <1>2, <2>1
  <2> QED  BY <2>1, <2>2
<1>5. \A j \in Live : table'[j].distance >= table[j].distance
  BY <1>1, <1>2, <1>4, LiveEntry
<1>6. /\ Settled(pos) /\ Masked(item.key) = Back(pos, dist) /\ Run(pos, dist)
  BY <1>1 DEF OInv, ItemFits
<1>7. ASSUME NEW i \in Live, i # pos PROVE Settled(i)'
  <2>1. Settled(i)
    BY DEF OInv
  <2>2. \A k \in 1 .. table[i].distance : Back(i, k) \in Live
    BY <2>1 DEF Settled, Run
  <2>3. i \in Slots /\ table'[i] = table[i]
    BY <1>4, <1>7, LiveEntry
  <2> QED  BY <1>4, <1>5, <2>1, <2>2, <2>3, SettledKept
<1>8. ASSUME NEW p \in Slots, p = pos PROVE Settled(p)'
  <2>1. PICK d \in Nat : d = dist
    BY <1>1
  <2>2. PICK key : key = item.key
    OBVIOUS
  <2>3. Masked(key) = Back(p, d) /\ Run(p, d) /\ d < DistanceMax
    BY <1>6, <1>8, <2>1, <2>2 DEF Asserted
  <2>4. \A k \in 1 .. d : Back(p, k) \in Live
    BY <2>3 DEF Run
  <2>5. table'[p].distance = d /\ table'[p].key = key
    BY <1>2, <1>4, <1>8, <2>1, <2>2
  <2> QED  BY <1>4, <1>5, <2>3, <2>4, <2>5, Placed
<1>9. Hole = {} /\ Hole' = {}
  BY <1>1 DEF Hole
<1>10. \A i \in Live : table[i].key # item.key
  BY <1>1, KeyAhead, LiveEntry
<1>11. KeysUnique'
  <2>1. ASSUME NEW i \in Live, NEW j \in Live, table'[i].key = table'[j].key
        PROVE  i = j
    <3>1. \A k \in Live : k # pos => table'[k].key = table[k].key
      BY <1>4, LiveEntry
    <3> QED  BY <1>2, <1>4, <1>9, <1>10, <2>1, <3>1 DEF OInv, KeysUnique
  <2> QED  BY <1>4, <1>9, <2>1 DEF KeysUnique
<1>12. dist' = table[pos].distance + 1
  BY <1>1, <1>6, NoWrap DEF Settled
<1>13. PICK p \in Slots, d \in Nat : p = pos' /\ d = dist'
  BY <1>1, <1>12, NextSlot
<1>14. Run(p, d)
  BY <1>1, <1>6, <1>12, <1>13, RunNext DEF Settled
<1>15. Run(p, d)'
  <2>1. \A k \in 1 .. d : Back(p, k) \in Live
    BY <1>14 DEF Run
  <2> QED  BY <1>4, <1>5, <1>14, <2>1, RunKept
<1>16. Masked(item'.key) = Back(p, d)
  <2>1. d \in 1 .. Capacity /\ d - 1 = table[pos].distance
    BY <1>1, <1>6, <1>12, <1>13 DEF Settled, Run
  <2>2. Back(p, d) = Back(pos, d - 1)
    BY <1>1, <1>13, <2>1, BackNext
  <2> QED  BY <1>6, <2>1, <2>2 DEF Settled
<1>17. ASSUME NEW i \in Live, table'[i].key = item'.key PROVE FALSE
  <2>1. i # pos
    BY <1>1, <1>2, <1>4, <1>17
  <2>2. table[i].key = table[pos].key
    BY <1>4, <1>17, <2>1, LiveEntry
  <2> QED  BY <1>1, <1>9, <2>1, <2>2 DEF OInv, KeysUnique
<1>18. ItemFits'
  <2>1. Masked(item.key)' = Back(pos, dist)'
    BY <1>4, <1>13, <1>16 DEF Masked, Back
  <2>2. Run(pos, dist)'
    BY <1>13, <1>15 DEF Run, Back
  <2> QED  BY <1>4, <1>17, <2>1, <2>2 DEF ItemFits
<1> QED  BY <1>1, <1>4, <1>7, <1>8, <1>11, <1>18 DEF OInv

LEMMA EraseO ==
    ASSUME TInv, TInv', OInv, NEW k \in Keys, erase(k)
    PROVE  OInv'
<1>1. pc = "idle" /\ pc' = "shift" /\ UNCHANGED table
  BY EraseT
<1>2. Live' = Live /\ \A i \in Live : Settled(i)'
  BY <1>1, AllSettledKept
<1>3. Hole = {}
  BY <1>1 DEF Hole
<1> QED  BY <1>1, <1>2, <1>3 DEF OInv, KeysUnique, ItemFits

\* An entry moves one slot back, over the hole; the hole moves to where it was.
LEMMA ShiftBackO ==
    ASSUME TInv, TInv', OInv, ShiftBack
    PROVE  OInv'
<1> DEFINE next == Masked(pos + 1)
           d == table[next].distance
<1>1. /\ Capacity' = Capacity /\ Live' = Live
      /\ pos \in Live /\ pos' = next /\ next \in Live
      /\ pc = "shift" /\ pc' = "shift" /\ d \in Nat \ {0}
      /\ table'[pos].key = table[next].key /\ table'[pos].distance = d - 1
      /\ \A j \in Slots : j # pos => table'[j] = table[j]
  BY ShiftBackT
<1>2. pos \in Slots /\ next \in Slots /\ Capacity \in Nat \ {0}
  BY <1>1, LiveEntry DEF TInv
<1>3. /\ Settled(next) /\ d < Capacity /\ d < DistanceMax
      /\ Masked(table[next].key) = Back(next, d) /\ Run(next, d)
  BY <1>1 DEF OInv, Settled, Run
<1>4. Back(next, 1) = pos
  BY <1>2, BackNext, BackZero
<1> HIDE DEF next, d
<1>5. next # pos
  <2>1. 1 \in 0 .. Capacity - 1
    BY <1>1, <1>2, <1>3
  <2> QED  BY <1>2, <1>4, <2>1, BackInjective
<1>6. ASSUME NEW p \in Slots, p = pos PROVE Settled(p)'
  <2>1. PICK e \in Nat : e = d - 1
    BY <1>1
  <2>2. PICK key : key = table[next].key
    OBVIOUS
  <2>3. Masked(key) = Back(p, e)
    <3>1. d \in 1 .. Capacity
      BY <1>1, <1>2, <1>3
    <3> QED  BY <1>2, <1>3, <1>6, <2>1, <2>2, <3>1, BackNext DEF next
  <2>4. ASSUME NEW k \in 1 .. e
        PROVE  /\ Back(p, k) \in Live /\ Back(p, k) # pos
               /\ table[Back(p, k)].distance + k >= e
    <3>1. k + 1 \in 1 .. d /\ k + 1 \in 1 .. Capacity /\ (k + 1) - 1 = k
      BY <1>1, <1>2, <1>3, <2>1
    <3>2. Back(p, k) = Back(next, k + 1)
      BY <1>2, <1>6, <3>1, BackNext DEF next
    <3>3. Back(p, k) \in Live /\ table[Back(p, k)].distance + (k + 1) >= d
      BY <1>3, <3>1, <3>2 DEF Run
    <3>4. table[Back(p, k)].distance \in Nat
      BY <3>3, LiveEntry
    <3>5. k \in 0 .. Capacity - 1 /\ k # 0
      BY <1>1, <1>2, <1>3, <2>1
    <3>6. Back(p, k) # p
      BY <1>2, <3>5, BackInjective
    <3> QED  BY <1>1, <1>6, <2>1, <3>3, <3>4, <3>6
  <2>5. Run(p, e) /\ e < DistanceMax
    <3>1. e < Capacity /\ e < DistanceMax
      BY <1>1, <1>2, <1>3, <2>1, DistanceAssumption
    <3> QED  BY <2>4, <3>1 DEF Run
  <2>6. table'[p].key = key /\ table'[p].distance = e
    BY <1>1, <1>6, <2>1, <2>2
  <2>7. \A k \in 1 .. e : /\ Back(p, k) \in Live'
                          /\ table'[Back(p, k)].distance >= table[Back(p, k)].distance
    BY <1>1, <2>4, LiveEntry
  <2> QED  BY <1>1, <2>3, <2>5, <2>6, <2>7, Placed
<1>7. ASSUME NEW i \in Live, i # pos PROVE Settled(i)'
  <2>1. PICK e \in Nat : e = table[i].distance
    BY LiveEntry
  <2>2. PICK key : key = table[i].key
    OBVIOUS
  <2>3. /\ i \in Slots /\ Run(i, e) /\ e < Capacity /\ e < DistanceMax
        /\ Masked(key) = Back(i, e)
    BY <2>1, <2>2, LiveEntry DEF OInv, Settled, Run
  <2>4. table'[i] = table[i]
    BY <1>1, <1>7, <2>3
  <2>5. ASSUME NEW k \in 1 .. e
        PROVE  /\ Back(i, k)' \in Live'
               /\ table'[Back(i, k)'].distance + k >= e
    <3>0. Back(i, k)' = Back(i, k)
      BY <1>1 DEF Back
    <3>1. Back(i, k) \in Live /\ Back(i, k) \in Slots /\ table[Back(i, k)].distance + k >= e
      BY <2>3, LiveEntry DEF Run
    <3>2. CASE Back(i, k) # pos
      BY <1>1, <3>0, <3>1, <3>2
    <3>3. CASE Back(i, k) = pos
      <4>1. k - 1 \in Nat /\ (k - 1) + 1 = k /\ k <= Capacity /\ k - 1 \in 0 .. Capacity - 1
            /\ 1 \in 0 .. Capacity - 1 /\ k - 1 \in 0 .. Capacity
        BY <1>1, <1>2, <1>3, <2>3
      <4>2. Back(i, k - 1) \in Slots
        BY <1>2, <2>3, <4>1, BackType
      <4>3. Back(Back(i, k - 1), 1) = Back(next, 1)
        BY <1>2, <1>4, <2>3, <3>3, <4>1, BackTwice
      <4>4. Back(i, k - 1) = next
        BY <1>2, <4>1, <4>2, <4>3, BackInjective
      <4>5. d + (k - 1) >= e
        <5>1. CASE k = 1
          <6>1. i = next
            BY <1>2, <2>3, <4>4, <5>1, BackZero
          <6> QED  BY <1>1, <2>1, <5>1, <6>1 DEF d
        <5>2. CASE k # 1
          <6>1. k - 1 \in 1 .. e
            BY <4>1, <5>2
          <6> QED  BY <2>3, <4>4, <6>1 DEF Run, d
        <5> QED  BY <5>1, <5>2
      <4> QED  BY <1>1, <3>0, <3>1, <3>3, <4>5
    <3> QED  BY <3>2, <3>3
  <2>6. Run(i, e)'
    BY <1>1, <2>3, <2>5 DEF Run
  <2>7. Masked(key) = key % Capacity' /\ Back(i, e)' = Back(i, e)
    BY <1>1 DEF Masked, Back
  <2> QED  BY <2>1, <2>2, <2>3, <2>4, <2>6, <2>7 DEF Settled, Run, Back, Masked
<1>8. KeysUnique'
  <2>1. Hole = {pos} /\ Hole' = {next}
    BY <1>1 DEF Hole
  <2>2. ASSUME NEW i \in Live, NEW j \in Live, i # next, j # next,
               table'[i].key = table'[j].key
        PROVE  i = j
    <3> DEFINE from(x) == IF x = pos THEN next ELSE x
    <3>1. \A x \in Live : table'[x].key = table[from(x)].key
      BY <1>1, LiveEntry
    <3>2. from(i) \in Live \ {pos} /\ from(j) \in Live \ {pos}
      BY <1>1, <1>5
    <3>3. table[from(i)].key = table[from(j)].key
      BY <2>2, <3>1
    <3>4. from(i) = from(j)
      <4> HIDE DEF from
      <4> QED  BY <2>1, <3>2, <3>3 DEF OInv, KeysUnique
    <3> QED  BY <2>2, <3>4
  <2> QED  BY <1>1, <2>1, <2>2 DEF KeysUnique
<1> QED  BY <1>1, <1>6, <1>7, <1>8, <1>2 DEF OInv, ItemFits

\* The hole is freed: no run goes through it, because none goes through the slot behind it.
LEMMA ShiftDoneO ==
    ASSUME TInv, TInv', OInv, ShiftDone
    PROVE  OInv'
<1> DEFINE next == Masked(pos + 1)
<1>1. /\ Capacity' = Capacity /\ pos \in Live /\ Live' = Live \ {pos}
      /\ pc = "shift" /\ pc' = "idle"
      /\ next \in Live => table[next].distance = 0
      /\ \A j \in Slots : j # pos => table'[j] = table[j]
  BY ShiftDoneT
<1>2. pos \in Slots /\ next \in Slots /\ Capacity \in Nat \ {0}
  <2>1. pos \in Slots /\ Capacity \in Nat \ {0}
    BY <1>1, LiveEntry DEF TInv
  <2> QED  BY <2>1, NextSlot
<1>3. Back(next, 1) = pos
  BY <1>2, BackNext, BackZero
<1> HIDE DEF next
<1>4. ASSUME NEW i \in Live, i # pos PROVE Settled(i)'
  <2>1. PICK e \in Nat : e = table[i].distance
    BY LiveEntry
  <2>2. Settled(i) /\ i \in Slots /\ Run(i, e) /\ e < Capacity
    BY <2>1, LiveEntry DEF OInv, Settled, Run
  <2>3. ASSUME NEW k \in 1 .. e, Back(i, k) = pos PROVE FALSE
    <3>1. k - 1 \in Nat /\ (k - 1) + 1 = k /\ k <= Capacity /\ k - 1 \in 0 .. Capacity - 1
          /\ 1 \in 0 .. Capacity - 1 /\ k - 1 \in 0 .. Capacity
      BY <1>2, <2>2
    <3>2. Back(i, k - 1) \in Slots
      BY <1>2, <2>2, <3>1, BackType
    <3>3. Back(Back(i, k - 1), 1) = Back(next, 1)
      BY <1>2, <1>3, <2>2, <2>3, <3>1, BackTwice
    <3>4. Back(i, k - 1) = next
      BY <1>2, <3>1, <3>2, <3>3, BackInjective
    <3>5. CASE k = 1
      <4>1. i = next
        BY <1>2, <2>2, <3>4, <3>5, BackZero
      <4> QED  BY <1>1, <2>1, <3>5, <4>1
    <3>6. CASE k # 1
      <4>1. k - 1 \in 1 .. e
        BY <3>1, <3>6
      <4>2. next \in Live /\ table[next].distance + (k - 1) >= e
        BY <2>2, <3>4, <4>1 DEF Run
      <4> QED  BY <1>1, <4>2
    <3> QED  BY <3>5, <3>6
  <2>4. ASSUME NEW k \in 1 .. table[i].distance
        PROVE  /\ Back(i, k) \in Live'
               /\ table'[Back(i, k)].distance >= table[Back(i, k)].distance
    <3>1. Back(i, k) \in Live /\ Back(i, k) # pos
      BY <2>1, <2>2, <2>3, <2>4 DEF Run
    <3>2. Back(i, k) \in Slots /\ table[Back(i, k)].distance \in Nat
      BY <3>1, LiveEntry
    <3> QED  BY <1>1, <3>1, <3>2
  <2>5. table'[i] = table[i]
    BY <1>1, <1>4, <2>2
  <2> QED  BY <1>1, <2>2, <2>4, <2>5, SettledKept
<1>5. KeysUnique'
  <2>1. Hole = {pos} /\ Hole' = {}
    BY <1>1 DEF Hole
  <2>2. \A i \in Live : i # pos => table'[i].key = table[i].key
    BY <1>1, LiveEntry
  <2> QED  BY <1>1, <2>1, <2>2 DEF OInv, KeysUnique
<1> QED  BY <1>1, <1>4, <1>5 DEF OInv, ItemFits

LEMMA InitO == Init => OInv
<1> SUFFICES ASSUME Init PROVE OInv
  OBVIOUS
<1>1. Live = {}
  <2>1. InitialCapacity \in Nat \ {0} /\ table = NewTable(InitialCapacity)
    BY CapacityAssumption DEF Init
  <2> QED  BY <2>1, EmptyTable DEF Live, IsEmpty
<1> QED  BY <1>1 DEF Init, OInv, KeysUnique, ItemFits

LEMMA NextO ==
    ASSUME TInv, TInv', OInv, Asserted, [Next]_vars
    PROVE  OInv'
<1>1. CASE UNCHANGED vars
  <2>1. UNCHANGED <<table, pc, item, pos, dist>>
    BY <1>1 DEF vars
  <2>2. Capacity' = Capacity /\ Live' = Live /\ \A i \in Live : Settled(i)'
    BY <2>1, AllSettledKept
  <2>3. KeysUnique' /\ ItemFits'
    BY <2>1, <2>2 DEF OInv, KeysUnique, Hole, ItemFits, Run, Back, Masked
  <2> QED  BY <2>2, <2>3 DEF OInv
<1>2. CASE _resize
  <2>1. 2 * Capacity \in Nat \ {0} /\ table' = NewTable(2 * Capacity) /\ pc' # "probe"
    BY <1>2 DEF _resize, TInv
  <2>2. Live' = {}
    BY <2>1, Emptied
  <2> QED  BY <2>1, <2>2, EmptyO
<1>3. CASE clear
  <2>1. Live' = {} /\ pc' # "probe"
    BY <1>3, ClearT
  <2> QED  BY <2>1, EmptyO
<1>4. CASE ProbeNext
  <2>1. CASE table[pos].distance < dist
    BY <1>4, <2>1, SwapO DEF ProbeNext, TakesSlot
  <2>2. CASE ~(table[pos].distance < dist)
    <3>1. table[pos].distance \in Nat /\ dist \in Nat
      BY <1>4, ProbeNextT, LiveEntry DEF TInv, ProbeNext
    <3>2. table[pos].distance >= dist
      BY <2>2, <3>1
    <3> QED  BY <1>4, <2>2, <3>2, PassO DEF ProbeNext, TakesSlot
  <2> QED  BY <2>1, <2>2
<1> QED
  BY <1>1, <1>2, <1>3, <1>4, InsertO, StartItemO, ProbeEmptyO, ProbeSameO,
     EraseO, ShiftBackO, ShiftDoneO
     DEF Next, Operation, Running

-----------------------------------------------------------------------------
(* What the order gives. *)

LEMMA OrderLemma ==
    ASSUME TInv, OInv
    PROVE  RobinHoodOrder
<1> SUFFICES ASSUME pc = "idle" PROVE RobinHoodOrder
  BY DEF RobinHoodOrder
<1>1. Capacity \in Nat \ {0} /\ count = Cardinality(Live)
  BY DEF TInv
<1>2. \A i, j \in Live : table[i].key = table[j].key => i = j
  BY DEF OInv, KeysUnique, Hole
<1>3. ASSUME NEW i \in Slots, NEW next \in Slots, next = Masked(i + 1),
             next \in Live, table[next].distance # 0
      PROVE  i \in Live /\ table[next].distance <= table[i].distance + 1
  <2>1. table[next].distance \in Nat /\ Run(next, table[next].distance)
    BY <1>3, LiveEntry DEF OInv, Settled
  <2>2. 1 \in 1 .. table[next].distance
    BY <1>3, <2>1
  <2>3. Back(next, 1) = i
    BY <1>1, <1>3, BackNext, BackZero
  <2>4. i \in Live /\ table[i].distance + 1 >= table[next].distance
    BY <2>1, <2>2, <2>3 DEF Run
  <2> QED  BY <2>1, <2>4, LiveEntry
<1>4. ASSUME NEW i \in Live
      PROVE  Masked(table[i].key + table[i].distance) = i
  <2>1. /\ i \in Slots /\ table[i].key \in Nat /\ table[i].distance \in 0 .. Capacity - 1
        /\ Masked(table[i].key) = Back(i, table[i].distance)
    BY <1>1, LiveEntry DEF OInv, Settled, Run
  <2>2. PICK x \in Nat, d \in 0 .. Capacity - 1 : x = table[i].key /\ d = table[i].distance
    BY <2>1
  <2>3. Masked(x + d) = IF Masked(x) + d < Capacity THEN Masked(x) + d
                        ELSE Masked(x) + d - Capacity
    <3>1. d \in 0 .. Capacity
      BY <1>1
    <3> QED  BY <1>1, <3>1, MaskedPlus
  <2>4. Masked(x) = IF d <= i THEN i - d ELSE i - d + Capacity
    BY <2>1, <2>2 DEF Back
  <2>5. Masked(x + d) = i
    BY <1>1, <2>1, <2>3, <2>4 DEF Slots
  <2> QED  BY <2>2, <2>5
<1>5. \A i \in Slots : Masked(i + 1) \in Slots
  BY <1>1, NextSlot
<1>6. \A i \in Slots : IsEmpty(i) \/ i \in Live
  BY TableFinite DEF Live
<1>7. DOMAIN table = Slots /\ \A i \in Live : i \in Slots /\ table[i].distance \in Nat
  BY TableFinite, LiveEntry
<1>8. ASSUME NEW i \in Live, ~IsEmpty(Masked(i + 1))
      PROVE  table[Masked(i + 1)].distance <= table[i].distance + 1
  <2>1. Masked(i + 1) \in Slots /\ Masked(i + 1) \in Live
    BY <1>5, <1>6, <1>7, <1>8
  <2>2. table[Masked(i + 1)].distance \in Nat /\ table[i].distance \in Nat
    BY <1>7, <2>1
  <2> QED  BY <1>3, <1>7, <2>1, <2>2
<1>9. ASSUME NEW i \in DOMAIN table \ Live, ~IsEmpty(Masked(i + 1))
      PROVE  table[Masked(i + 1)].distance = 0
  <2>1. i \in Slots /\ Masked(i + 1) \in Slots /\ Masked(i + 1) \in Live
    BY <1>5, <1>6, <1>7, <1>9
  <2> QED  BY <1>3, <2>1
<1> QED  BY <1>1, <1>2, <1>4, <1>8, <1>9 DEF RobinHoodOrder

\* The search for a key starts at its home and stops at no slot before the key's.
LEMMA FindLemma ==
    ASSUME TInv, OInv, pc \in {"idle", "start", "probe"}, NEW i \in Live
    PROVE  FindFrom(table[i].key) = i
<1>1. Capacity \in Nat \ {0} /\ DistanceMax \in Nat
  BY DistanceAssumption DEF TInv
<1>2. /\ i \in Slots /\ table[i].key \in Nat /\ table[i].distance \in Nat
      /\ table[i].distance < Capacity /\ table[i].distance < DistanceMax
      /\ Masked(table[i].key) = Back(i, table[i].distance)
      /\ Run(i, table[i].distance)
  BY LiveEntry DEF OInv, Settled, Run
<1>3. PICK k \in Nat, d \in Nat : k = table[i].key /\ d = table[i].distance
  BY <1>2
<1> DEFINE slot(j) == Masked(k + j)
           stops == {j \in 0 .. Capacity - 1 :
                        \/ IsEmpty(slot(j)) \/ table[slot(j)].key = k
                        \/ table[slot(j)].distance < j % (DistanceMax + 1)}
           first == CHOOSE j \in stops : \A l \in stops : j <= l
<1>4. ASSUME NEW j \in 0 .. d
      PROVE  slot(j) = Back(i, d - j)
  <2>1. slot(j) = IF Masked(k) + j < Capacity THEN Masked(k) + j
                  ELSE Masked(k) + j - Capacity
    <3>1. j \in 0 .. Capacity
      BY <1>1, <1>2, <1>3
    <3> QED  BY <1>1, <3>1, MaskedPlus
  <2>2. Masked(k) = IF d <= i THEN i - d ELSE i - d + Capacity
    BY <1>2, <1>3 DEF Back
  <2> QED  BY <1>1, <1>2, <1>3, <2>1, <2>2 DEF Back, Slots
<1>5. slot(d) = i
  BY <1>1, <1>2, <1>3, <1>4, BackZero
<1>6. d \in stops
  BY <1>1, <1>2, <1>3, <1>5
<1>7. ASSUME NEW j \in 0 .. d - 1
      PROVE  j \notin stops
  <2>1. /\ d - j \in 1 .. d /\ j \in 0 .. d /\ d - j \in 0 .. Capacity - 1 /\ d - j # 0
    BY <1>1, <1>2, <1>3
  <2>2. slot(j) \in Live /\ table[slot(j)].distance + (d - j) >= d
    BY <1>2, <1>3, <1>4, <2>1 DEF Run
  <2>3. slot(j) # i
    BY <1>1, <1>2, <1>4, <2>1, BackInjective
  <2>4. table[slot(j)].key # k /\ ~IsEmpty(slot(j))
    BY <1>3, <2>2, <2>3 DEF OInv, KeysUnique, Hole, Live
  <2>5. j % (DistanceMax + 1) = j
    <3>1. DistanceMax + 1 \in Nat \ {0} /\ j \in 0 .. (DistanceMax + 1) - 1
      BY <1>1, <1>2, <1>3
    <3> QED  BY <3>1, ModSmall
  <2>6. ~(table[slot(j)].distance < j % (DistanceMax + 1))
    <3>1. table[slot(j)].distance \in Nat
      BY <2>2, LiveEntry
    <3> HIDE DEF slot
    <3> QED  BY <1>3, <2>1, <2>2, <2>5, <3>1
  <2> QED  BY <2>4, <2>6
<1>8. first = d
  <2>1. \A j \in stops : j \in Nat /\ ~(j \in 0 .. d - 1)
    BY <1>7
  <2>2. \A j \in stops : d <= j
    <3> HIDE DEF stops
    <3> QED  BY <1>3, <2>1
  <2>3. \A j \in stops : (\A l \in stops : j <= l) => j = d
    <3> HIDE DEF stops
    <3> QED  BY <1>3, <1>6, <2>1, <2>2
  <2> HIDE DEF stops
  <2> QED  BY <1>6, <2>2, <2>3
<1>9. FindFrom(k) = IF stops = {} THEN NotFound
                    ELSE IF table[slot(first)].key = k THEN slot(first) ELSE NotFound
  BY DEF FindFrom
<1> HIDE DEF stops, first, slot
<1> QED  BY <1>3, <1>5, <1>6, <1>8, <1>9

\* The entries behind a run are different, so it is no longer than the count.
LEMMA RunShort ==
    ASSUME TInv, NEW p \in Slots, NEW d \in Nat, Run(p, d)
    PROVE  d <= count
<1>1. /\ Capacity \in Nat \ {0} /\ d < Capacity
      /\ IsFiniteSet(Live) /\ count = Cardinality(Live)
  BY TableFinite DEF TInv, Run
<1> DEFINE f == [k \in 1 .. d |-> Back(p, k)]
<1>2. f \in [1 .. d -> Live]
  BY DEF Run
<1>3. ASSUME NEW k \in 1 .. d, NEW l \in 1 .. d, f[k] = f[l]
      PROVE  k = l
  <2>1. k \in 0 .. Capacity - 1 /\ l \in 0 .. Capacity - 1
    BY <1>1
  <2> QED  BY <1>1, <1>3, <2>1, BackInjective
<1>4. f \in Injection(1 .. d, Live)
  <2> HIDE DEF f
  <2> QED  BY <1>2, <1>3 DEF Injection, IsInjective
<1>5. Cardinality(1 .. d) = d
  <2>1. 1 \in Int /\ d \in Int /\ (1 > d => d = 0) /\ d - 1 + 1 = d
    OBVIOUS
  <2> QED  BY <2>1, FS_Interval
<1> HIDE DEF f
<1> QED  BY <1>1, <1>4, <1>5, FS_Injection

\* A table of at most 10 * DistanceMax \div 7 slots, 256 in the code, is never full
\* enough for the assertion to fail.
Small == 7 * InitialCapacity <= 10 * DistanceMax /\ 7 * MaxCapacity <= 10 * DistanceMax

LEMMA SmallAsserted ==
    ASSUME Small, TInv, OInv
    PROVE  Asserted
<1>1. /\ Capacity \in Nat \ {0} /\ count \in Nat /\ DistanceMax \in Nat \ {0}
      /\ InitialCapacity \in Nat /\ MaxCapacity \in Nat
  BY TableFinite, DistanceAssumption, CapacityAssumption DEF TInv
<1>2. 7 * Capacity <= 10 * DistanceMax
  BY <1>1 DEF Small, TInv, LoadInv
<1>3. CASE pc = "probe"
  <2>1. pos \in Slots /\ dist \in Nat /\ Run(pos, dist)
    BY <1>3 DEF TInv, OInv, ItemFits
  <2>2. dist <= count
    BY <2>1, RunShort
  <2>3. 10 * (count + 1) <= 7 * Capacity
    BY <1>3 DEF TInv, LoadInv
  <2> QED  BY <1>1, <1>2, <2>1, <2>2, <2>3 DEF Asserted
<1>4. CASE pc # "probe"
  BY <1>1, <1>4 DEF TInv, Asserted
<1> QED  BY <1>3, <1>4

-----------------------------------------------------------------------------
(* The map that the table implements. *)

\* Where nothing is added to what the map holds for a key, and nothing is taken away.
LEMMA SameContents ==
    ASSUME \A k \in Keys : IsThere(k)' = IsThere(k) /\ (IsThere(k) => ValueOf(k)' = ValueOf(k))
    PROVE  Contents' = Contents
<1>1. {k \in Keys : IsThere(k)'} = {k \in Keys : IsThere(k)}
  OBVIOUS
<1>2. \A k \in {j \in Keys : IsThere(j)} : ValueOf(k)' = ValueOf(k)
  OBVIOUS
<1> QED  BY <1>1, <1>2 DEF Contents

\* The last of some positions.
LEMMA MaxIs ==
    ASSUME NEW W \in SUBSET Nat, NEW i \in W, \A j \in W : j <= i
    PROVE  Max(W) = i
<1>1. \A j \in W : i >= j
  OBVIOUS
<1>2. \A l \in W : (\A j \in W : l >= j) => l = i
  OBVIOUS
<1> QED  BY <1>1, <1>2 DEF Max

LEMMA LastPosition ==
    ASSUME NEW n \in Nat, NEW W \in SUBSET (0 .. n), W # {}
    PROVE  Max(W) \in W /\ \A j \in W : j <= Max(W)
<1> DEFINE behind == {m \in 0 .. n : n - m \in W}
<1>1. behind \in SUBSET Nat /\ behind # {}
  <2>1. PICK i \in 0 .. n : i \in W
    OBVIOUS
  <2>2. PICK m \in 0 .. n : n - m = i
    <3>1. n - i \in 0 .. n /\ n - (n - i) = i
      OBVIOUS
    <3> QED  BY <3>1
  <2>3. m \in behind
    BY <2>1, <2>2
  <2>4. behind \in SUBSET (0 .. n)
    OBVIOUS
  <2> HIDE DEF behind
  <2> QED  BY <2>3, <2>4
<1>2. PICK b \in behind : \A c \in behind : b <= c
  <2> HIDE DEF behind
  <2> QED  BY <1>1, LeastElement
<1>3. ASSUME NEW j \in W
      PROVE  j <= n - b
  <2>1. n - j \in 0 .. n /\ n - (n - j) = j
    OBVIOUS
  <2>2. b <= n - j
    BY <1>2, <2>1
  <2> QED  BY <1>2, <2>1, <2>2
<1>4. n - b \in W /\ W \in SUBSET Nat
  BY <1>2
<1>5. Max(W) = n - b
  BY <1>3, <1>4, MaxIs
<1> QED  BY <1>3, <1>4, <1>5

LEMMA MaxOfOne == ASSUME NEW i \in Nat PROVE Max({i}) = i
BY MaxIs

\* The value of a key that is in the table and nowhere else.
LEMMA ValueInTable ==
    ASSUME TInv, NEW k, NEW i, InTable(k) = {i}, ~InHands(k), Waiting(k) = {}
    PROVE  IsThere(k) /\ ValueOf(k) = table[i].value
<1>1. i \in Nat
  BY TableFinite DEF InTable, Slots
<1> QED  BY <1>1, MaxOfOne DEF IsThere, ValueOf

LEMMA SlotInTable ==
    ASSUME TInv, NEW k, InTable(k) # {}
    PROVE  Max(InTable(k)) \in InTable(k)
<1>1. InTable(k) \in SUBSET (0 .. Capacity - 1) /\ Capacity - 1 \in Nat
  BY TableFinite DEF InTable, Slots, TInv
<1> QED  BY <1>1, LastPosition

\* A key has at most one slot.
LEMMA OneSlot ==
    ASSUME OInv, NEW k \in Keys, NEW i \in InTable(k)
    PROVE  InTable(k) = {i}
BY DEF OInv, KeysUnique, Hole, InTable

LEMMA OneSlotNext ==
    ASSUME OInv', NEW k \in Keys, NEW i \in InTable(k)'
    PROVE  InTable(k)' = {i}
BY DEF OInv, KeysUnique, Hole, InTable

\* Between operations only the table holds something.
LEMMA IdleHolds ==
    ASSUME TInv, pc \in {"idle", "shift"}, NEW k
    PROVE  Waiting(k) = {} /\ ~InHands(k)
<1>1. queue = <<>>
  BY DEF TInv
<1> QED  BY <1>1 DEF Waiting, InHands

LEMMA InsertM ==
    ASSUME TInv, NEW k \in Keys, NEW v \in Values, insert(k, v)
    PROVE  Map!Insert(k, v)
<1>1. /\ pc = "idle" /\ pc' = "start" /\ queue' = <<[key |-> k, value |-> v]>>
      /\ UNCHANGED <<table, pos>>
  BY DEF insert
<1>2. \A j \in Keys : Waiting(j) = {} /\ ~InHands(j)
  BY <1>1, IdleHolds
<1>3. \A j : InTable(j)' = InTable(j) /\ ~InHands(j)'
  BY <1>1 DEF InTable, InHands, Live, IsEmpty
<1>4. /\ \A j \in Keys : j # k => Waiting(j)' = {}
      /\ Waiting(k)' = {1} /\ queue'[1].value = v
  BY <1>1 DEF Waiting
<1>5. IsThere(k)' /\ ValueOf(k)' = v
  <2>1. Max({1}) = 1
    BY MaxOfOne
  <2> QED  BY <1>4, <2>1 DEF IsThere, ValueOf
<1>6. \A j \in Keys : j # k =>
          IsThere(j)' = IsThere(j) /\ (IsThere(j) => ValueOf(j)' = ValueOf(j))
  BY <1>1, <1>2, <1>3, <1>4 DEF IsThere, ValueOf
<1>7. {j \in Keys : IsThere(j)'} = {j \in Keys : IsThere(j)} \cup {k}
  BY <1>5, <1>6
<1>8. Contents' = [j \in DOMAIN Contents \cup {k} |-> IF j = k THEN v ELSE Contents[j]]
  BY <1>5, <1>6, <1>7 DEF Contents
<1> QED  BY <1>1, <1>8 DEF Map!Insert

LEMMA EraseM ==
    ASSUME TInv, TInv', OInv, NEW k \in Keys, erase(k)
    PROVE  Map!Erase(k)
<1>1. /\ pc = "idle" /\ pc' = "shift" /\ pos' \in Live /\ table[pos'].key = k
      /\ UNCHANGED <<table, queue, item>>
  <2>1. k \in Nat
    BY KeysAssumption
  <2>2. table[FindFrom(k)].key = k
    BY <2>1, FoundSlot DEF erase
  <2> QED  BY <2>2, EraseT DEF erase
<1>2. /\ \A j \in Keys : Waiting(j) = {} /\ ~InHands(j)
      /\ \A j \in Keys : Waiting(j)' = {} /\ ~InHands(j)'
  <2>1. \A j \in Keys : Waiting(j) = {} /\ ~InHands(j)
    BY <1>1, IdleHolds
  <2> QED  BY <1>1, <2>1 DEF Waiting, InHands
<1>3. \A j \in Keys : j # k => InTable(j)' = InTable(j)
  BY <1>1 DEF InTable, Live, IsEmpty
<1>4. InTable(k)' = {}
  <2>1. InTable(k) = {pos'}
    <3>1. pos' \in InTable(k)
      BY <1>1 DEF InTable
    <3> QED  BY <3>1, OneSlot
  <2> QED  BY <1>1, <2>1 DEF InTable, Live, IsEmpty
<1>5. /\ ~IsThere(k)'
      /\ \A j \in Keys : j # k =>
            IsThere(j)' = IsThere(j) /\ (IsThere(j) => ValueOf(j)' = ValueOf(j))
  BY <1>1, <1>2, <1>3, <1>4 DEF IsThere, ValueOf
<1>6. {j \in Keys : IsThere(j)'} = {j \in Keys : IsThere(j)} \ {k}
  BY <1>5
<1>7. Contents' = [j \in DOMAIN Contents \ {k} |-> Contents[j]]
  BY <1>5, <1>6 DEF Contents
<1> QED  BY <1>1, <1>7 DEF Map!Erase

LEMMA ClearM ==
    ASSUME TInv, TInv', clear
    PROVE  Map!Clear
<1>1. pc = "idle" /\ pc' = "idle" /\ Live' = {} /\ UNCHANGED <<queue, item>>
  BY ClearT DEF clear
<1>2. \A j \in Keys : ~IsThere(j)'
  <2>1. \A j \in Keys : Waiting(j) = {} /\ ~InHands(j)
    BY <1>1, IdleHolds
  <2>2. \A j \in Keys : Waiting(j)' = {} /\ ~InHands(j)' /\ InTable(j)' = {}
    BY <1>1, <2>1 DEF Waiting, InHands, InTable
  <2> QED  BY <2>2 DEF IsThere
<1>3. {j \in Keys : IsThere(j)'} = {}
  BY <1>2
<1>4. Contents' = [j \in {} |-> {}]
  BY <1>3 DEF Contents
<1> QED  BY <1>1, <1>4 DEF Map!Clear

\* What stands where when one sequence is put in front of another.
LEMMA Appended ==
    ASSUME NEW s \in Seq(Items), NEW t \in Seq(Items)
    PROVE  /\ Len(s \o t) = Len(s) + Len(t)
           /\ \A i \in 1 .. Len(s) : (s \o t)[i] = s[i]
           /\ \A i \in 1 .. Len(t) : (s \o t)[Len(s) + i] = t[i]
<1>1. Len(s) \in Nat /\ Len(t) \in Nat
  OBVIOUS
<1>2. Len(s \o t) = Len(s) + Len(t)
  OBVIOUS
<1>3. ASSUME NEW i \in 1 .. Len(s)
      PROVE  (s \o t)[i] = s[i]
  OBVIOUS
<1>4. ASSUME NEW i \in 1 .. Len(t)
      PROVE  (s \o t)[Len(s) + i] = t[i]
  OBVIOUS
<1> QED  BY <1>2, <1>3, <1>4

\* A resize queues every entry of the table in front of what waits.
LEMMA ResizeM ==
    ASSUME TInv, TInv', OInv, _resize
    PROVE  Contents' = Contents
<1>1. /\ pc = "start" /\ pc' = "start" /\ queue' = OldEntries \o queue
      /\ queue \in Seq(Items) /\ queue' \in Seq(Items)
      /\ OldEntries \in Seq(Items) /\ Len(OldEntries) = count /\ count \in Nat
  BY TableFinite, OldEntriesType DEF _resize, TInv
<1>2. Live' = {}
  <2>1. 2 * Capacity \in Nat \ {0} /\ table' = NewTable(2 * Capacity)
    BY DEF _resize, TInv
  <2> QED  BY <2>1, Emptied
<1>3. /\ Len(queue) \in Nat /\ Len(queue') = count + Len(queue)
      /\ \A i \in 1 .. count : queue'[i] = OldEntries[i]
      /\ \A i \in 1 .. Len(queue) : queue'[count + i] = queue[i]
  <2>0. Len(queue) \in Nat
    BY <1>1
  <2>1. PICK n \in Nat, m \in Nat : n = count /\ m = Len(queue)
    BY <1>1, <2>0
  <2>2. /\ Len(queue') = n + m
        /\ \A i \in 1 .. n : queue'[i] = OldEntries[i]
        /\ \A i \in 1 .. m : queue'[n + i] = queue[i]
    <3>1. /\ Len(OldEntries \o queue) = Len(OldEntries) + Len(queue)
          /\ \A i \in 1 .. Len(OldEntries) : (OldEntries \o queue)[i] = OldEntries[i]
          /\ \A i \in 1 .. Len(queue) : (OldEntries \o queue)[Len(OldEntries) + i] = queue[i]
      <4>1. OldEntries \in Seq(Items) /\ queue \in Seq(Items)
        BY <1>1
      <4> QED  BY ONLY <4>1, Appended
    <3>2. queue' = OldEntries \o queue /\ Len(OldEntries) = n /\ Len(queue) = m
      BY <1>1, <2>1
    <3> QED  BY ONLY <3>1, <3>2
  <2> QED  BY ONLY <2>0, <2>1, <2>2
<1>4. /\ \A n \in 1 .. count : /\ InOrder(Live)[n] \in Live
                               /\ OldEntries[n].key = table[InOrder(Live)[n]].key
                               /\ OldEntries[n].value = table[InOrder(Live)[n]].value
      /\ \A i \in Live : \E n \in 1 .. count : InOrder(Live)[n] = i
  <2>1. IsFiniteSet(Live) /\ Live \in SUBSET Nat /\ count = Cardinality(Live)
    BY TableFinite DEF TInv, Slots
  <2> QED  BY <2>1, InOrderType DEF OldEntries, Entries
<1>5. \A k : ~InHands(k) /\ ~InHands(k)' /\ InTable(k)' = {}
  BY <1>1, <1>2 DEF InHands, InTable
<1>6. ASSUME NEW k \in Keys
      PROVE  IsThere(k)' = IsThere(k) /\ (IsThere(k) => ValueOf(k)' = ValueOf(k))
  <2>1. /\ \A i \in Waiting(k) : count + i \in Waiting(k)'
        /\ \A i \in 1 .. count : i \in Waiting(k)' <=> InOrder(Live)[i] \in InTable(k)
        /\ \A i \in Waiting(k)' :
              i \in 1 .. count \/ (i - count \in Waiting(k) /\ i = count + (i - count))
    <3>1. /\ DOMAIN queue = 1 .. Len(queue) /\ DOMAIN queue' = 1 .. count + Len(queue)
          /\ \A i \in 1 .. Len(queue) : count + i \in 1 .. count + Len(queue)
          /\ \A i \in 1 .. count : i \in 1 .. count + Len(queue)
          /\ \A i \in 1 .. count + Len(queue) :
                 i \in 1 .. count \/ (i - count \in 1 .. Len(queue) /\ i = count + (i - count))
      BY <1>1, <1>3
    <3>2. Waiting(k) = {i \in 1 .. Len(queue) : queue[i].key = k}
      BY ONLY <3>1 DEF Waiting
    <3>3. Waiting(k)' = {i \in 1 .. count + Len(queue) : queue'[i].key = k}
      BY ONLY <3>1 DEF Waiting
    <3>4. ASSUME NEW i \in Waiting(k)
          PROVE  count + i \in Waiting(k)'
      BY <1>3, <3>1, <3>2, <3>3
    <3>5. ASSUME NEW i \in 1 .. count
          PROVE  i \in Waiting(k)' <=> InOrder(Live)[i] \in InTable(k)
      <4>1. i \in Waiting(k)' <=> OldEntries[i].key = k
        <5>1. i \in 1 .. count + Len(queue) /\ queue'[i] = OldEntries[i]
          BY <1>3, <3>1
        <5> QED  BY ONLY <3>3, <5>1
      <4>2. InOrder(Live)[i] \in InTable(k) <=> table[InOrder(Live)[i]].key = k
        BY <1>1, <1>4 DEF InTable
      <4>3. OldEntries[i].key = table[InOrder(Live)[i]].key
        BY <1>4
      <4> QED  BY ONLY <4>1, <4>2, <4>3
    <3>6. ASSUME NEW i \in Waiting(k)'
          PROVE  i \in 1 .. count \/ (i - count \in Waiting(k) /\ i = count + (i - count))
      BY <1>3, <3>1, <3>2, <3>3
    <3> QED  BY <3>4, <3>5, <3>6
  <2>2. Waiting(k) \in SUBSET (1 .. Len(queue)) /\ Waiting(k) \in SUBSET (0 .. Len(queue)) /\ Waiting(k)' \in SUBSET Nat
    BY <1>1 DEF Waiting
  <2>3. CASE Waiting(k) # {}
    <3>1. PICK i \in Waiting(k) : i = Max(Waiting(k)) /\ \A j \in Waiting(k) : j <= i
      BY <1>3, <2>2, <2>3, LastPosition
    <3>2. ValueOf(k) = queue[i].value /\ IsThere(k)
      BY <2>3, <3>1 DEF IsThere, ValueOf
    <3>3. count + i \in Waiting(k)' /\ \A j \in Waiting(k)' : j <= count + i
      <4>1. i \in Nat /\ count \in Nat
        BY <1>1, <1>3, <2>2
      <4>2. ASSUME NEW j \in Waiting(k)'
            PROVE  j <= count + i
        <5>1. CASE j \in 1 .. count
          BY <4>1, <5>1
        <5>2. CASE j - count \in Waiting(k)
          <6>1. j \in Nat /\ j - count <= i
            BY <2>2, <3>1, <5>2
          <6> QED  BY <4>1, <6>1
        <5> QED  BY <2>1, <5>1, <5>2
      <4> QED  BY <2>1, <4>2
    <3>4. ValueOf(k)' = queue'[count + i].value /\ IsThere(k)'
      <4>1. Max(Waiting(k)') = count + i
        BY <2>2, <3>3, MaxIs
      <4> QED  BY <3>3, <4>1 DEF ValueOf, IsThere
    <3> QED  BY <1>3, <2>2, <3>2, <3>4
  <2>4. CASE Waiting(k) = {} /\ InTable(k) # {}
    <3>1. PICK i : InTable(k) = {i}
      BY <2>4, OneSlot
    <3>2. PICK n \in 1 .. count : InOrder(Live)[n] = i
      BY <1>4, <3>1 DEF InTable
    <3>3. n \in Waiting(k)'
      BY <2>1, <3>1, <3>2
    <3>4. \A l \in Waiting(k)' : queue'[l].value = table[i].value
      BY <1>3, <1>4, <2>1, <2>4, <3>1
    <3>5. IsThere(k)' /\ ValueOf(k)' = table[i].value
      <4>1. Max(Waiting(k)') \in Waiting(k)'
        <5>1. Len(queue') \in Nat /\ Waiting(k)' \in SUBSET (0 .. Len(queue'))
          BY <1>1 DEF Waiting
        <5>2. Waiting(k)' # {}
          BY <3>3
        <5> QED  BY <5>1, <5>2, LastPosition
      <4> QED  BY <3>4, <4>1 DEF IsThere, ValueOf
    <3> QED  BY <1>5, <2>4, <3>1, <3>5, ValueInTable
  <2>5. CASE Waiting(k) = {} /\ InTable(k) = {}
    <3>1. Waiting(k)' = {}
      BY <2>1, <2>5
    <3> QED  BY <1>5, <2>5, <3>1 DEF IsThere
  <2> QED  BY <2>3, <2>4, <2>5
<1> QED  BY <1>6, SameContents

\* The first of what waits is taken in hands.
LEMMA StartItemM ==
    ASSUME TInv, TInv', StartItem
    PROVE  Contents' = Contents
<1>1. /\ pc = "start" /\ pc' = "probe" /\ queue \in Seq(Items) /\ queue # <<>>
      /\ item' = queue[1] /\ queue' = Tail(queue) /\ UNCHANGED table
  BY DEF StartItem, TInv
<1>2. /\ Len(queue) \in Nat \ {0} /\ Len(queue') = Len(queue) - 1 /\ queue' \in Seq(Items)
      /\ \A i \in 1 .. Len(queue) - 1 : queue'[i] = queue[i + 1]
  BY <1>1
<1>3. \A k : ~InHands(k) /\ InTable(k)' = InTable(k) /\ (InHands(k)' <=> queue[1].key = k)
  BY <1>1 DEF InHands, InTable, Live, IsEmpty
<1>4. ASSUME NEW k \in Keys
      PROVE  IsThere(k)' = IsThere(k) /\ (IsThere(k) => ValueOf(k)' = ValueOf(k))
  <2>1. /\ \A i \in Waiting(k) : i = 1 \/ i - 1 \in Waiting(k)'
        /\ \A i \in Waiting(k)' : i + 1 \in Waiting(k)
        /\ 1 \in Waiting(k) <=> queue[1].key = k
    <3>1. /\ DOMAIN queue = 1 .. Len(queue) /\ DOMAIN queue' = 1 .. Len(queue) - 1
          /\ \A i \in 1 .. Len(queue) : i = 1 \/ i - 1 \in 1 .. Len(queue) - 1
          /\ \A i \in 1 .. Len(queue) : (i - 1) + 1 = i
          /\ \A i \in 1 .. Len(queue) - 1 : i + 1 \in 1 .. Len(queue)
          /\ 1 \in 1 .. Len(queue)
      BY <1>1, <1>2
    <3> QED  BY <1>2, <3>1 DEF Waiting
  <2>2. Waiting(k) \in SUBSET (1 .. Len(queue)) /\ Waiting(k) \in SUBSET (0 .. Len(queue)) /\ Waiting(k)' \in SUBSET (Nat \ {0})
    <3>1. DOMAIN queue = 1 .. Len(queue) /\ DOMAIN queue' = 1 .. Len(queue')
      BY <1>1, <1>2
    <3> QED  BY <3>1 DEF Waiting
  <2>3. CASE Waiting(k) # {}
    <3>1. PICK i \in Waiting(k) : i = Max(Waiting(k)) /\ \A j \in Waiting(k) : j <= i
      BY <1>2, <2>2, <2>3, LastPosition
    <3>2. ValueOf(k) = queue[i].value /\ IsThere(k)
      BY <2>3, <3>1 DEF IsThere, ValueOf
    <3>3. CASE i = 1
      <4>1. Waiting(k)' = {}
        <5>1. \A j \in Waiting(k)' : j + 1 <= 1 /\ j \in Nat \ {0}
          BY <2>1, <2>2, <3>1, <3>3
        <5> QED  BY <5>1
      <4>2. InHands(k)'
        BY <1>3, <2>1, <3>1, <3>3
      <4> QED  BY <1>1, <3>2, <3>3, <4>1, <4>2 DEF IsThere, ValueOf
    <3>4. CASE i # 1
      <4>1. i - 1 \in Waiting(k)' /\ \A j \in Waiting(k)' : j <= i - 1
        BY <2>1, <2>2, <3>1, <3>4
      <4>2. Max(Waiting(k)') = i - 1
        <5>1. Waiting(k)' \in SUBSET Nat
          BY <2>2
        <5> QED  BY <4>1, <5>1, MaxIs
      <4>3. queue'[i - 1] = queue[i]
        BY <1>2, <2>2, <3>1, <3>4
      <4> QED  BY <3>2, <4>1, <4>2, <4>3 DEF IsThere, ValueOf
    <3> QED  BY <3>3, <3>4
  <2>4. CASE Waiting(k) = {}
    <3>1. Waiting(k)' = {} /\ ~InHands(k)'
      BY <1>3, <2>1, <2>4
    <3> QED  BY <1>1, <1>3, <2>4, <3>1 DEF IsThere, ValueOf
  <2> QED  BY <2>3, <2>4
<1> QED  BY <1>4, SameContents

\* The item in hands is written to a slot, free or of its key.
LEMMA PlaceM ==
    ASSUME TInv, TInv', OInv, OInv', ProbeEmpty \/ ProbeSame
    PROVE  Contents' = Contents
<1>1. /\ pc = "probe" /\ pc' \in {"start", "idle"} /\ UNCHANGED queue
      /\ pos \in Slots /\ item \in Items
  BY DEF ProbeEmpty, ProbeSame, ItemDone, TInv
<1>2. /\ table'[pos].key = item.key /\ table'[pos].value = item.value
      /\ table[pos].key \in {EmptyKey, item.key}
      /\ DOMAIN table' = DOMAIN table /\ DOMAIN table = Slots
      /\ \A j \in Slots : j # pos => table'[j] = table[j]
  <2>1. DOMAIN table = Slots /\ table \in [Slots -> Nodes]
    BY TableFinite DEF TInv
  <2>2. CASE ProbeEmpty
    BY <1>1, <2>1, <2>2 DEF ProbeEmpty, IsEmpty
  <2>3. CASE ProbeSame
    <3>1. /\ table[pos].key = item.key
          /\ table' = [table EXCEPT ![pos] = [table[pos] EXCEPT !.value = item.value]]
      BY <2>3 DEF ProbeSame
    <3>2. table[pos] \in [key : Keys, value : Values, distance : Nat]
      <4>1. item.key # EmptyKey
        BY <1>1, KeysAssumption DEF Items
      <4> QED  BY <1>1, <2>1, <3>1, <4>1 DEF Nodes, EmptyNode
    <3> QED  BY <1>1, <2>1, <3>1, <3>2
  <2> QED  BY <2>2, <2>3
<1>3. item.key \in Keys /\ item.key # EmptyKey
  BY <1>1, KeysAssumption DEF Items
<1>4. \A k : ~InHands(k)' /\ Waiting(k)' = Waiting(k) /\ (InHands(k) <=> item.key = k)
  BY <1>1 DEF InHands, Waiting
<1>5. ASSUME NEW k \in Keys, k = item.key
      PROVE  InTable(k)' = {pos}
  <2>1. pos \in InTable(k)'
    BY <1>1, <1>2, <1>3, <1>5 DEF InTable, Live, IsEmpty
  <2> QED  BY <2>1, OneSlotNext
<1>6. \A k \in Keys : k # item.key => InTable(k)' = InTable(k)
  BY <1>1, <1>2, <1>3, KeysAssumption DEF InTable, Live, IsEmpty
<1>7. ASSUME NEW k \in Keys
      PROVE  IsThere(k)' = IsThere(k) /\ (IsThere(k) => ValueOf(k)' = ValueOf(k))
  <2>1. CASE Waiting(k) # {}
    BY <1>1, <1>4, <2>1 DEF IsThere, ValueOf
  <2>2. CASE Waiting(k) = {} /\ k = item.key
    <3>1. Max({pos}) = pos
      BY <1>1, MaxOfOne DEF Slots
    <3> QED  BY <1>2, <1>4, <1>5, <2>2, <3>1 DEF IsThere, ValueOf
  <2>3. CASE Waiting(k) = {} /\ k # item.key
    <3>1. \A i \in InTable(k) : table'[i] = table[i]
      BY <1>2, <1>3, <2>3, KeysAssumption DEF InTable, Live
    <3>2. InTable(k) # {} => Max(InTable(k)) \in InTable(k)
      BY SlotInTable
    <3> QED  BY <1>4, <1>6, <2>3, <3>1, <3>2 DEF IsThere, ValueOf
  <2> QED  BY <2>1, <2>2, <2>3
<1> QED  BY <1>7, SameContents

\* The item in hands and an entry change places, or nothing changes but the position.
LEMMA ProbeNextM ==
    ASSUME TInv, TInv', OInv, OInv', ProbeNext
    PROVE  Contents' = Contents
<1>1. /\ pc = "probe" /\ pc' = "probe" /\ UNCHANGED queue
      /\ pos \in Live /\ pos \in Slots /\ item \in Items /\ Live' = Live
      /\ table[pos].key \in Keys /\ table[pos].key # item.key
  BY ProbeNextT, LiveEntry DEF ProbeNext, TInv
<1>2. \A k : Waiting(k)' = Waiting(k) /\ (InHands(k) <=> item.key = k)
                                     /\ (InHands(k)' <=> item'.key = k)
  BY <1>1 DEF InHands, Waiting
<1>3. CASE UNCHANGED <<table, item>>
  <2>1. \A k : InTable(k)' = InTable(k)
    BY <1>1, <1>3 DEF InTable
  <2> QED  BY <1>1, <1>2, <1>3, <2>1, SameContents DEF IsThere, ValueOf
<1>4. CASE /\ table' = [table EXCEPT ![pos] =
                           [key |-> item.key, value |-> item.value, distance |-> dist]]
           /\ item' = [key |-> table[pos].key, value |-> table[pos].value]
  <2>1. /\ table'[pos].key = item.key /\ table'[pos].value = item.value
        /\ item'.key = table[pos].key /\ item'.value = table[pos].value
        /\ \A j \in Slots : j # pos => table'[j] = table[j]
        /\ Live \subseteq Slots
    BY <1>1, <1>4, TableFinite
  <2>2. item.key \in Keys
    BY <1>1 DEF Items
  <2>3. ASSUME NEW k \in Keys, k = item.key
        PROVE  InTable(k)' = {pos}
    <3>1. pos \in InTable(k)'
      BY <1>1, <2>1, <2>3 DEF InTable
    <3> QED  BY <3>1, OneSlotNext
  <2>4. InTable(table[pos].key) = {pos}
    <3>1. pos \in InTable(table[pos].key)
      BY <1>1 DEF InTable
    <3> QED  BY <1>1, <3>1, OneSlot
  <2>5. \A k \in Keys : k \notin {item.key, table[pos].key} =>
            InTable(k)' = InTable(k) /\ \A i \in InTable(k) : table'[i] = table[i]
    BY <1>1, <2>1 DEF InTable
  <2>6. Max({pos}) = pos
    BY <1>1, MaxOfOne DEF Slots
  <2>7. ASSUME NEW k \in Keys
        PROVE  IsThere(k)' = IsThere(k) /\ (IsThere(k) => ValueOf(k)' = ValueOf(k))
    <3>1. CASE Waiting(k) # {}
      BY <1>1, <1>2, <3>1 DEF IsThere, ValueOf
    <3>2. CASE Waiting(k) = {} /\ k = item.key
      BY <1>1, <1>2, <2>1, <2>3, <2>6, <3>2 DEF IsThere, ValueOf
    <3>3. CASE Waiting(k) = {} /\ k = table[pos].key
      BY <1>1, <1>2, <2>1, <2>4, <2>6, <3>3 DEF IsThere, ValueOf
    <3>4. CASE Waiting(k) = {} /\ k \notin {item.key, table[pos].key}
      <4>1. InTable(k) # {} => Max(InTable(k)) \in InTable(k)
        BY SlotInTable
      <4> QED  BY <1>2, <2>1, <2>5, <3>4, <4>1 DEF IsThere, ValueOf
    <3> QED  BY <3>1, <3>2, <3>3, <3>4
  <2> QED  BY <2>7, SameContents
<1> QED  BY <1>3, <1>4 DEF ProbeNext

\* The hole that erase() made moves on, and the entry behind it moves into it.
LEMMA ShiftBackM ==
    ASSUME TInv, TInv', OInv, ShiftBack
    PROVE  Contents' = Contents
<1>1. /\ pc = "shift" /\ pc' = "shift" /\ UNCHANGED <<queue, item>> /\ Live' = Live
      /\ pos \in Live /\ pos' \in Live /\ Live \subseteq Slots
      /\ table'[pos].key = table[pos'].key /\ table'[pos].value = table[pos'].value
      /\ \A j \in Slots : j # pos => table'[j] = table[j]
  BY ShiftBackT, TableFinite DEF ShiftBack
<1>2. pos' # pos
  <2>1. pos' = Masked(pos + 1) /\ table[pos'].distance \in Nat \ {0}
    BY ShiftBackT
  <2>2. Capacity \in Nat \ {0} /\ pos \in Slots /\ pos' \in Slots
    BY <1>1 DEF TInv
  <2>3. table[pos'].distance < Capacity
    BY <1>1 DEF OInv, Settled, Run
  <2>4. 1 \in 1 .. Capacity /\ 1 \in 0 .. Capacity - 1
    BY <2>1, <2>2, <2>3
  <2>5. Back(pos', 1) = pos
    <3>1. Back(Masked(pos + 1), 1) = Back(pos, 1 - 1) /\ 1 - 1 = 0
      BY <2>2, <2>4, BackNext
    <3> QED  BY <2>1, <2>2, <3>1, BackZero
  <2> QED  BY <2>2, <2>4, <2>5, BackInjective
<1>3. \A k : Waiting(k)' = Waiting(k) /\ ~InHands(k) /\ ~InHands(k)'
  BY <1>1 DEF Waiting, InHands
<1>4. table[pos'].key \in Keys
  BY <1>1, LiveEntry
<1>5. InTable(table[pos'].key) = {pos'}
  <2>1. pos' \in InTable(table[pos'].key)
    BY <1>1, <1>2 DEF InTable
  <2> QED  BY <1>4, <2>1, OneSlot
<1>6. /\ \A k \in Keys : k = table[pos'].key => InTable(k)' = {pos}
      /\ \A k \in Keys : k # table[pos'].key =>
            InTable(k)' = InTable(k) /\ \A i \in InTable(k) : table'[i] = table[i]
  BY <1>1, <1>2, <1>5 DEF InTable
<1>7. ASSUME NEW k \in Keys
      PROVE  IsThere(k)' = IsThere(k) /\ (IsThere(k) => ValueOf(k)' = ValueOf(k))
  <2>1. CASE Waiting(k) # {}
    BY <1>1, <1>3, <2>1 DEF IsThere, ValueOf
  <2>2. CASE Waiting(k) = {} /\ k = table[pos'].key
    <3>1. Max({pos}) = pos /\ Max({pos'}) = pos'
      BY <1>1, MaxOfOne DEF Slots
    <3> QED  BY <1>1, <1>3, <1>5, <1>6, <2>2, <3>1 DEF IsThere, ValueOf
  <2>3. CASE Waiting(k) = {} /\ k # table[pos'].key
    <3>1. InTable(k) # {} => Max(InTable(k)) \in InTable(k)
      BY SlotInTable
    <3> QED  BY <1>3, <1>6, <2>3, <3>1 DEF IsThere, ValueOf
  <2> QED  BY <2>1, <2>2, <2>3
<1> QED  BY <1>7, SameContents

LEMMA ShiftDoneM ==
    ASSUME TInv, TInv', ShiftDone
    PROVE  Contents' = Contents
<1>1. /\ pc = "shift" /\ pc' = "idle" /\ UNCHANGED <<queue, item>>
      /\ Live' = Live \ {pos} /\ Live \subseteq Slots
      /\ \A j \in Slots : j # pos => table'[j] = table[j]
  BY ShiftDoneT, TableFinite DEF ShiftDone
<1>2. \A k : /\ Waiting(k)' = Waiting(k) /\ ~InHands(k) /\ ~InHands(k)'
            /\ InTable(k)' = InTable(k) /\ \A i \in InTable(k) : table'[i] = table[i]
  BY <1>1 DEF Waiting, InHands, InTable
<1>3. \A k : InTable(k) # {} => Max(InTable(k)) \in InTable(k)
  BY SlotInTable
<1> QED  BY <1>1, <1>2, <1>3, SameContents DEF IsThere, ValueOf

\* Every step of the table is a step of the map or leaves it alone.
LEMMA NextM ==
    ASSUME TInv, TInv', OInv, OInv', [Next]_vars
    PROVE  [Map!Next]_(Map!mapVars)
<1>1. ASSUME NEW k \in Keys, NEW v \in Values, insert(k, v) PROVE Map!Next
  BY <1>1, InsertM DEF Map!Next
<1>2. ASSUME NEW k \in Keys, erase(k) PROVE Map!Next
  BY <1>2, EraseM DEF Map!Next
<1>3. CASE clear
  BY <1>3, ClearM DEF Map!Next
<1>4. CASE Running
  <2>1. Contents' = Contents
    BY <1>4, ResizeM, StartItemM, PlaceM, ProbeNextM, ShiftBackM, ShiftDoneM DEF Running
  <2>2. pc # "idle"
    BY <1>4 DEF Running, _resize, StartItem, ProbeEmpty, ProbeSame, ProbeNext, ShiftBack,
                ShiftDone
  <2> QED  BY <2>1, <2>2 DEF Map!Next, Map!Return, Map!mapVars
<1>5. CASE UNCHANGED vars
  <2>1. \A k : /\ Waiting(k)' = Waiting(k) /\ InHands(k)' = InHands(k)
              /\ InTable(k)' = InTable(k)
    BY <1>5 DEF vars, Waiting, InHands, InTable, Live, IsEmpty
  <2>2. Contents' = Contents
    BY <1>5, <2>1, SameContents DEF vars, IsThere, ValueOf
  <2> QED  BY <1>5, <2>2 DEF vars, Map!mapVars
<1> QED  BY <1>1, <1>2, <1>3, <1>4, <1>5 DEF Next, Operation

LEMMA InitM == Init => Map!Init
<1> SUFFICES ASSUME Init PROVE Map!Init
  OBVIOUS
<1>1. Live = {}
  <2>1. InitialCapacity \in Nat \ {0} /\ table = NewTable(InitialCapacity)
    BY CapacityAssumption DEF Init
  <2> QED  BY <2>1, EmptyTable DEF Live, IsEmpty
<1>2. {j \in Keys : IsThere(j)} = {}
  BY <1>1 DEF Init, IsThere, Waiting, InHands, InTable
<1> QED  BY <1>2 DEF Init, Map!Init, Contents

-----------------------------------------------------------------------------
LEMMA OrderInvariance == Spec /\ []Asserted => []OInv
<1>1. TInv /\ TInv' /\ OInv /\ Asserted /\ [Next]_vars => OInv'
  BY NextO
<1> QED  BY <1>1, InitO, TInvariance, PTL DEF Spec

\* In every run in which the assertion of insert() holds, each key is in one slot at its
\* distance from home, and no entry was passed over by a poorer one.
THEOREM OrderIsKept == Spec /\ []Asserted => []RobinHoodOrder
<1>1. TInv /\ OInv => RobinHoodOrder
  BY OrderLemma
<1> QED  BY <1>1, OrderInvariance, TInvariance, PTL

\* In every such run find() finds each key that is in the table, after any sequence of
\* displacements, resizes and backward shifts.
THEOREM KeysAreFound == Spec /\ []Asserted => []FindsEveryKey
<1>1. TInv /\ OInv => FindsEveryKey
  BY FindLemma DEF FindsEveryKey
<1> QED  BY <1>1, OrderInvariance, TInvariance, PTL

\* In every run in which the assertion of insert() holds, robin_map implements a map:
\* through displacements, resizes and backward shifts each operation changes what the map
\* holds once, for its own key, and nothing is lost, doubled or given another's value.
THEOREM RobinMapImplementsMap == Spec /\ []Asserted => IsKeyMap
<1>1. TInv /\ TInv' /\ OInv /\ OInv' /\ [Next]_vars => [Map!Next]_(Map!mapVars)
  BY NextM
<1> QED  BY <1>1, InitM, TInvariance, OrderInvariance, PTL DEF Spec, IsKeyMap, Map!Spec

\* In a small table the assertion holds: the load factor leaves no room for a longer run.
THEOREM AssertionHolds == ASSUME Small PROVE Spec => []Asserted
<1>1. TInv /\ TInv' /\ OInv /\ [Next]_vars => OInv'
  BY NextO, SmallAsserted
<1>2. TInv /\ OInv => Asserted
  BY SmallAsserted
<1> QED  BY <1>1, <1>2, InitO, TInvariance, PTL DEF Spec

\* So a small table keeps its order, finds every key and implements a map in every run.
THEOREM SmallTableIsMap ==
    ASSUME Small PROVE Spec => []RobinHoodOrder /\ []FindsEveryKey /\ IsKeyMap
BY AssertionHolds, OrderIsKept, KeysAreFound, RobinMapImplementsMap
=============================================================================
