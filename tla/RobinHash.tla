------------------------------ MODULE RobinHash ------------------------------
(***************************************************************************)
(* class robin_map (robin_hash.hpp): open addressing with robin-hood       *)
(* displacement on insert and backward shift on erase, over a table whose  *)
(* size is a power of two.  The hash of a key is the key.                  *)
(*                                                                         *)
(* insert() and erase() are modelled one round of their loops per step.    *)
(* _resize() inserts the old entries one by one into the new table before  *)
(* the insert that called it goes on: `queue' holds what is still to be    *)
(* inserted, in that order.  load_factor is the default 0.7f.              *)
(***************************************************************************)
EXTENDS Naturals, Sequences, FiniteSetsExt

CONSTANTS
    Keys,               \* keys in use
    EmptyKey,           \* empty_key, which marks a free slot (~0 in the code)
    Values,
    InitialCapacity,    \* what the constructor's rounding up yields
    DistanceMax,        \* largest value of the uint8_t distance (255)
    MaxCapacity         \* bound: size of the table

ASSUME KeysAssumption == Keys \subseteq Nat /\ EmptyKey \in Nat \ Keys
ASSUME CapacityAssumption == InitialCapacity \in Nat \ {0} /\ MaxCapacity \in Nat
ASSUME DistanceAssumption == DistanceMax \in Nat \ {0}

VARIABLES
    table,      \* slot -> [key, value, distance]
    count,
    pc,         \* idle; start, probe (insert); shift (erase)
    item,       \* locals key, value of insert(), as swapped so far
    pos,        \* local of insert() and erase()
    dist,       \* local of insert()
    queue       \* items still to be inserted

vars == <<table, count, pc, item, pos, dist, queue>>

\* The slot's key is empty_key; the value left in it is never read.
EmptyNode == [key |-> EmptyKey, value |-> "none", distance |-> 0]

NewTable(size) == [i \in 0 .. size - 1 |-> EmptyNode]
Capacity == Cardinality(DOMAIN table)

\* key & mask, where mask = table.size() - 1 and the size is a power of two.
Masked(x) == x % Capacity

IsEmpty(i) == table[i].key = EmptyKey
Live == {i \in DOMAIN table : ~IsEmpty(i)}

\* ++ on a uint8_t.
Increment(d) == (d + 1) % (DistanceMax + 1)

NoItem == [key |-> EmptyKey, value |-> "none"]

Init ==
    /\ table = NewTable(InitialCapacity) /\ count = 0
    /\ pc = "idle" /\ item = NoItem /\ pos = 0 /\ dist = 0 /\ queue = <<>>

-----------------------------------------------------------------------------
(* insert() and _resize(). *)

insert(k, v) ==
    /\ pc = "idle"
    /\ 10 * (count + 1) <= 7 * Capacity \/ 2 * Capacity <= MaxCapacity
    /\ queue' = <<[key |-> k, value |-> v]>>
    /\ pc' = "start"
    /\ UNCHANGED <<table, count, item, pos, dist>>

\* Mutant: the table may fill up.
NeverOverloaded == FALSE

\* (count + 1) > table.size() * load_factor
Overloaded == 10 * (count + 1) > 7 * Capacity

\* The elements of a finite set of numbers in rising order: the n-th has n of them up to it.
InOrder(S) ==
    [n \in 1 .. Cardinality(S) |-> CHOOSE i \in S : Cardinality({j \in S : j <= i}) = n]

Entries(slots) ==
    [n \in 1 .. Cardinality(slots) |->
        LET e == table[InOrder(slots)[n]] IN [key |-> e.key, value |-> e.value]]

\* Mutant: the first slot of the old table is skipped.
OldEntriesFromSecond == Entries(Live \ {0})

\* The entries of the table in slot order, as the loop of _resize visits them.
OldEntries == Entries(Live)

_resize ==
    /\ pc = "start" /\ Overloaded
    /\ table' = NewTable(2 * Capacity) /\ count' = 0
    /\ queue' = OldEntries \o queue
    /\ UNCHANGED <<pc, item, pos, dist>>

\* An item is taken up: its probing starts at its home slot.
StartItem ==
    /\ pc = "start" /\ ~Overloaded
    /\ item' = Head(queue) /\ queue' = Tail(queue)
    /\ pos' = Masked(item'.key) /\ dist' = 0
    /\ pc' = "probe"
    /\ UNCHANGED <<table, count>>

\* The insert of one item returns.
ItemDone == /\ pc' = IF queue = <<>> THEN "idle" ELSE "start"
            /\ item' = NoItem /\ pos' = 0 /\ dist' = 0

\* Mutant: the count is not kept when a slot is filled.
CountKept == count

CountAfterPlacing == count + 1

ProbeEmpty ==
    /\ pc = "probe" /\ IsEmpty(pos)
    /\ table' = [table EXCEPT ![pos] =
                    [key |-> item.key, value |-> item.value, distance |-> dist]]
    /\ count' = CountAfterPlacing
    /\ ItemDone
    /\ UNCHANGED queue

ProbeSame ==
    /\ pc = "probe" /\ table[pos].key = item.key
    /\ table' = [table EXCEPT ![pos].value = item.value]
    /\ ItemDone
    /\ UNCHANGED <<count, queue>>

\* Mutant: an item also displaces one that is equally far from home.
TakesFromEqual(d, e) == d <= e

\* Whether an item at distance e displaces an entry at distance d.
TakesSlot(d, e) == d < e

\* Another key sits in the slot; the richer of the two moves on.
ProbeNext ==
    /\ pc = "probe" /\ ~IsEmpty(pos) /\ table[pos].key # item.key
    /\ IF TakesSlot(table[pos].distance, dist)
       THEN /\ table' = [table EXCEPT ![pos] =
                            [key |-> item.key, value |-> item.value, distance |-> dist]]
            /\ item' = [key |-> table[pos].key, value |-> table[pos].value]
            /\ dist' = Increment(table[pos].distance)
       ELSE /\ dist' = Increment(dist)
            /\ UNCHANGED <<table, item>>
    /\ pos' = Masked(pos + 1)
    /\ UNCHANGED <<count, pc, queue>>

-----------------------------------------------------------------------------
(* find(): the slot of k, or NotFound.  The probing ends at an empty slot, at *)
(* the key, and at an entry nearer to its home than k would be.               *)
NotFound == Capacity

FindFrom(k) ==
    LET slot(i) == Masked(k + i)
        stops == {i \in 0 .. Capacity - 1 :
                     \/ IsEmpty(slot(i)) \/ table[slot(i)].key = k
                     \/ table[slot(i)].distance < i % (DistanceMax + 1)}
        first == CHOOSE i \in stops : \A j \in stops : i <= j
    IN  IF stops = {} THEN NotFound  \* the loop would go round again
        ELSE IF table[slot(first)].key = k THEN slot(first) ELSE NotFound

-----------------------------------------------------------------------------
(* erase(), whose search is that of find(), and clear(). *)

erase(k) ==
    /\ pc = "idle" /\ FindFrom(k) # NotFound
    /\ pos' = FindFrom(k) /\ pc' = "shift"
    /\ UNCHANGED <<table, count, item, dist, queue>>

\* Mutant: there is no shift.
ShiftsNothing(i) == FALSE

\* Whether the backward shift moves the entry of slot i.
Shifts(i) == ~IsEmpty(i) /\ table[i].distance > 0

ShiftBack ==
    /\ pc = "shift" /\ Shifts(Masked(pos + 1))
    /\ LET next == Masked(pos + 1)
       IN  /\ table' = [table EXCEPT ![pos] =
                            [table[next] EXCEPT !.distance = @ - 1]]
           /\ pos' = next
    /\ UNCHANGED <<count, pc, item, dist, queue>>

ShiftDone ==
    /\ pc = "shift" /\ ~Shifts(Masked(pos + 1))
    /\ table' = [table EXCEPT ![pos] = EmptyNode]
    /\ count' = count - 1
    /\ pc' = "idle" /\ pos' = 0
    /\ UNCHANGED <<item, dist, queue>>

clear ==
    /\ pc = "idle"
    /\ table' = NewTable(Capacity) /\ count' = 0
    /\ UNCHANGED <<pc, item, pos, dist, queue>>

Operation == \/ \E k \in Keys, v \in Values : insert(k, v)
             \/ \E k \in Keys : erase(k)
             \/ clear

Running == _resize \/ StartItem \/ ProbeEmpty \/ ProbeSame \/ ProbeNext
           \/ ShiftBack \/ ShiftDone

Next == Operation \/ Running

Spec == Init /\ [][Next]_vars

\* The loops of an operation run on by themselves.
FairSpec == Spec /\ WF_vars(Running)

-----------------------------------------------------------------------------
\* A slot is always free, so that every probing loop ends, also while a resize that the
\* load factor called for puts the old entries back (line 54).
RoomLeft == Live # DOMAIN table

\* Between operations each key is in one slot, as far from its home slot as its
\* distance says, and no entry could have been passed over by one that is poorer.
RobinHoodOrder ==
    pc = "idle" =>
        /\ \A i, j \in Live : table[i].key = table[j].key => i = j
        /\ \A i \in Live :
              /\ Masked(table[i].key + table[i].distance) = i
              /\ LET next == Masked(i + 1)
                 IN  ~IsEmpty(next) => table[next].distance <= table[i].distance + 1
        /\ \A i \in DOMAIN table \ Live :
              LET next == Masked(i + 1)
              IN  ~IsEmpty(next) => table[next].distance = 0
        /\ count = Cardinality(Live)

\* find() finds every key that is in the table: neither the displacements nor the
\* backward shifts leave a key behind an empty slot or behind a richer entry.
FindsEveryKey ==
    pc = "idle" => \A i \in Live : FindFrom(table[i].key) = i

\* robin_map implements a map, where an operation in progress counts as done: an
\* item is in the table, in the hands of insert(), or waiting in a resize, and the
\* slot that the backward shift is about to fill or free holds nothing.
InTable(k) == {i \in Live \ (IF pc = "shift" THEN {pos} ELSE {}) : table[i].key = k}
Waiting(k) == {i \in DOMAIN queue : queue[i].key = k}
InHands(k) == pc = "probe" /\ item.key = k

ValueOf(k) ==
    IF Waiting(k) # {} THEN queue[Max(Waiting(k))].value
    ELSE IF InHands(k) THEN item.value
    ELSE table[Max(InTable(k))].value

IsThere(k) == Waiting(k) # {} \/ InHands(k) \/ InTable(k) # {}
Contents == [k \in {j \in Keys : IsThere(j)} |-> ValueOf(k)]
Map == INSTANCE KeyMap WITH map <- Contents, busy <- pc # "idle"
IsKeyMap == Map!Spec

\* Every operation returns.
OperationsReturn == []<>(pc = "idle")
=============================================================================
