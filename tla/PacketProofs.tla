---------------------------- MODULE PacketProofs ----------------------------
(***************************************************************************)
(* Theorems about packets, Packet, and about the two components that       *)
(* encrypt them, PacketChannel and Handshake, for every value of their     *)
(* constants.                                                              *)
(***************************************************************************)
EXTENDS Packet, PacketChannel, Handshake, Joining

-----------------------------------------------------------------------------
(* Cells in the data. *)

\* The cells s stand behind offset a.
At(a, s) == a + Len(s) <= Len(_data) /\ \A i \in 1 .. Len(s) : _data[a + i] = s[i]

LEMMA AtJoin ==
    ASSUME _data \in Seq(Nat), NEW a \in Nat, NEW s \in Seq(Nat), NEW t \in Seq(Nat), At(a, s \o t)
    PROVE  At(a, s) /\ At(a + Len(s), t)
<1>1. /\ Len(s) \in Nat /\ Len(t) \in Nat /\ Len(_data) \in Nat
      /\ Len(s \o t) = Len(s) + Len(t)
      /\ \A i \in 1 .. Len(s) : (s \o t)[i] = s[i]
      /\ \A i \in 1 .. Len(t) : (s \o t)[Len(s) + i] = t[i]
  BY Concatenated
<1>2. At(a, s)
  <2>1. a + (Len(s) + Len(t)) <= Len(_data) /\ \A i \in 1 .. Len(s \o t) : _data[a + i] = (s \o t)[i]
    BY <1>1 DEF At
  <2>2. a + Len(s) <= Len(_data)
    BY ONLY <1>1, <2>1, a \in Nat
  <2>3. ASSUME NEW i \in 1 .. Len(s) PROVE _data[a + i] = s[i]
    <3>1. i \in 1 .. Len(s \o t)
      BY ONLY <1>1, i \in 1 .. Len(s)
    <3> QED  BY ONLY <1>1, <2>1, <3>1, i \in 1 .. Len(s)
  <2> QED  BY ONLY <2>2, <2>3 DEF At
<1>3. ASSUME NEW i \in 1 .. Len(t)
      PROVE  _data[(a + Len(s)) + i] = t[i]
  <2>1. Len(s) + i \in 1 .. Len(s \o t) /\ a + (Len(s) + i) = (a + Len(s)) + i
    BY <1>1
  <2>2. _data[a + (Len(s) + i)] = (s \o t)[Len(s) + i]
    BY <2>1 DEF At
  <2> QED  BY <1>1, <2>1, <2>2
<1>4. (a + Len(s)) + Len(t) <= Len(_data)
  BY <1>1 DEF At
<1> QED  BY <1>2, <1>3, <1>4 DEF At

\* Where the parts of a joined sequence stand.
LEMMA JoinedAt ==
    ASSUME _data \in Seq(Nat), NEW a \in Nat, NEW ss \in Seq(Seq(Nat)), At(a, FlattenSeq(ss))
    PROVE  \E o \in [0 .. Len(ss) -> Nat] :
               /\ o[0] = 0 /\ o[Len(ss)] = Len(FlattenSeq(ss))
               /\ \A i \in 1 .. Len(ss) : o[i] = o[i - 1] + Len(ss[i]) /\ At(a + o[i - 1], ss[i])
<1> DEFINE n == Len(ss)
           F == FlattenSeq(ss)
<1>1. n \in Nat /\ F \in Seq(Nat) /\ Len(F) \in Nat /\ Len(_data) \in Nat
      /\ \A i \in 1 .. n : Len(ss[i]) \in Nat
  <2>1. F \in Seq(Nat)
    BY JoinType
  <2>2. n \in Nat /\ Len(_data) \in Nat /\ \A i \in 1 .. n : Len(ss[i]) \in Nat
    OBVIOUS
  <2>3. Len(F) \in Nat
    <3> HIDE DEF F
    <3> QED  BY <2>1
  <2> QED  BY <2>1, <2>2, <2>3
<1>2. PICK o \in [0 .. n -> Nat] : PartsAt(ss, o)
  BY JoinedParts, Zenon
<1> HIDE DEF n, F
<1>3. ASSUME NEW i \in 1 .. n
      PROVE  At(a + o[i - 1], ss[i])
  <2>1. i - 1 \in 0 .. n /\ o[i - 1] \in Nat /\ Len(ss[i]) \in Nat
    BY <1>1
  <2>2. /\ o[i] = o[i - 1] + Len(ss[i]) /\ o[i] <= Len(F)
        /\ \A j \in 1 .. Len(ss[i]) : F[o[i - 1] + j] = ss[i][j]
    BY <1>2 DEF PartsAt, n, F
  <2>3. a + Len(F) <= Len(_data) /\ \A j \in 1 .. Len(F) : _data[a + j] = F[j]
    BY DEF At, F
  <2>4. PICK p \in Nat, q \in Nat, m \in Nat, l \in Nat :
            /\ p = o[i - 1] /\ q = Len(ss[i]) /\ m = Len(F) /\ l = Len(_data)
            /\ p + q <= m /\ a + m <= l
    BY <1>1, <2>1, <2>2, <2>3
  <2>7. p + q <= m /\ a + m <= l /\ a \in Nat /\ p \in Nat /\ q \in Nat /\ m \in Nat /\ l \in Nat
    BY ONLY <2>4, a \in Nat
  <2>5. ASSUME NEW j \in 1 .. q
        PROVE  _data[(a + p) + j] = ss[i][j]
    <3>1. p + j \in 1 .. m /\ (a + p) + j = a + (p + j)
      BY ONLY <2>7, j \in 1 .. q
    <3>2. _data[a + (p + j)] = F[p + j] /\ F[p + j] = ss[i][j]
      BY ONLY <2>2, <2>3, <2>4, <3>1, j \in 1 .. q
    <3> QED  BY ONLY <3>1, <3>2
  <2>6. (a + p) + q <= l
    BY ONLY <2>7
  <2> QED  BY ONLY <2>4, <2>5, <2>6 DEF At
<1>4. /\ o[0] = 0 /\ o[n] = Len(F)
      /\ \A i \in 1 .. n : o[i] = o[i - 1] + Len(ss[i])
  BY <1>2 DEF PartsAt, n, F
<1> QED  BY <1>2, <1>3, <1>4 DEF n, F

\* The length of a joined sequence bounds the number of its parts, none of them empty,
\* and the length of each.
LEMMA PartsFit ==
    ASSUME NEW n \in Nat, NEW o \in [0 .. n -> Nat], o[0] = 0,
           NEW w \in [1 .. n -> Nat \ {0}], \A i \in 1 .. n : o[i] = o[i - 1] + w[i]
    PROVE  n <= o[n] /\ \A i \in 1 .. n : w[i] <= o[n]
<1> DEFINE S == {i \in 0 .. n : i <= o[i] /\ \A j \in 1 .. i : w[j] <= o[i]}
<1>1. 0 \in S
  OBVIOUS
<1>2. ASSUME NEW i \in 1 .. n, i - 1 \in S
      PROVE  i \in S
  <2>1. PICK p \in Nat, x \in Nat \ {0} : p = o[i - 1] /\ x = w[i] /\ o[i] = p + x /\ i - 1 <= p
    BY <1>2
  <2>2. i \in 0 .. n /\ i <= p + x
    <3>1. i - 1 <= p /\ i \in 1 .. n
      BY <2>1
    <3> QED  BY ONLY <3>1, n \in Nat, p \in Nat, x \in Nat \ {0}
  <2>3. ASSUME NEW j \in 1 .. i
        PROVE  w[j] <= p + x
    <3>1. CASE j = i
      BY ONLY <2>1, <3>1
    <3>2. CASE j # i
      <4>1. j \in 1 .. i - 1 /\ j \in 1 .. n
        BY <3>2
      <4>2. PICK y \in Nat : y = w[j]
        BY <4>1
      <4>3. y <= p
        BY <1>2, <2>1, <4>1, <4>2
      <4>4. y <= p + x
        BY ONLY <4>3, y \in Nat, p \in Nat, x \in Nat \ {0}
      <4> QED  BY ONLY <4>2, <4>4
    <3> QED  BY <3>1, <3>2
  <2> QED  BY ONLY <2>1, <2>2, <2>3
<1>3. 0 .. n \subseteq S
  <2> HIDE DEF S
  <2> QED  BY <1>1, <1>2, Induction
<1>4. n \in S
  <2> HIDE DEF S
  <2>1. n \in 0 .. n
    OBVIOUS
  <2> QED  BY ONLY <1>3, <2>1
<1> QED  BY ONLY <1>4

-----------------------------------------------------------------------------
(* Reading what was written. *)

Values  == Nat \cup Seq(Nat)
Readers == [offset : Nat, valid : BOOLEAN, under : BOOLEAN, value : Values]

\* The reader r after it read v from k cells.
After(r, k, v) == [offset |-> r.offset + k, valid |-> TRUE, under |-> r.under, value |-> v]

LEMMA DivMod ==
    ASSUME NEW x \in Nat, NEW c \in Nat \ {0}
    PROVE  x % c \in 0 .. c - 1 /\ x \div c \in Nat /\ x = c * (x \div c) + (x % c)
OBVIOUS

LEMMA ModSmall ==
    ASSUME NEW c \in Nat \ {0}, NEW q \in 0 .. c - 1
    PROVE  q % c = q
OBVIOUS

LEMMA DivSmall ==
    ASSUME NEW c \in Nat \ {0}, NEW x \in 0 .. c * c - 1
    PROVE  x \div c \in 0 .. c - 1
<1>1. x \in Nat /\ x < c * c /\ c \in Nat
  OBVIOUS
<1>2. PICK q \in Nat : q = x \div c /\ c * q <= x
  BY <1>1, DivMod
<1>3. ASSUME q >= c PROVE FALSE
  <2>1. c * q >= c * c
    BY <1>1, <1>2, <1>3
  <2> QED  BY <1>1, <1>2, <2>1
<1> QED  BY <1>1, <1>2, <1>3

\* The two cells of a number are the number, as long as it fits.
LEMMA WordCellsAre ==
    ASSUME NEW n \in Nat
    PROVE  /\ WordCells(n) \in Seq(Nat) /\ Len(WordCells(n)) = 2
           /\ n \in WordValues => WordCells(n)[1] + Radix * WordCells(n)[2] = n
<1>1. Radix \in Nat \ {0}
  BY RadixAssumption
<1>2. n % Radix \in Nat /\ n \div Radix \in Nat /\ (n \div Radix) % Radix \in Nat
  BY <1>1, DivMod
<1>3. WordCells(n) \in Seq(Nat) /\ Len(WordCells(n)) = 2
  BY <1>2 DEF WordCells
<1>4. ASSUME n \in WordValues
      PROVE  WordCells(n)[1] + Radix * WordCells(n)[2] = n
  <2>1. (n \div Radix) % Radix = n \div Radix
    <3>1. n \div Radix \in 0 .. Radix - 1
      BY <1>1, <1>4, DivSmall DEF WordValues
    <3> QED  BY <1>1, <3>1, ModSmall
  <2>2. WordCells(n)[1] = n % Radix /\ WordCells(n)[2] = n \div Radix
    BY <2>1 DEF WordCells
  <2>3. n = Radix * (n \div Radix) + (n % Radix)
    BY <1>1, DivMod
  <2>4. \A p, q, m \in Nat : m = p + q => q + p = m
    OBVIOUS
  <2>5. Radix * (n \div Radix) \in Nat
    BY <1>1, <1>2
  <2> QED  BY <1>2, <2>2, <2>3, <2>4, <2>5
<1> QED  BY <1>3, <1>4

\* Reading a number keeps the reader's type, whatever stands there.
LEMMA ReadWordType ==
    ASSUME _data \in Seq(Nat), NEW r \in Readers
    PROVE  /\ ReadWord(r) \in Readers /\ ReadWord(r).value \in Nat
           /\ ReadWord(r).offset \in {r.offset, r.offset + 2}
<1>1. r.offset \in Nat /\ Radix \in Nat /\ Len(_data) \in Nat
  BY RadixAssumption DEF Readers
<1>2. CASE CanRead(r.offset, 2)
  <2>1. r.offset + 1 \in 1 .. Len(_data) /\ r.offset + 2 \in 1 .. Len(_data)
    <3>1. \A x, l \in Nat : x + 2 <= l => x + 1 \in 1 .. l /\ x + 2 \in 1 .. l
      OBVIOUS
    <3> QED  BY ONLY <1>1, <1>2, <3>1 DEF CanRead
  <2>2. PICK x \in Nat, y \in Nat : x = _data[r.offset + 1] /\ y = _data[r.offset + 2]
    <3>1. \A i \in 1 .. Len(_data) : _data[i] \in Nat
      OBVIOUS
    <3> QED  BY ONLY <2>1, <3>1
  <2>3. Radix * y \in Nat
    BY ONLY <1>1, y \in Nat
  <2>4. _data[r.offset + 1] + Radix * _data[r.offset + 2] \in Nat
    <3>1. x + Radix * y \in Nat
      BY ONLY <2>3, x \in Nat
    <3> QED  BY ONLY <2>2, <3>1
  <2> HIDE DEF CanRead
  <2>5. ReadWord(r) = [r EXCEPT !.offset = @ + 2, !.valid = TRUE,
                                !.value = _data[r.offset + 1] + Radix * _data[r.offset + 2]]
    BY <1>2 DEF ReadWord
  <2>6. PICK v \in Nat : v = _data[r.offset + 1] + Radix * _data[r.offset + 2]
    BY <2>4
  <2>7. ReadWord(r) = After(r, 2, v)
    BY <2>5, <2>6 DEF After, Readers
  <2> QED  BY <1>1, <2>7 DEF After, Readers, Values
<1>3. CASE ~CanRead(r.offset, 2)
  BY <1>1, <1>3 DEF ReadWord, Underflow, Readers, Values
<1> QED  BY <1>2, <1>3

LEMMA ReadWordAt ==
    ASSUME _data \in Seq(Nat), NEW r \in Readers, NEW n \in WordValues, At(r.offset, WordCells(n))
    PROVE  ReadWord(r) = After(r, 2, n)
<1>0. n \in Nat /\ r.offset \in Nat /\ Len(_data) \in Nat
  BY RadixAssumption DEF WordValues, Readers
<1>1. Len(WordCells(n)) = 2 /\ WordCells(n)[1] + Radix * WordCells(n)[2] = n
  BY <1>0, WordCellsAre
<1>2. CanRead(r.offset, 2)
  BY <1>1 DEF At, CanRead
<1>3. _data[r.offset + 1] = WordCells(n)[1] /\ _data[r.offset + 2] = WordCells(n)[2]
  BY <1>1 DEF At
<1>4. _data[r.offset + 1] + Radix * _data[r.offset + 2] = n
  BY <1>1, <1>3
<1>5. ReadWord(r) = [r EXCEPT !.offset = @ + 2, !.valid = TRUE, !.value = n]
  BY <1>2, <1>4 DEF ReadWord
<1> QED  BY <1>5 DEF After, Readers

\* The cells of a string are its length and its characters.
LEMMA TextCellsAre ==
    ASSUME NEW s \in Seq(Nat)
    PROVE  TextCells(s) \in Seq(Nat) /\ Len(TextCells(s)) = 2 + Len(s)
<1>1. Len(s) \in Nat /\ WordCells(Len(s)) \in Seq(Nat) /\ Len(WordCells(Len(s))) = 2
  BY WordCellsAre
<1>2. \A w, t \in Seq(Nat) : w \o t \in Seq(Nat) /\ Len(w \o t) = Len(w) + Len(t)
  OBVIOUS
<1> QED  BY <1>1, <1>2 DEF TextCells

\* Characters read back where they stand.
LEMMA SubSeqAt ==
    ASSUME _data \in Seq(Nat), NEW a \in Nat, NEW s \in Seq(Nat), At(a, s)
    PROVE  SubSeq(_data, a + 1, a + Len(s)) = s
<1>1. Len(s) \in Nat /\ Len(_data) \in Nat /\ a + Len(s) <= Len(_data)
  BY DEF At
<1>2. \A i \in 1 .. Len(s) : _data[a + i] = s[i]
  BY DEF At
<1>3. SubSeq(_data, a + 1, a + Len(s)) = [i \in 1 .. Len(s) |-> _data[a + i]]
  BY <1>1
<1>4. [i \in 1 .. Len(s) |-> _data[a + i]] = [i \in 1 .. Len(s) |-> s[i]]
  BY <1>2
<1>5. s = [i \in 1 .. Len(s) |-> s[i]]
  OBVIOUS
<1> QED  BY <1>3, <1>4, <1>5

LEMMA ReadTextAt ==
    ASSUME _data \in Seq(Nat), NEW r \in Readers, NEW s \in Seq(Nat), Len(s) \in WordValues,
           At(r.offset, TextCells(s))
    PROVE  ReadText(r) = After(r, 2 + Len(s), s)
<1>1. /\ Len(s) \in Nat /\ WordCells(Len(s)) \in Seq(Nat) /\ Len(WordCells(Len(s))) = 2
      /\ r.offset \in Nat
  BY WordCellsAre DEF Readers
<1>2. At(r.offset, WordCells(Len(s))) /\ At(r.offset + 2, s)
  BY <1>1, AtJoin DEF TextCells
<1>3. ReadWord(r) = After(r, 2, Len(s))
  BY <1>2, ReadWordAt
<1>4. CanRead(r.offset + 2, Len(s))
  BY <1>2 DEF At, CanRead
<1>5. SubSeq(_data, (r.offset + 2) + 1, (r.offset + 2) + Len(s)) = s
  <2>1. r.offset + 2 \in Nat
    BY <1>1
  <2> QED  BY <1>2, <2>1, SubSeqAt
<1>6. ReadText(r) = [After(r, 2, Len(s)) EXCEPT !.offset = PastText(@, Len(s)), !.value = s]
  <2>1. ReadWord(r).offset = r.offset + 2 /\ ReadWord(r).value = Len(s)
    BY <1>3 DEF After
  <2> HIDE DEF CanRead, PastText
  <2> QED  BY <1>3, <1>4, <1>5, <2>1 DEF ReadText
<1>7. (r.offset + 2) + Len(s) = r.offset + (2 + Len(s))
  <2>1. \A a, n \in Nat : (a + 2) + n = a + (2 + n)
    OBVIOUS
  <2> QED  BY <1>1, <2>1
<1> QED  BY <1>6, <1>7 DEF After, PastText

\* The elements ss of a vector stand behind offset a, the i-th behind o[i - 1] cells.
Places(a, ss, o) ==
    /\ o \in [0 .. Len(ss) -> Nat] /\ o[0] = 0 /\ o[Len(ss)] = Len(FlattenSeq(ss))
    /\ a + o[Len(ss)] <= Len(_data) /\ Len(ss) <= o[Len(ss)]
    /\ \A i \in 1 .. Len(ss) :
           /\ o[i] = o[i - 1] + Len(ss[i]) /\ At(a + o[i - 1], ss[i])
           /\ Len(ss[i]) <= o[Len(ss)]

LEMMA CountedAt ==
    ASSUME _data \in Seq(Nat), NEW a \in Nat, NEW ss \in Seq(Seq(Nat)),
           \A i \in 1 .. Len(ss) : Len(ss[i]) > 0,
           At(a, WordCells(Len(ss)) \o FlattenSeq(ss))
    PROVE  /\ At(a, WordCells(Len(ss))) /\ FlattenSeq(ss) \in Seq(Nat)
           /\ \E o : Places(a + 2, ss, o)
<1>1. /\ Len(ss) \in Nat /\ WordCells(Len(ss)) \in Seq(Nat) /\ Len(WordCells(Len(ss))) = 2
      /\ \A i \in 1 .. Len(ss) : Len(ss[i]) \in Nat \ {0}
  <2>1. Len(ss) \in Nat /\ \A i \in 1 .. Len(ss) : Len(ss[i]) \in Nat
    OBVIOUS
  <2> QED  BY <2>1, WordCellsAre
<1>2. FlattenSeq(ss) \in Seq(Nat)
  BY JoinType
<1>3. At(a, WordCells(Len(ss))) /\ At(a + 2, FlattenSeq(ss))
  BY <1>1, <1>2, AtJoin
<1>4. a + 2 \in Nat
  OBVIOUS
<1>5. PICK o \in [0 .. Len(ss) -> Nat] :
          /\ o[0] = 0 /\ o[Len(ss)] = Len(FlattenSeq(ss))
          /\ \A i \in 1 .. Len(ss) :
                 o[i] = o[i - 1] + Len(ss[i]) /\ At((a + 2) + o[i - 1], ss[i])
  BY <1>3, <1>4, JoinedAt
<1>6. Len(ss) <= o[Len(ss)] /\ \A i \in 1 .. Len(ss) : Len(ss[i]) <= o[Len(ss)]
  <2> DEFINE w == [i \in 1 .. Len(ss) |-> Len(ss[i])]
  <2>1. w \in [1 .. Len(ss) -> Nat \ {0}] /\ \A i \in 1 .. Len(ss) : w[i] = Len(ss[i])
    BY <1>1
  <2> HIDE DEF w
  <2>2. \A i \in 1 .. Len(ss) : o[i] = o[i - 1] + w[i]
    BY <1>5, <2>1
  <2>3. Len(ss) <= o[Len(ss)] /\ \A i \in 1 .. Len(ss) : w[i] <= o[Len(ss)]
    BY <1>1, <1>5, <2>1, <2>2, PartsFit
  <2> QED  BY <2>1, <2>3
<1>7. (a + 2) + o[Len(ss)] <= Len(_data)
  BY <1>3, <1>5 DEF At
<1>8. Places(a + 2, ss, o)
  BY <1>5, <1>6, <1>7 DEF Places
<1> QED  BY <1>2, <1>3, <1>8

\* The readers e of the loop that reads the values s of a vector, whose cells are ss.
Path(e, r, ss, s) ==
    /\ e = [i \in 0 .. Len(ss) |-> e[i]] /\ e[0] = After(r, 2, Len(ss))
    /\ \A i \in 1 .. Len(ss) :
           /\ e[i - 1] \in Readers /\ At(e[i - 1].offset, ss[i])
           /\ e[i] = After(e[i - 1], Len(ss[i]), s[i])
    /\ \E v : e[Len(ss)] = After(r, 2 + Len(FlattenSeq(ss)), v)

LEMMA VectorAt ==
    ASSUME _data \in Seq(Nat), Len(_data) \in WordValues, NEW r \in Readers,
           NEW ss \in Seq(Seq(Nat)), \A i \in 1 .. Len(ss) : Len(ss[i]) > 0,
           NEW s, \A i \in 1 .. Len(ss) : s[i] \in Values,
           At(r.offset, WordCells(Len(ss)) \o FlattenSeq(ss))
    PROVE  /\ ReadWord(r) = After(r, 2, Len(ss)) /\ CanRead(r.offset + 2, Len(ss))
           /\ Len(WordCells(Len(ss)) \o FlattenSeq(ss)) = 2 + Len(FlattenSeq(ss))
           /\ \A i \in 1 .. Len(ss) : Len(ss[i]) \in WordValues
           /\ \E e : Path(e, r, ss, s)
<1>0. PICK n \in Nat, a \in Nat : n = Len(ss) /\ r.offset \in Nat /\ a = r.offset + 2
  BY DEF Readers
<1>1. At(r.offset, WordCells(n)) /\ FlattenSeq(ss) \in Seq(Nat) /\ \E o : Places(a, ss, o)
  <2>1. At(r.offset, WordCells(Len(ss))) /\ FlattenSeq(ss) \in Seq(Nat)
        /\ \E o : Places(r.offset + 2, ss, o)
    BY <1>0, CountedAt
  <2> QED  BY <1>0, <2>1
<1>2. PICK o \in [0 .. n -> Nat] :
          /\ o[0] = 0 /\ o[n] = Len(FlattenSeq(ss)) /\ a + o[n] <= Len(_data) /\ n <= o[n]
          /\ \A i \in 1 .. n : /\ o[i] = o[i - 1] + Len(ss[i]) /\ At(a + o[i - 1], ss[i])
                               /\ Len(ss[i]) <= o[n]
  BY <1>0, <1>1 DEF Places
<1>3. \A m \in Nat : m <= o[n] => m \in WordValues
  <2>1. o[n] \in Nat /\ Len(_data) \in Nat /\ Radix * Radix \in Nat /\ Len(_data) <= Radix * Radix - 1
    BY <1>2, RadixAssumption DEF WordValues
  <2>2. o[n] <= Radix * Radix - 1
    <3>1. PICK x \in Nat, l \in Nat, w \in Nat : x = o[n] /\ l = Len(_data) /\ w = Radix * Radix
      BY <2>1
    <3>2. a + x <= l /\ l <= w - 1
      BY ONLY <1>2, <2>1, <3>1
    <3>3. x <= w - 1
      BY ONLY <3>2, a \in Nat, x \in Nat, l \in Nat, w \in Nat
    <3> QED  BY ONLY <3>1, <3>3
  <2> QED  BY <2>1, <2>2 DEF WordValues
<1>4. n \in WordValues /\ \A i \in 1 .. n : Len(ss[i]) \in Nat /\ Len(ss[i]) \in WordValues
  <2>1. \A i \in 1 .. n : Len(ss[i]) \in Nat
    BY <1>0
  <2> QED  BY <1>2, <1>3, <2>1
<1>5. ReadWord(r) = After(r, 2, n)
  BY <1>0, <1>1, <1>4, ReadWordAt
<1>6. CanRead(a, n)
  BY <1>2 DEF CanRead
<1>7. Len(WordCells(n) \o FlattenSeq(ss)) = 2 + o[n] /\ a + o[n] = r.offset + (2 + o[n])
  <2>1. WordCells(n) \in Seq(Nat) /\ Len(WordCells(n)) = 2 /\ o[n] \in Nat
    BY <1>2, WordCellsAre
  <2>2. FlattenSeq(ss) \in Seq(Nat) /\ Len(FlattenSeq(ss)) = o[n]
    BY <1>1, <1>2
  <2>3. \A p, m \in Nat : (p + 2) + m = p + (2 + m)
    OBVIOUS
  <2>4. Len(WordCells(n) \o FlattenSeq(ss)) = 2 + o[n]
    <3>1. Len(WordCells(n) \o FlattenSeq(ss)) = Len(WordCells(n)) + Len(FlattenSeq(ss))
      BY ONLY <2>1, <2>2, ConcatProperties
    <3> QED  BY ONLY <2>1, <2>2, <3>1
  <2>5. a + o[n] = r.offset + (2 + o[n])
    BY <1>0, <2>1, <2>3
  <2> QED  BY <2>4, <2>5
<1> DEFINE ends(k, v) == [offset |-> a + k, valid |-> TRUE, under |-> r.under, value |-> v]
           e == [i \in 0 .. n |-> ends(o[i], IF i = 0 THEN n ELSE s[i])]
<1>8. \A i \in 0 .. n : e[i] = ends(o[i], IF i = 0 THEN n ELSE s[i])
  OBVIOUS
<1>9. 0 \in 0 .. n /\ n \in 0 .. n /\ \A i \in 1 .. n : i \in 0 .. n /\ i - 1 \in 0 .. n /\ i # 0
  OBVIOUS
<1>10. e = [i \in 0 .. n |-> e[i]]
  OBVIOUS
<1> HIDE DEF e
<1>11. e[0] = After(r, 2, n)
  <2>1. r.offset + 2 = a + 0
    BY <1>0
  <2> QED  BY <1>2, <1>8, <1>9, <2>1 DEF After
<1>12. ASSUME NEW i \in 1 .. n
       PROVE  /\ e[i - 1] \in Readers /\ At(e[i - 1].offset, ss[i])
              /\ e[i] = After(e[i - 1], Len(ss[i]), s[i])
  <2>1. PICK b \in Nat : b = a + o[i - 1]
    <3>1. o[i - 1] \in Nat
      BY <1>2, <1>9
    <3> QED  BY ONLY <3>1, a \in Nat
  <2>2. PICK v \in Values : v = IF i - 1 = 0 THEN n ELSE s[i - 1]
    <3>1. CASE i - 1 = 0
      BY <3>1 DEF Values
    <3>2. CASE i - 1 # 0
      <4>1. i - 1 \in 1 .. n
        BY <3>2
      <4>2. s[i - 1] \in Values
        BY <1>0, <4>1
      <4> QED  BY <3>2, <4>2
    <3> QED  BY <3>1, <3>2
  <2>3. e[i - 1] = [offset |-> b, valid |-> TRUE, under |-> r.under, value |-> v]
    BY <1>8, <1>9, <2>1, <2>2
  <2>4. e[i - 1] \in Readers /\ e[i - 1].offset = b /\ e[i - 1].under = r.under
    BY <2>3 DEF Readers
  <2>5. At(b, ss[i])
    BY <1>2, <2>1
  <2>6. b + Len(ss[i]) = a + o[i]
    <3>1. o[i] = o[i - 1] + Len(ss[i]) /\ o[i - 1] \in Nat /\ Len(ss[i]) \in Nat
      BY <1>2, <1>4, <1>9
    <3>2. PICK x \in Nat, y \in Nat : x = o[i - 1] /\ y = Len(ss[i]) /\ o[i] = x + y /\ b = a + x
      BY ONLY <2>1, <3>1
    <3>3. (a + x) + y = a + (x + y)
      BY ONLY a \in Nat, x \in Nat, y \in Nat
    <3> QED  BY ONLY <3>2, <3>3
  <2>7. After(e[i - 1], Len(ss[i]), s[i]) = ends(o[i], s[i])
    BY <2>4, <2>6 DEF After
  <2>8. e[i] = ends(o[i], s[i])
    BY <1>8, <1>9
  <2> QED  BY <2>4, <2>5, <2>7, <2>8
<1>13. \E v : e[n] = After(r, 2 + o[n], v)
  <2>1. e[n] = ends(o[n], IF n = 0 THEN n ELSE s[n])
    BY <1>8, <1>9
  <2>2. ends(o[n], IF n = 0 THEN n ELSE s[n]) = After(r, 2 + o[n], IF n = 0 THEN n ELSE s[n])
    BY <1>7 DEF After
  <2> QED  BY <2>1, <2>2
<1> HIDE DEF ends
<1>14. Path(e, r, ss, s)
  BY <1>0, <1>2, <1>10, <1>11, <1>12, <1>13 DEF Path
<1> QED  BY <1>0, <1>2, <1>4, <1>5, <1>6, <1>7, <1>14

\* What was read on the way.
ValuesOf(e, n) == [i \in 1 .. n |-> e[i].value]

LEMMA PathValues ==
    ASSUME NEW r, NEW ss \in Seq(Seq(Nat)), NEW s \in Seq(Values), Len(s) = Len(ss),
           NEW e, Path(e, r, ss, s)
    PROVE  ValuesOf(e, Len(ss)) = s
<1>1. ASSUME NEW i \in 1 .. Len(ss) PROVE e[i].value = s[i]
  <2>1. e[i] = After(e[i - 1], Len(ss[i]), s[i])
    BY DEF Path
  <2> QED  BY <2>1 DEF After
<1>2. s = [i \in 1 .. Len(ss) |-> s[i]]
  OBVIOUS
<1> QED  BY <1>1, <1>2 DEF ValuesOf

WordParts(s) == [i \in 1 .. Len(s) |-> WordCells(s[i])]
TextParts(s) == [i \in 1 .. Len(s) |-> TextCells(s[i])]

LEMMA ReadWordsAt ==
    ASSUME _data \in Seq(Nat), Len(_data) \in WordValues, NEW r \in Readers,
           NEW s \in Seq(WordValues), At(r.offset, Counted(s, WordCells))
    PROVE  ReadCounted(r, ReadWord) = After(r, Len(Counted(s, WordCells)), s)
<1>1. PICK n \in Nat : n = Len(s)
  OBVIOUS
<1>2. \A i \in 1 .. n : s[i] \in WordValues /\ s[i] \in Nat /\ s[i] \in Values
  BY <1>1, RadixAssumption DEF WordValues, Values
<1>3. PICK ss \in Seq(Seq(Nat)) : ss = WordParts(s)
  <2>1. \A i \in 1 .. n : WordCells(s[i]) \in Seq(Nat)
    BY <1>2, WordCellsAre
  <2>2. [i \in 1 .. n |-> WordCells(s[i])] \in Seq(Seq(Nat))
    BY <2>1
  <2> QED  BY <1>1, <2>2 DEF WordParts
<1>4. Len(ss) = n /\ \A i \in 1 .. n : ss[i] = WordCells(s[i])
  BY <1>1, <1>3 DEF WordParts
<1>5. \A i \in 1 .. n : Len(ss[i]) = 2
  BY <1>2, <1>4, WordCellsAre
<1>6. Counted(s, WordCells) = WordCells(n) \o FlattenSeq(ss)
  BY <1>1, <1>3 DEF Counted, WordParts
<1>7. /\ ReadWord(r) = After(r, 2, n) /\ CanRead(r.offset + 2, n)
      /\ Len(Counted(s, WordCells)) = 2 + Len(FlattenSeq(ss)) /\ \E e : Path(e, r, ss, s)
  <2>1. \A i \in 1 .. Len(ss) : Len(ss[i]) > 0
    <3>1. 2 > 0
      OBVIOUS
    <3> QED  BY ONLY <1>4, <1>5, <3>1
  <2>2. At(r.offset, WordCells(Len(ss)) \o FlattenSeq(ss)) /\ \A i \in 1 .. Len(ss) : s[i] \in Values
    BY <1>2, <1>4, <1>6
  <2> QED  BY <1>4, <1>6, <2>1, <2>2, VectorAt
<1>8. PICK e : Path(e, r, ss, s)
  BY <1>7
<1>9. ReadWord(r).offset = r.offset + 2 /\ ReadWord(r).value = n
  BY <1>7 DEF After
<1>10. \A i \in 1 .. n : ReadWord(e[i - 1]) = e[i]
  <2>1. \A i \in 1 .. n : /\ e[i - 1] \in Readers /\ At(e[i - 1].offset, WordCells(s[i]))
                          /\ e[i] = After(e[i - 1], 2, s[i])
    BY <1>4, <1>5, <1>8 DEF Path
  <2> QED  BY <1>2, <2>1, ReadWordAt
<1> DEFINE Loop(g) == [i \in 0 .. ReadWord(r).value |->
                          IF i = 0 THEN ReadWord(r) ELSE ReadWord(g[i - 1])]
           c == CHOOSE g : g = Loop(g)
<1>11. e = Loop(e)
  <2>1. e = [i \in 0 .. n |-> e[i]] /\ e[0] = ReadWord(r)
    BY <1>4, <1>7, <1>8 DEF Path
  <2>2. \A i \in 0 .. n : e[i] = IF i = 0 THEN ReadWord(r) ELSE ReadWord(e[i - 1])
    <3>1. \A i \in 0 .. n : i = 0 \/ i \in 1 .. n
      OBVIOUS
    <3> QED  BY <1>10, <2>1, <3>1
  <2> QED  BY <1>9, <2>1, <2>2
<1>12. c = Loop(c)
  <2> HIDE DEF Loop
  <2> QED  BY <1>11
<1> HIDE DEF c
<1>13. \A i \in 0 .. n : c[i] = e[i]
  <2>1. \A i \in 0 .. n : c[i] = IF i = 0 THEN ReadWord(r) ELSE ReadWord(c[i - 1])
    BY <1>9, <1>12
  <2>2. \A i \in 0 .. n : e[i] = IF i = 0 THEN ReadWord(r) ELSE ReadWord(e[i - 1])
    BY <1>9, <1>11
  <2> DEFINE S == {i \in 0 .. n : c[i] = e[i]}
  <2>3. 0 \in S /\ \A i \in 1 .. n : i - 1 \in S => i \in S
    BY <2>1, <2>2
  <2>4. 0 .. n \subseteq S
    <3> HIDE DEF S
    <3> QED  BY <2>3, Induction
  <2> QED  BY <2>4
<1>14. ReadCounted(r, ReadWord) = [c[ReadWord(r).value] EXCEPT
                                      !.value = [i \in 1 .. ReadWord(r).value |-> c[i].value]]
  <2>1. CanRead(ReadWord(r).offset, ReadWord(r).value)
    BY <1>7, <1>9
  <2> USE DEF c
  <2> QED  BY <2>1 DEF ReadCounted
<1>15. s \in Seq(Values) /\ Len(s) = Len(ss)
  BY <1>1, <1>2, <1>4
<1>16. [i \in 1 .. n |-> c[i].value] = s
  <2>1. ValuesOf(e, n) = s
    BY <1>3, <1>4, <1>8, <1>15, PathValues
  <2>2. \A i \in 1 .. n : c[i] = e[i]
    <3>1. \A i \in 1 .. n : i \in 0 .. n
      OBVIOUS
    <3> QED  BY ONLY <1>13, <3>1
  <2> QED  BY ONLY <2>1, <2>2 DEF ValuesOf
<1>17. PICK v : c[n] = After(r, Len(Counted(s, WordCells)), v)
  <2>1. n \in 0 .. n
    OBVIOUS
  <2> QED  BY <1>4, <1>7, <1>8, <1>13, <2>1 DEF Path
<1>18. ReadCounted(r, ReadWord) = [c[n] EXCEPT !.value = s]
  BY <1>9, <1>14, <1>16
<1>19. ASSUME NEW k, NEW x, NEW y, y = After(r, k, v), x = [y EXCEPT !.value = s]
       PROVE  x = After(r, k, s)
  BY <1>19 DEF After
<1> QED  BY <1>17, <1>18, <1>19

LEMMA ReadTextsAt ==
    ASSUME _data \in Seq(Nat), Len(_data) \in WordValues, NEW r \in Readers,
           NEW s \in Seq(TextValues), At(r.offset, Counted(s, TextCells))
    PROVE  ReadCounted(r, ReadText) = After(r, Len(Counted(s, TextCells)), s)
<1>1. PICK n \in Nat : n = Len(s)
  OBVIOUS
<1>2. \A i \in 1 .. n : s[i] \in Seq(Nat) /\ Len(s[i]) \in Nat /\ s[i] \in Values
  <2>1. TextValues \subseteq Seq(Nat)
    BY RadixAssumption DEF TextValues
  <2> QED  BY <1>1, <2>1 DEF Values
<1>3. PICK ss \in Seq(Seq(Nat)) : ss = TextParts(s)
  <2>1. \A i \in 1 .. n : TextCells(s[i]) \in Seq(Nat)
    BY <1>2, TextCellsAre
  <2>2. [i \in 1 .. n |-> TextCells(s[i])] \in Seq(Seq(Nat))
    BY <2>1
  <2> QED  BY <1>1, <2>2 DEF TextParts
<1>4. Len(ss) = n /\ \A i \in 1 .. n : ss[i] = TextCells(s[i])
  BY <1>1, <1>3 DEF TextParts
<1>5. \A i \in 1 .. n : Len(ss[i]) = 2 + Len(s[i])
  BY <1>2, <1>4, TextCellsAre
<1>6. Counted(s, TextCells) = WordCells(n) \o FlattenSeq(ss)
  BY <1>1, <1>3 DEF Counted, TextParts
<1>7. /\ ReadWord(r) = After(r, 2, n) /\ CanRead(r.offset + 2, n)
      /\ Len(Counted(s, TextCells)) = 2 + Len(FlattenSeq(ss)) /\ \E e : Path(e, r, ss, s)
      /\ \A i \in 1 .. n : Len(ss[i]) \in WordValues
  <2>1. \A i \in 1 .. Len(ss) : Len(ss[i]) > 0
    <3>1. \A m \in Nat : 2 + m > 0
      OBVIOUS
    <3> QED  BY ONLY <1>2, <1>4, <1>5, <3>1
  <2>2. At(r.offset, WordCells(Len(ss)) \o FlattenSeq(ss)) /\ \A i \in 1 .. Len(ss) : s[i] \in Values
    BY <1>2, <1>4, <1>6
  <2> QED  BY <1>4, <1>6, <2>1, <2>2, VectorAt
<1>8. PICK e : Path(e, r, ss, s)
  BY <1>7
<1>9. ReadWord(r).offset = r.offset + 2 /\ ReadWord(r).value = n
  BY <1>7 DEF After
<1>10. \A i \in 1 .. n : ReadText(e[i - 1]) = e[i]
  <2>1. \A i \in 1 .. n : /\ e[i - 1] \in Readers /\ At(e[i - 1].offset, TextCells(s[i]))
                          /\ e[i] = After(e[i - 1], 2 + Len(s[i]), s[i])
    BY <1>4, <1>5, <1>8 DEF Path
  <2>2. \A i \in 1 .. n : Len(s[i]) \in WordValues
    <3>1. \A m \in Nat : 2 + m \in WordValues => m \in WordValues
      BY RadixAssumption DEF WordValues
    <3> QED  BY <1>2, <1>5, <1>7, <3>1
  <2> QED  BY <1>2, <2>1, <2>2, ReadTextAt
<1> DEFINE Loop(g) == [i \in 0 .. ReadWord(r).value |->
                          IF i = 0 THEN ReadWord(r) ELSE ReadText(g[i - 1])]
           c == CHOOSE g : g = Loop(g)
<1>11. e = Loop(e)
  <2>1. e = [i \in 0 .. n |-> e[i]] /\ e[0] = ReadWord(r)
    BY <1>4, <1>7, <1>8 DEF Path
  <2>2. \A i \in 0 .. n : e[i] = IF i = 0 THEN ReadWord(r) ELSE ReadText(e[i - 1])
    <3>1. \A i \in 0 .. n : i = 0 \/ i \in 1 .. n
      OBVIOUS
    <3> QED  BY <1>10, <2>1, <3>1
  <2> QED  BY <1>9, <2>1, <2>2
<1>12. c = Loop(c)
  <2> HIDE DEF Loop
  <2> QED  BY <1>11
<1> HIDE DEF c
<1>13. \A i \in 0 .. n : c[i] = e[i]
  <2>1. \A i \in 0 .. n : c[i] = IF i = 0 THEN ReadWord(r) ELSE ReadText(c[i - 1])
    BY <1>9, <1>12
  <2>2. \A i \in 0 .. n : e[i] = IF i = 0 THEN ReadWord(r) ELSE ReadText(e[i - 1])
    BY <1>9, <1>11
  <2> DEFINE S == {i \in 0 .. n : c[i] = e[i]}
  <2>3. 0 \in S /\ \A i \in 1 .. n : i - 1 \in S => i \in S
    BY <2>1, <2>2
  <2>4. 0 .. n \subseteq S
    <3> HIDE DEF S
    <3> QED  BY <2>3, Induction
  <2> QED  BY <2>4
<1>14. ReadCounted(r, ReadText) = [c[ReadWord(r).value] EXCEPT
                                      !.value = [i \in 1 .. ReadWord(r).value |-> c[i].value]]
  <2>1. CanRead(ReadWord(r).offset, ReadWord(r).value)
    BY <1>7, <1>9
  <2> USE DEF c
  <2> QED  BY <2>1 DEF ReadCounted
<1>15. s \in Seq(Values) /\ Len(s) = Len(ss)
  BY <1>1, <1>2, <1>4
<1>16. [i \in 1 .. n |-> c[i].value] = s
  <2>1. ValuesOf(e, n) = s
    BY <1>3, <1>4, <1>8, <1>15, PathValues
  <2>2. \A i \in 1 .. n : c[i] = e[i]
    <3>1. \A i \in 1 .. n : i \in 0 .. n
      OBVIOUS
    <3> QED  BY ONLY <1>13, <3>1
  <2> QED  BY ONLY <2>1, <2>2 DEF ValuesOf
<1>17. PICK v : c[n] = After(r, Len(Counted(s, TextCells)), v)
  <2>1. n \in 0 .. n
    OBVIOUS
  <2> QED  BY <1>4, <1>7, <1>8, <1>13, <2>1 DEF Path
<1>18. ReadCounted(r, ReadText) = [c[n] EXCEPT !.value = s]
  BY <1>9, <1>14, <1>16
<1>19. ASSUME NEW k, NEW x, NEW y, y = After(r, k, v), x = [y EXCEPT !.value = s]
       PROVE  x = After(r, k, s)
  BY <1>19 DEF After
<1> QED  BY <1>17, <1>18, <1>19

-----------------------------------------------------------------------------
(* Every read leaves a natural offset, whatever it meets. *)

LEMMA ReadTextType ==
    ASSUME _data \in Seq(Nat), NEW r \in Readers
    PROVE  ReadText(r) \in Readers /\ ReadPacket(r).offset \in Nat
<1>1. PICK q \in Readers : q = ReadWord(r) /\ q.value \in Nat /\ q.offset \in Nat
  BY ReadWordType DEF Readers
<1>2. CASE CanRead(q.offset, q.value)
  <2>1. q.offset + q.value <= Len(_data) /\ Len(_data) \in Nat
    BY <1>2 DEF CanRead
  <2>2. SubSeq(_data, q.offset + 1, q.offset + q.value) \in Seq(Nat)
    <3>1. \A i \in q.offset + 1 .. q.offset + q.value : _data[i] \in Nat
      <4>1. PICK x \in Nat, y \in Nat, l \in Nat :
                x = q.offset /\ y = q.value /\ l = Len(_data) /\ x + y <= l
        BY <1>1, <2>1
      <4>2. x + y <= l
        BY ONLY <4>1
      <4>3. \A i \in x + 1 .. x + y : i \in 1 .. l
        BY ONLY <4>2, x \in Nat, y \in Nat, l \in Nat
      <4>4. \A i \in 1 .. Len(_data) : _data[i] \in Nat
        OBVIOUS
      <4> QED  BY ONLY <4>1, <4>3, <4>4
    <3> QED  BY <1>1, <2>1, <3>1, SubSeqProperties
  <2>3. q.offset + q.value \in Nat
    BY <1>1
  <2>4. PICK v \in Values, k \in Nat :
            /\ v = SubSeq(_data, q.offset + 1, q.offset + q.value) /\ k = PastText(q.offset, q.value)
    BY <2>2, <2>3 DEF Values, PastText
  <2> HIDE DEF CanRead
  <2>5. ReadText(r) = [q EXCEPT !.offset = k, !.value = v]
    BY <1>1, <1>2, <2>4 DEF ReadText
  <2>6. ReadPacket(r) = [q EXCEPT !.value = v]
    BY <1>1, <1>2, <2>4 DEF ReadPacket
  <2> QED  BY <1>1, <2>4, <2>5, <2>6 DEF Readers
<1>3. CASE ~CanRead(q.offset, q.value)
  <2>1. ReadText(r) = Underflow(q, <<>>) /\ ReadPacket(r) = Underflow(q, <<>>)
    BY <1>1, <1>3 DEF ReadText, ReadPacket
  <2>2. <<>> \in Values
    BY DEF Values
  <2> QED  BY <1>1, <2>1, <2>2 DEF Underflow, Readers
<1> QED  BY <1>2, <1>3

LEMMA ReadWordsType ==
    ASSUME _data \in Seq(Nat), NEW r \in Readers
    PROVE  ReadCounted(r, ReadWord).offset \in Nat
<1>1. PICK q \in Readers, n \in Nat : q = ReadWord(r) /\ n = q.value
  BY ReadWordType
<1> DEFINE step == [x \in Readers \X (1 .. n) |-> ReadWord(x[1])]
           Loop(g) == [i \in 0 .. ReadWord(r).value |->
                          IF i = 0 THEN ReadWord(r) ELSE ReadWord(g[i - 1])]
           c == CHOOSE g : g = Loop(g)
<1>2. PICK f : Computes(f, Readers, n, q, step)
  <2>1. step \in [Readers \X (1 .. n) -> Readers]
    BY ReadWordType
  <2> HIDE DEF step
  <2> QED  BY <1>1, <2>1, Recursion
<1>3. f = Loop(f)
  <2>1. ASSUME NEW i \in 1 .. n
        PROVE  f[i] = ReadWord(f[i - 1])
    <3>1. f[i - 1] \in Readers /\ f[i] = step[<<f[i - 1], i>>]
      <4> HIDE DEF step
      <4>1. i - 1 \in 0 .. n
        OBVIOUS
      <4> QED  BY <1>2, <4>1 DEF Computes
    <3>2. step[<<f[i - 1], i>>] = ReadWord(f[i - 1])
      BY <3>1
    <3> QED  BY <3>1, <3>2
  <2> HIDE DEF step
  <2>2. f = [i \in 0 .. n |-> f[i]] /\ f[0] = q
    BY <1>2 DEF Computes
  <2>3. \A i \in 0 .. n : f[i] = IF i = 0 THEN ReadWord(r) ELSE ReadWord(f[i - 1])
    <3>1. \A i \in 0 .. n : i = 0 \/ i \in 1 .. n
      OBVIOUS
    <3> QED  BY <1>1, <2>1, <2>2, <3>1
  <2> QED  BY <1>1, <2>2, <2>3
<1>4. c = Loop(c)
  <2> HIDE DEF Loop, step
  <2> QED  BY <1>3
<1> HIDE DEF c, step
<1>5. \A i \in 0 .. n : c[i] \in Readers
  <2>1. \A i \in 0 .. n : c[i] = IF i = 0 THEN q ELSE ReadWord(c[i - 1])
    BY <1>1, <1>4
  <2> DEFINE S == {i \in 0 .. n : c[i] \in Readers}
  <2>2. 0 \in S /\ \A i \in 1 .. n : i - 1 \in S => i \in S
    BY <2>1, ReadWordType
  <2>3. 0 .. n \subseteq S
    <3> HIDE DEF S
    <3> QED  BY <2>2, Induction
  <2> QED  BY <2>3
<1>6. CASE CanRead(ReadWord(r).offset, ReadWord(r).value)
  <2>1. ReadCounted(r, ReadWord) = [c[ReadWord(r).value] EXCEPT
                                       !.value = [i \in 1 .. ReadWord(r).value |-> c[i].value]]
    BY <1>6 DEF ReadCounted, c
  <2>2. PICK v : ReadCounted(r, ReadWord) = [c[n] EXCEPT !.value = v]
    BY <1>1, <2>1
  <2>3. c[n] \in Readers
    BY <1>5
  <2> QED  BY <2>2, <2>3 DEF Readers
<1>7. CASE ~CanRead(ReadWord(r).offset, ReadWord(r).value)
  <2>1. ReadCounted(r, ReadWord) = Underflow(q, <<>>)
    BY <1>1, <1>7 DEF ReadCounted
  <2> QED  BY <1>1, <2>1 DEF Underflow, Readers
<1> QED  BY <1>6, <1>7

LEMMA ReadTextsType ==
    ASSUME _data \in Seq(Nat), NEW r \in Readers
    PROVE  ReadCounted(r, ReadText).offset \in Nat
<1>1. PICK q \in Readers, n \in Nat : q = ReadWord(r) /\ n = q.value
  BY ReadWordType
<1> DEFINE step == [x \in Readers \X (1 .. n) |-> ReadText(x[1])]
           Loop(g) == [i \in 0 .. ReadWord(r).value |->
                          IF i = 0 THEN ReadWord(r) ELSE ReadText(g[i - 1])]
           c == CHOOSE g : g = Loop(g)
<1>2. PICK f : Computes(f, Readers, n, q, step)
  <2>1. step \in [Readers \X (1 .. n) -> Readers]
    BY ReadTextType
  <2> HIDE DEF step
  <2> QED  BY <1>1, <2>1, Recursion
<1>3. f = Loop(f)
  <2>1. ASSUME NEW i \in 1 .. n
        PROVE  f[i] = ReadText(f[i - 1])
    <3>1. f[i - 1] \in Readers /\ f[i] = step[<<f[i - 1], i>>]
      <4> HIDE DEF step
      <4>1. i - 1 \in 0 .. n
        OBVIOUS
      <4> QED  BY <1>2, <4>1 DEF Computes
    <3>2. step[<<f[i - 1], i>>] = ReadText(f[i - 1])
      BY <3>1
    <3> QED  BY <3>1, <3>2
  <2> HIDE DEF step
  <2>2. f = [i \in 0 .. n |-> f[i]] /\ f[0] = q
    BY <1>2 DEF Computes
  <2>3. \A i \in 0 .. n : f[i] = IF i = 0 THEN ReadWord(r) ELSE ReadText(f[i - 1])
    <3>1. \A i \in 0 .. n : i = 0 \/ i \in 1 .. n
      OBVIOUS
    <3> QED  BY <1>1, <2>1, <2>2, <3>1
  <2> QED  BY <1>1, <2>2, <2>3
<1>4. c = Loop(c)
  <2> HIDE DEF Loop, step
  <2> QED  BY <1>3
<1> HIDE DEF c, step
<1>5. \A i \in 0 .. n : c[i] \in Readers
  <2>1. \A i \in 0 .. n : c[i] = IF i = 0 THEN q ELSE ReadText(c[i - 1])
    BY <1>1, <1>4
  <2> DEFINE S == {i \in 0 .. n : c[i] \in Readers}
  <2>2. 0 \in S /\ \A i \in 1 .. n : i - 1 \in S => i \in S
    BY <2>1, ReadTextType
  <2>3. 0 .. n \subseteq S
    <3> HIDE DEF S
    <3> QED  BY <2>2, Induction
  <2> QED  BY <2>3
<1>6. CASE CanRead(ReadWord(r).offset, ReadWord(r).value)
  <2>1. ReadCounted(r, ReadText) = [c[ReadWord(r).value] EXCEPT
                                       !.value = [i \in 1 .. ReadWord(r).value |-> c[i].value]]
    BY <1>6 DEF ReadCounted, c
  <2>2. PICK v : ReadCounted(r, ReadText) = [c[n] EXCEPT !.value = v]
    BY <1>1, <2>1
  <2>3. c[n] \in Readers
    BY <1>5
  <2> QED  BY <2>2, <2>3 DEF Readers
<1>7. CASE ~CanRead(ReadWord(r).offset, ReadWord(r).value)
  <2>1. ReadCounted(r, ReadText) = Underflow(q, <<>>)
    BY <1>1, <1>7 DEF ReadCounted
  <2> QED  BY <1>1, <2>1 DEF Underflow, Readers
<1> QED  BY <1>6, <1>7

LEMMA ReadType ==
    ASSUME _data \in Seq(Nat), _read_offset \in Nat, NEW kind \in Kinds
    PROVE  Reader \in Readers /\ Read(kind).offset \in Nat
<1>1. Reader \in Readers
  BY DEF Reader, Readers, Values
<1>2. /\ ReadWord(Reader).offset \in Nat /\ ReadText(Reader).offset \in Nat
      /\ ReadPacket(Reader).offset \in Nat
  BY <1>1, ReadWordType, ReadTextType DEF Readers
<1>3. ReadCounted(Reader, ReadWord).offset \in Nat /\ ReadCounted(Reader, ReadText).offset \in Nat
  BY <1>1, ReadWordsType, ReadTextsType
<1> QED  BY <1>1, <1>2, <1>3 DEF Read, Kinds

-----------------------------------------------------------------------------
(* Items. *)

CellsOf(items) == [i \in 1 .. Len(items) |-> Cells(items[i])]


\* The values of an item, by its kind.
LEMMA ItemValues ==
    ASSUME NEW item \in Items
    PROVE  \/ item.kind = "word" /\ item.value \in WordValues
           \/ item.kind = "text" /\ item.value \in TextValues
           \/ item.kind = "words" /\ item.value \in Seq(WordValues)
           \/ item.kind = "texts" /\ item.value \in Seq(TextValues)
           \/ item.kind = "packet" /\ item.value \in TextValues
BY ItemsAssumption

LEMMA ValueTypes ==
    /\ WordValues \subseteq Nat /\ TextValues \subseteq Seq(Nat)
    /\ \A m \in Nat, n \in WordValues : m <= n => m \in WordValues
BY RadixAssumption DEF WordValues, TextValues

\* Every item takes cells: at least the two of its number or length.
LEMMA CellsAre ==
    ASSUME NEW item \in Items
    PROVE  /\ Cells(item) \in Seq(Nat) /\ Len(Cells(item)) >= 2
           /\ item.kind = "word" => Cells(item) = WordCells(item.value)
           /\ item.kind \in {"text", "packet"} => Cells(item) = TextCells(item.value)
           /\ item.kind = "words" => Cells(item) = Counted(item.value, WordCells)
           /\ item.kind = "texts" => Cells(item) = Counted(item.value, TextCells)
<1>1. \A w, t \in Seq(Nat) : w \o t \in Seq(Nat) /\ Len(w \o t) = Len(w) + Len(t)
  OBVIOUS
<1>2. ASSUME NEW n \in Nat, NEW ss \in Seq(Seq(Nat))
      PROVE  WordCells(n) \o FlattenSeq(ss) \in Seq(Nat) /\ Len(WordCells(n) \o FlattenSeq(ss)) >= 2
  <2>1. WordCells(n) \in Seq(Nat) /\ Len(WordCells(n)) = 2 /\ FlattenSeq(ss) \in Seq(Nat)
    BY WordCellsAre, JoinType
  <2>2. Len(FlattenSeq(ss)) \in Nat
    BY <2>1
  <2>3. WordCells(n) \o FlattenSeq(ss) \in Seq(Nat)
        /\ Len(WordCells(n) \o FlattenSeq(ss)) = 2 + Len(FlattenSeq(ss))
    BY ONLY <1>1, <2>1
  <2> QED  BY ONLY <2>2, <2>3
<1>3. CASE item.kind = "word" /\ item.value \in WordValues
  <2>1. Cells(item) = WordCells(item.value)
    BY <1>3 DEF Cells
  <2>2. WordCells(item.value) \in Seq(Nat) /\ Len(WordCells(item.value)) = 2
    BY <1>3, ValueTypes, WordCellsAre
  <2> QED  BY <1>3, <2>1, <2>2
<1>4. CASE item.kind \in {"text", "packet"} /\ item.value \in TextValues
  <2>1. Cells(item) = TextCells(item.value)
    BY <1>4 DEF Cells
  <2>2. TextCells(item.value) \in Seq(Nat) /\ Len(TextCells(item.value)) = 2 + Len(item.value)
        /\ Len(item.value) \in Nat
    <3>1. PICK x \in Seq(Nat) : x = item.value
      BY <1>4, ValueTypes
    <3>2. Len(x) \in Nat
      BY ONLY x \in Seq(Nat)
    <3> QED  BY <3>1, <3>2, TextCellsAre
  <2>3. \A m \in Nat : 2 + m >= 2
    OBVIOUS
  <2> QED  BY <1>4, <2>1, <2>2, <2>3
<1>5. CASE item.kind = "words" /\ item.value \in Seq(WordValues)
  <2>1. Cells(item) = Counted(item.value, WordCells)
    BY <1>5 DEF Cells
  <2>2. PICK s \in Seq(WordValues) : s = item.value /\ Len(s) \in Nat
    BY <1>5
  <2>3. \A i \in 1 .. Len(s) : WordCells(s[i]) \in Seq(Nat)
    <3>1. \A i \in 1 .. Len(s) : s[i] \in WordValues
      BY <2>2
    <3> QED  BY <3>1, ValueTypes, WordCellsAre
  <2>4. [i \in 1 .. Len(s) |-> WordCells(s[i])] \in Seq(Seq(Nat))
    BY <2>2, <2>3
  <2> QED  BY <1>2, <1>5, <2>1, <2>2, <2>4 DEF Counted
<1>6. CASE item.kind = "texts" /\ item.value \in Seq(TextValues)
  <2>1. Cells(item) = Counted(item.value, TextCells)
    BY <1>6 DEF Cells
  <2>2. PICK s \in Seq(TextValues) : s = item.value /\ Len(s) \in Nat
    BY <1>6
  <2>3. \A i \in 1 .. Len(s) : TextCells(s[i]) \in Seq(Nat)
    <3>1. \A i \in 1 .. Len(s) : s[i] \in TextValues
      BY <2>2
    <3> QED  BY <3>1, ValueTypes, TextCellsAre
  <2>4. [i \in 1 .. Len(s) |-> TextCells(s[i])] \in Seq(Seq(Nat))
    BY <2>2, <2>3
  <2> QED  BY <1>2, <1>6, <2>1, <2>2, <2>4 DEF Counted
<1> QED  BY <1>3, <1>4, <1>5, <1>6, ItemValues

\* So does every piece that a packet consists of.
LEMMA PieceCells ==
    ASSUME NEW piece \in Pieces
    PROVE  Cells(piece) \in Seq(Nat) /\ Len(Cells(piece)) \in Nat \ {0}
<1>1. CASE piece \in Items
  <2>1. PICK c \in Seq(Nat) : c = Cells(piece) /\ Len(c) >= 2
    BY <1>1, CellsAre
  <2>2. Len(c) \in Nat \ {0}
    BY ONLY <2>1, c \in Seq(Nat)
  <2> QED  BY ONLY <2>1, <2>2
<1>2. ASSUME NEW c \in Seq(Nat) \ {<<>>}, piece = Rest(c)
      PROVE  Cells(piece) \in Seq(Nat) /\ Len(Cells(piece)) \in Nat \ {0}
  <2>1. Cells(piece) = c
    BY <1>2 DEF Cells, Rest
  <2>2. c \in Seq(Nat) /\ Len(c) \in Nat \ {0}
    BY EmptySeq
  <2> QED  BY ONLY <2>1, <2>2
<1> QED  BY <1>1, <1>2 DEF Pieces

LEMMA ItemsArePieces == Items \subseteq Pieces
BY DEF Pieces

LEMMA CellsOfAre ==
    ASSUME NEW u \in Seq(Pieces)
    PROVE  CellsOf(u) \in Seq(Seq(Nat)) /\ FlattenSeq(CellsOf(u)) \in Seq(Nat)
<1>1. Len(u) \in Nat /\ \A i \in 1 .. Len(u) : Cells(u[i]) \in Seq(Nat)
  <2>1. Len(u) \in Nat /\ \A i \in 1 .. Len(u) : u[i] \in Pieces
    OBVIOUS
  <2> QED  BY <2>1, PieceCells
<1>2. CellsOf(u) \in Seq(Seq(Nat))
  BY <1>1 DEF CellsOf
<1> QED  BY <1>2, JoinType

LEMMA CellsOfAppend ==
    ASSUME NEW u \in Seq(Pieces), NEW item \in Pieces
    PROVE  FlattenSeq(CellsOf(Append(u, item))) = FlattenSeq(CellsOf(u)) \o Cells(item)
<1>1. CellsOf(u) \in Seq(Seq(Nat)) /\ Cells(item) \in Seq(Nat)
  BY PieceCells, CellsOfAre
<1>2. CellsOf(Append(u, item)) = Append(CellsOf(u), Cells(item))
  <2> DEFINE v == Append(u, item)
             n == Len(u)
             c == CellsOf(u)
             d == Append(c, Cells(item))
  <2>1. /\ n \in Nat /\ Len(v) = n + 1 /\ v[n + 1] = item
        /\ \A i \in 1 .. n : v[i] = u[i]
    OBVIOUS
  <2>2. Len(c) = n /\ \A i \in 1 .. n : c[i] = Cells(u[i])
    BY <2>1 DEF CellsOf
  <2>3. /\ d \in Seq(Seq(Nat)) /\ Len(d) = n + 1 /\ d[n + 1] = Cells(item)
        /\ \A i \in 1 .. n : d[i] = c[i]
    <3> HIDE DEF c, n
    <3>1. c \in Seq(Seq(Nat)) /\ Len(c) = n
      BY <1>1, <2>2 DEF c
    <3> QED  BY <1>1, <2>1, <3>1
  <2> HIDE DEF n, v, d, c
  <2>4. \A i \in 1 .. n + 1 : Cells(v[i]) = d[i]
    <3>1. \A i \in 1 .. n + 1 : i = n + 1 \/ i \in 1 .. n
      BY <2>1
    <3> QED  BY <2>1, <2>2, <2>3, <3>1
  <2>5. CellsOf(v) = [i \in 1 .. n + 1 |-> Cells(v[i])]
    BY <2>1 DEF CellsOf
  <2>6. d = [i \in 1 .. n + 1 |-> d[i]]
    BY <2>3
  <2>7. CellsOf(v) = d
    BY <2>4, <2>5, <2>6
  <2> QED  BY <2>7 DEF v, d, c
<1> QED  BY <1>1, <1>2, JoinAppend

LEMMA CellsOfFront ==
    ASSUME NEW u \in Seq(Pieces), NEW item \in Pieces
    PROVE  FlattenSeq(CellsOf(<<item>> \o u)) = Cells(item) \o FlattenSeq(CellsOf(u))
<1>1. CellsOf(u) \in Seq(Seq(Nat)) /\ Cells(item) \in Seq(Nat)
  BY PieceCells, CellsOfAre
<1>2. CellsOf(<<item>> \o u) = <<Cells(item)>> \o CellsOf(u)
  <2> DEFINE v == <<item>> \o u
             n == Len(u)
             c == CellsOf(u)
             d == <<Cells(item)>> \o c
  <2>1. /\ n \in Nat /\ Len(v) = n + 1 /\ v[1] = item
        /\ \A i \in 2 .. n + 1 : v[i] = u[i - 1]
    OBVIOUS
  <2>2. Len(c) = n /\ \A i \in 1 .. n : c[i] = Cells(u[i])
    BY <2>1 DEF CellsOf
  <2>3. /\ d \in Seq(Seq(Nat)) /\ Len(d) = n + 1 /\ d[1] = Cells(item)
        /\ \A i \in 2 .. n + 1 : d[i] = c[i - 1]
    <3> HIDE DEF c, n
    <3>1. c \in Seq(Seq(Nat)) /\ Len(c) = n
      BY <1>1, <2>2 DEF c
    <3> QED  BY <1>1, <2>1, <3>1
  <2> HIDE DEF n, v, d, c
  <2>4. \A i \in 1 .. n + 1 : Cells(v[i]) = d[i]
    <3>1. \A i \in 1 .. n + 1 : i = 1 \/ (i \in 2 .. n + 1 /\ i - 1 \in 1 .. n)
      BY <2>1
    <3>2. ASSUME NEW i \in 1 .. n + 1 PROVE Cells(v[i]) = d[i]
      <4>1. CASE i = 1
        BY ONLY <2>1, <2>3, <4>1
      <4>2. CASE i \in 2 .. n + 1 /\ i - 1 \in 1 .. n
        BY ONLY <2>1, <2>2, <2>3, <4>2
      <4> QED  BY <3>1, <4>1, <4>2
    <3> QED  BY <3>2
  <2>5. CellsOf(v) = [i \in 1 .. n + 1 |-> Cells(v[i])]
    BY <2>1 DEF CellsOf
  <2>6. d = [i \in 1 .. n + 1 |-> d[i]]
    BY <2>3
  <2>7. CellsOf(v) = d
    BY <2>4, <2>5, <2>6
  <2> QED  BY <2>7 DEF v, d, c
<1> QED  BY <1>1, <1>2, JoinFront

-----------------------------------------------------------------------------
(* The data behind an offset. *)

Behind(d, a) == SubSeq(d, a + 1, Len(d))

LEMMA LengthBehind ==
    \A k, l \in Nat : k <= l => (IF k + 1 <= l THEN l - (k + 1) + 1 ELSE 0) = l - k
OBVIOUS

LEMMA BehindIs ==
    ASSUME NEW d \in Seq(Nat), NEW a \in Nat, a <= Len(d)
    PROVE  /\ Behind(d, a) \in Seq(Nat) /\ Len(Behind(d, a)) = Len(d) - a
           /\ \A i \in 1 .. Len(d) - a : Behind(d, a)[i] = d[a + i]
<1>0. a <= Len(d)
  OBVIOUS
<1>1. Len(d) \in Nat /\ \A i \in a + 1 .. Len(d) : d[i] \in Nat
  OBVIOUS
<1>2. /\ Behind(d, a) \in Seq(Nat)
      /\ Len(Behind(d, a)) = IF a + 1 <= Len(d) THEN Len(d) - (a + 1) + 1 ELSE 0
      /\ \A i \in 1 .. Len(d) - (a + 1) + 1 : Behind(d, a)[i] = d[(a + 1) + i - 1]
  BY <1>1, SubSeqProperties DEF Behind
<1>3. Len(d) - (a + 1) + 1 = Len(d) - a /\ \A i \in Nat : (a + 1) + i - 1 = a + i
  BY <1>1
<1>4. Len(Behind(d, a)) = Len(d) - a
  BY <1>0, <1>1, <1>2, LengthBehind, Zenon
<1>5. ASSUME NEW i \in 1 .. Len(d) - a PROVE Behind(d, a)[i] = d[a + i]
  <2>1. i \in 1 .. Len(d) - (a + 1) + 1 /\ i \in Nat
    BY <1>1
  <2> QED  BY <1>2, <1>3, <2>1, Zenon
<1> QED  BY <1>2, <1>4, <1>5

LEMMA BehindAll ==
    ASSUME NEW d \in Seq(Nat)
    PROVE  Behind(d, 0) = d
BY SubSeqFull DEF Behind

LEMMA BehindAppended ==
    ASSUME NEW d \in Seq(Nat), NEW a \in Nat, a <= Len(d), NEW c \in Seq(Nat)
    PROVE  Behind(d \o c, a) = Behind(d, a) \o c
<1> DEFINE e == d \o c
           b == Behind(d, a)
           x == Behind(e, a)
           y == b \o c
<1>1. /\ Len(d) \in Nat /\ Len(c) \in Nat /\ e \in Seq(Nat) /\ Len(e) = Len(d) + Len(c)
      /\ \A i \in 1 .. Len(d) : e[i] = d[i]
      /\ \A i \in 1 .. Len(c) : e[Len(d) + i] = c[i]
  OBVIOUS
<1> HIDE DEF e
<1>2. /\ b \in Seq(Nat) /\ Len(b) = Len(d) - a
      /\ \A i \in 1 .. Len(d) - a : b[i] = d[a + i]
  BY BehindIs
<1>3. /\ x \in Seq(Nat) /\ Len(x) = Len(e) - a
      /\ \A i \in 1 .. Len(e) - a : x[i] = e[a + i]
  <2>1. a <= Len(e)
    BY <1>1
  <2> QED  BY <1>1, <2>1, BehindIs
<1> HIDE DEF b, x
<1>4. /\ y \in Seq(Nat) /\ Len(y) = Len(b) + Len(c)
      /\ \A i \in 1 .. Len(b) : y[i] = b[i]
      /\ \A i \in 1 .. Len(c) : y[Len(b) + i] = c[i]
  <2>1. b \in Seq(Nat)
    BY <1>2
  <2> QED  BY ONLY <2>1, c \in Seq(Nat)
<1> HIDE DEF y
<1>5. Len(x) = Len(y)
  BY <1>1, <1>2, <1>3, <1>4
<1>6. ASSUME NEW i \in 1 .. Len(x) PROVE x[i] = y[i]
  <2>1. CASE i <= Len(d) - a
    <3>1. i \in 1 .. Len(b) /\ a + i \in 1 .. Len(d) /\ i \in 1 .. Len(e) - a /\ i \in 1 .. Len(d) - a
      <4>1. i \in Nat /\ 1 <= i /\ i \in 1 .. Len(e) - a
        BY <1>1, <1>3
      <4>2. i \in 1 .. Len(d) - a
        BY <1>1, <2>1, <4>1
      <4>3. a + i \in 1 .. Len(d)
        BY <1>1, <2>1, <4>1
      <4> QED  BY <1>2, <4>1, <4>2, <4>3
    <3>2. x[i] = e[a + i] /\ e[a + i] = d[a + i]
      BY ONLY <1>1, <1>3, <3>1
    <3>3. y[i] = b[i] /\ b[i] = d[a + i]
      BY ONLY <1>2, <1>4, <3>1
    <3> QED  BY ONLY <3>2, <3>3
  <2>2. CASE ~(i <= Len(d) - a)
    <3>0. /\ i \in Nat /\ Len(d) - a \in Nat /\ i > Len(d) - a
          /\ i <= (Len(d) + Len(c)) - a
      BY <1>1, <1>3, <2>2
    <3>1. PICK j \in Nat : j = i - (Len(d) - a)
      <4>1. i - (Len(d) - a) \in Nat
        BY <3>0
      <4> QED  BY <4>1
    <3>2. /\ j \in 1 .. Len(c) /\ a + i = Len(d) + j /\ i = Len(b) + j
          /\ i \in 1 .. Len(e) - a
      BY <1>1, <1>2, <1>3, <3>0, <3>1
    <3>3. x[i] = e[a + i] /\ e[Len(d) + j] = c[j]
      BY ONLY <1>1, <1>3, <3>2
    <3>4. y[Len(b) + j] = c[j]
      BY ONLY <1>4, <3>2
    <3> QED  BY ONLY <3>2, <3>3, <3>4
  <2> QED  BY <2>1, <2>2
<1>7. x = y
  BY <1>3, <1>4, <1>5, <1>6, SeqEqual
<1> QED  BY <1>7 DEF x, y, e, b

\* What is behind the offset, taken apart.
LEMMA BehindSplit ==
    ASSUME _data \in Seq(Nat), NEW a \in Nat, a <= Len(_data),
           NEW c \in Seq(Nat), NEW t \in Seq(Nat), Behind(_data, a) = c \o t
    PROVE  /\ At(a, c) /\ a + Len(c) <= Len(_data)
           /\ Behind(_data, a + Len(c)) = t
<1> DEFINE b == Behind(_data, a)
           x == Behind(_data, a + Len(c))
<1>1. /\ Len(_data) \in Nat /\ Len(c) \in Nat /\ Len(t) \in Nat
      /\ b \in Seq(Nat) /\ Len(b) = Len(_data) - a
      /\ \A i \in 1 .. Len(_data) - a : b[i] = _data[a + i]
  <2>1. Len(_data) \in Nat /\ Len(c) \in Nat /\ Len(t) \in Nat
    OBVIOUS
  <2>2. /\ b \in Seq(Nat) /\ Len(b) = Len(_data) - a
        /\ \A i \in 1 .. Len(_data) - a : b[i] = _data[a + i]
    BY BehindIs
  <2> QED  BY <2>1, <2>2
<1>2. /\ Len(c \o t) = Len(c) + Len(t)
      /\ \A i \in 1 .. Len(c) : (c \o t)[i] = c[i]
      /\ \A i \in 1 .. Len(t) : (c \o t)[Len(c) + i] = t[i]
  OBVIOUS
<1>3. b = c \o t
  OBVIOUS
<1> HIDE DEF b
<1>4. a + Len(c) \in Nat /\ a + Len(c) <= Len(_data) /\ Len(_data) - a = Len(c) + Len(t)
      /\ Len(_data) - (a + Len(c)) = Len(t)
  BY <1>1, <1>2, <1>3
<1>5. ASSUME NEW i \in 1 .. Len(c) PROVE _data[a + i] = c[i]
  <2>1. i \in 1 .. Len(_data) - a
    BY <1>1, <1>4
  <2> QED  BY <1>1, <1>2, <1>3, <2>1
<1>6. /\ x \in Seq(Nat) /\ Len(x) = Len(_data) - (a + Len(c))
      /\ \A i \in 1 .. Len(_data) - (a + Len(c)) : x[i] = _data[(a + Len(c)) + i]
  BY <1>4, BehindIs
<1> HIDE DEF x
<1>7. ASSUME NEW i \in 1 .. Len(t) PROVE x[i] = t[i]
  <2>1. Len(c) + i \in 1 .. Len(_data) - a /\ (a + Len(c)) + i = a + (Len(c) + i)
        /\ i \in 1 .. Len(_data) - (a + Len(c))
    <3>1. PICK q \in Nat, l \in Nat : q = Len(c) /\ l = Len(t)
      BY <1>1
    <3>2. i \in 1 .. l
      BY <3>1
    <3>3. q + i \in 1 .. q + l /\ (a + q) + i = a + (q + i)
      BY ONLY <3>2, a \in Nat, q \in Nat, l \in Nat
    <3> QED  BY <1>4, <3>1, <3>2, <3>3
  <2>2. x[i] = b[Len(c) + i]
    BY <1>1, <1>6, <2>1
  <2> QED  BY <1>2, <1>3, <2>2
<1>8. x = t
  <2>1. Len(x) = Len(t)
    BY <1>4, <1>6
  <2> QED  BY <1>6, <1>7, <2>1, SeqEqual
<1> QED  BY <1>4, <1>5, <1>8 DEF At, x

\* Nothing is left behind the offset exactly when it is the length.
LEMMA BehindNone ==
    ASSUME NEW d \in Seq(Nat), NEW a \in Nat, a <= Len(d), Behind(d, a) = <<>>
    PROVE  a = Len(d)
<1>1. Len(Behind(d, a)) = Len(d) - a /\ Len(d) \in Nat
  BY BehindIs
<1>2. Len(<<>>) = 0
  OBVIOUS
<1> QED  BY <1>1, <1>2

-----------------------------------------------------------------------------
(* One read. *)

\* An embedded packet is returned, and the offset stays in front of it.
LEMMA ReadPacketAt ==
    ASSUME _data \in Seq(Nat), NEW r \in Readers, NEW s \in Seq(Nat), Len(s) \in WordValues,
           At(r.offset, TextCells(s))
    PROVE  ReadPacket(r) = After(r, 2, s)
<1>1. /\ Len(s) \in Nat /\ WordCells(Len(s)) \in Seq(Nat) /\ Len(WordCells(Len(s))) = 2
      /\ r.offset \in Nat
  BY WordCellsAre DEF Readers
<1>2. At(r.offset, WordCells(Len(s))) /\ At(r.offset + 2, s)
  BY <1>1, AtJoin DEF TextCells
<1>3. ReadWord(r) = After(r, 2, Len(s))
  BY <1>2, ReadWordAt
<1>4. CanRead(r.offset + 2, Len(s))
  BY <1>2 DEF At, CanRead
<1>5. SubSeq(_data, (r.offset + 2) + 1, (r.offset + 2) + Len(s)) = s
  <2>1. r.offset + 2 \in Nat
    BY <1>1
  <2> QED  BY <1>2, <2>1, SubSeqAt
<1>6. ReadPacket(r) = [After(r, 2, Len(s)) EXCEPT !.value = s]
  <2>1. ReadWord(r).offset = r.offset + 2 /\ ReadWord(r).value = Len(s)
    BY <1>3 DEF After
  <2> HIDE DEF CanRead
  <2> QED  BY <1>3, <1>4, <1>5, <2>1 DEF ReadPacket
<1> QED  BY <1>6 DEF After

\* A read of the item that stands behind the offset returns it and passes it, unless
\* it is a packet that is not empty.
LEMMA ReadItemAt ==
    ASSUME _data \in Seq(Nat), Len(_data) \in WordValues, _read_offset \in Nat,
           NEW item \in Items, At(_read_offset, Cells(item))
    PROVE  /\ Read(item.kind).valid /\ ~Read(item.kind).under
           /\ Read(item.kind).value = item.value
           /\ item.kind # "packet" \/ item.value = <<>> =>
                  Read(item.kind).offset = _read_offset + Len(Cells(item))
           /\ item.kind = "packet" => Read(item.kind).offset = _read_offset + 2
<1>1. Reader \in Readers /\ Reader.offset = _read_offset /\ Reader.under = FALSE
  BY DEF Reader, Readers, Values
<1> DEFINE Passed(r) == r = After(Reader, Len(Cells(item)), item.value)
<1>2. \A r : Passed(r) => /\ r.valid /\ ~r.under /\ r.value = item.value
                          /\ r.offset = _read_offset + Len(Cells(item))
  BY <1>1 DEF After
<1>3. CASE item.kind = "word" /\ item.value \in WordValues
  <2>1. Cells(item) = WordCells(item.value) /\ Len(Cells(item)) = 2
    BY <1>3, CellsAre, ValueTypes, WordCellsAre
  <2>2. Passed(ReadWord(Reader))
    BY <1>1, <1>3, <2>1, ReadWordAt
  <2>3. Read(item.kind) = ReadWord(Reader)
    BY <1>3 DEF Read
  <2> QED  BY <1>2, <1>3, <2>2, <2>3
<1>4. ASSUME item.kind \in {"text", "packet"}, item.value \in TextValues
      PROVE  /\ item.value \in Seq(Nat) /\ Cells(item) = TextCells(item.value)
             /\ Len(Cells(item)) = 2 + Len(item.value) /\ Len(item.value) \in WordValues
  <2>1. item.value \in Seq(Nat) /\ Cells(item) = TextCells(item.value)
    BY <1>4, CellsAre, ValueTypes
  <2>2. Len(Cells(item)) = 2 + Len(item.value) /\ Len(item.value) \in Nat
    <3>1. PICK t \in Seq(Nat) : t = item.value /\ Len(t) \in Nat
      BY <2>1
    <3> QED  BY <2>1, <3>1, TextCellsAre
  <2>3. Len(item.value) <= Len(_data)
    <3>1. _read_offset + Len(Cells(item)) <= Len(_data) /\ Len(_data) \in Nat
      BY DEF At
    <3> QED  BY <2>2, <3>1
  <2> QED  BY <2>1, <2>2, <2>3, ValueTypes
<1>5. CASE item.kind = "text" /\ item.value \in TextValues
  <2>1. Passed(ReadText(Reader))
    BY <1>1, <1>4, <1>5, ReadTextAt
  <2>2. Read(item.kind) = ReadText(Reader)
    BY <1>5 DEF Read
  <2> QED  BY <1>2, <1>5, <2>1, <2>2
<1>6. CASE item.kind = "packet" /\ item.value \in TextValues
  <2>1. ReadPacket(Reader) = After(Reader, 2, item.value)
    BY <1>1, <1>4, <1>6, ReadPacketAt
  <2>2. Read(item.kind) = ReadPacket(Reader)
    BY <1>6 DEF Read
  <2>3. item.value = <<>> => Len(Cells(item)) = 2
    <3>1. Len(Cells(item)) = 2 + Len(item.value) /\ Len(<<>>) = 0 /\ 2 + 0 = 2
      BY <1>4, <1>6
    <3> QED  BY <3>1
  <2>4. /\ Read(item.kind).valid = TRUE /\ Read(item.kind).under = FALSE
        /\ Read(item.kind).value = item.value /\ Read(item.kind).offset = _read_offset + 2
    BY <1>1, <2>1, <2>2 DEF After
  <2> QED  BY <1>6, <2>3, <2>4
<1>7. CASE item.kind = "words" /\ item.value \in Seq(WordValues)
  <2>1. Cells(item) = Counted(item.value, WordCells)
    BY <1>7, CellsAre
  <2>2. Passed(ReadCounted(Reader, ReadWord))
    BY <1>1, <1>7, <2>1, ReadWordsAt
  <2>3. Read(item.kind) = ReadCounted(Reader, ReadWord)
    BY <1>7 DEF Read
  <2> QED  BY <1>2, <1>7, <2>2, <2>3
<1>8. CASE item.kind = "texts" /\ item.value \in Seq(TextValues)
  <2>1. Cells(item) = Counted(item.value, TextCells)
    BY <1>8, CellsAre
  <2>2. Passed(ReadCounted(Reader, ReadText))
    BY <1>1, <1>8, <2>1, ReadTextsAt
  <2>3. Read(item.kind) = ReadCounted(Reader, ReadText)
    BY <1>8 DEF Read
  <2> QED  BY <1>2, <1>8, <2>2, <2>3
<1> QED  BY <1>3, <1>5, <1>6, <1>7, <1>8, ItemValues

\* At the end of the data and past it every read underflows and the offset stays.
LEMMA ReadAtEnd ==
    ASSUME _data \in Seq(Nat), _read_offset \in Nat, _read_offset >= Len(_data), NEW kind \in Kinds
    PROVE  Read(kind).offset = _read_offset
<1>1. Len(_data) \in Nat /\ Reader \in Readers
  BY DEF Reader, Readers, Values
<1>2. PICK q \in Readers : q = ReadWord(Reader) /\ q.value = 0 /\ q.offset = _read_offset
  <2>1. ~CanRead(Reader.offset, 2)
    BY <1>1 DEF CanRead, Reader
  <2>2. ReadWord(Reader) = Underflow(Reader, 0)
    BY <2>1 DEF ReadWord
  <2> QED  BY <1>1, <2>2, ReadWordType DEF Underflow, Reader
<1>3. PastText(_read_offset, 0) = _read_offset
  BY <1>1 DEF PastText
<1>4. ReadText(Reader).offset = _read_offset /\ ReadPacket(Reader).offset = _read_offset
  BY <1>2, <1>3 DEF ReadText, ReadPacket, Underflow, Readers
<1>5. ReadCounted(Reader, ReadWord).offset = _read_offset
  <2> DEFINE Loop(g) == [i \in 0 .. ReadWord(Reader).value |->
                            IF i = 0 THEN ReadWord(Reader) ELSE ReadWord(g[i - 1])]
             c == CHOOSE g : g = Loop(g)
             h == [i \in 0 .. 0 |-> q]
  <2>1. h = Loop(h)
    BY <1>2
  <2>2. c = Loop(c)
    <3> HIDE DEF Loop, h
    <3> QED  BY <2>1
  <2>3. c[0] = q
    <3> HIDE DEF c
    <3> QED  BY <1>2, <2>2
  <2>4. CASE CanRead(q.offset, q.value)
    <3>1. ReadCounted(Reader, ReadWord) =
              [c[ReadWord(Reader).value] EXCEPT
                   !.value = [i \in 1 .. ReadWord(Reader).value |-> c[i].value]]
      BY <1>2, <2>4 DEF ReadCounted
    <3> HIDE DEF c
    <3>2. PICK v : ReadCounted(Reader, ReadWord) = [q EXCEPT !.value = v]
      BY <1>2, <2>3, <3>1
    <3> QED  BY <1>2, <3>2 DEF Readers
  <2>5. CASE ~CanRead(q.offset, q.value)
    BY <1>2, <2>5 DEF ReadCounted, Underflow, Readers
  <2> QED  BY <2>4, <2>5
<1>6. ReadCounted(Reader, ReadText).offset = _read_offset
  <2> DEFINE Loop(g) == [i \in 0 .. ReadWord(Reader).value |->
                            IF i = 0 THEN ReadWord(Reader) ELSE ReadText(g[i - 1])]
             c == CHOOSE g : g = Loop(g)
             h == [i \in 0 .. 0 |-> q]
  <2>1. h = Loop(h)
    BY <1>2
  <2>2. c = Loop(c)
    <3> HIDE DEF Loop, h
    <3> QED  BY <2>1
  <2>3. c[0] = q
    <3> HIDE DEF c
    <3> QED  BY <1>2, <2>2
  <2>4. CASE CanRead(q.offset, q.value)
    <3>1. ReadCounted(Reader, ReadText) =
              [c[ReadWord(Reader).value] EXCEPT
                   !.value = [i \in 1 .. ReadWord(Reader).value |-> c[i].value]]
      BY <1>2, <2>4 DEF ReadCounted
    <3> HIDE DEF c
    <3>2. PICK v : ReadCounted(Reader, ReadText) = [q EXCEPT !.value = v]
      BY <1>2, <2>3, <3>1
    <3> QED  BY <1>2, <3>2 DEF Readers
  <2>5. CASE ~CanRead(q.offset, q.value)
    BY <1>2, <2>5 DEF ReadCounted, Underflow, Readers
  <2> QED  BY <2>4, <2>5
<1> QED  BY <1>2, <1>4, <1>5, <1>6 DEF Read, Kinds

-----------------------------------------------------------------------------
(* The packet. *)

\* A length in front of a value fits uint32_t: the packet is shorter than 2^32 bytes.
\* write() truncates longer ones (packet.hpp, lines 356, 363 and 374).
Fits == MaxCells < Radix * Radix

\* What stands in the data d, behind offset a and after h cells were read and then
\* cleared: the pieces u.
Stands(d, a, u, h) ==
    /\ u \in Seq(Pieces)
    /\ IF h = 0 THEN a <= Len(d) /\ Behind(d, a) = FlattenSeq(CellsOf(u))
                ELSE a = h /\ d = FlattenSeq(CellsOf(u))

PInv ==
    /\ _data \in Seq(Nat) /\ Len(_data) <= MaxCells
    /\ _read_offset \in Nat /\ ahead \in Nat
    /\ ~strayed => Stands(_data, _read_offset, unread, ahead)

LEMMA StandsNothing ==
    ASSUME NEW a \in Nat
    PROVE  Stands(<<>>, a, <<>>, a)
<1>1. CellsOf(<<>>) = <<>> /\ FlattenSeq(<<>>) = <<>> /\ <<>> \in Seq(Pieces)
  BY JoinNone DEF CellsOf
<1>2. Len(<<>>) = 0 /\ <<>> \in Seq(Nat) /\ Behind(<<>>, 0) = <<>>
  <2>1. Len(<<>>) = 0 /\ <<>> \in Seq(Nat)
    OBVIOUS
  <2> QED  BY <2>1, BehindAll
<1> QED  BY <1>1, <1>2 DEF Stands

LEMMA StandsAppended ==
    ASSUME NEW d, d \in Seq(Nat), NEW a \in Nat, NEW u, NEW h \in Nat, Stands(d, a, u, h),
           NEW piece \in Pieces
    PROVE  Stands(d \o Cells(piece), a, Append(u, piece), h)
<1> DEFINE c == Cells(piece)
           v == Append(u, piece)
<1>1. c \in Seq(Nat) /\ u \in Seq(Pieces) /\ v \in Seq(Pieces)
  <2>1. u \in Seq(Pieces)
    BY DEF Stands
  <2> QED  BY <2>1, PieceCells
<1>2. FlattenSeq(CellsOf(v)) = FlattenSeq(CellsOf(u)) \o c
  BY <1>1, CellsOfAppend
<1> HIDE DEF c, v
<1>3. CASE h = 0
  <2>1. a <= Len(d) /\ Behind(d, a) = FlattenSeq(CellsOf(u))
    BY ONLY Stands(d, a, u, h), <1>3 DEF Stands
  <2>2. Behind(d \o c, a) = FlattenSeq(CellsOf(v))
    <3>1. Behind(d \o c, a) = Behind(d, a) \o c
      BY ONLY <1>1, <2>1, d \in Seq(Nat), a \in Nat, BehindAppended
    <3> QED  BY ONLY <1>2, <2>1, <3>1
  <2>3. a <= Len(d \o c)
    <3>1. Len(d \o c) = Len(d) + Len(c) /\ Len(d) \in Nat /\ Len(c) \in Nat
      BY ONLY <1>1, d \in Seq(Nat)
    <3> QED  BY ONLY <2>1, <3>1, a \in Nat
  <2> QED  BY ONLY <1>1, <1>3, <2>2, <2>3 DEF Stands, c, v
<1>4. CASE h # 0
  <2>1. a = h /\ d = FlattenSeq(CellsOf(u))
    BY ONLY Stands(d, a, u, h), <1>4 DEF Stands
  <2> QED  BY ONLY <1>1, <1>2, <1>4, <2>1 DEF Stands, c, v
<1> QED  BY ONLY <1>3, <1>4

\* A piece in front of the data is in front of the others, if no read was since.
LEMMA StandsInFront ==
    ASSUME NEW d, d \in Seq(Nat), NEW u, NEW h \in Nat, Stands(d, h, u, h), NEW piece \in Pieces
    PROVE  Stands(Cells(piece) \o d, h, <<piece>> \o u, h)
<1> DEFINE c == Cells(piece)
           v == <<piece>> \o u
<1>1. c \in Seq(Nat) /\ u \in Seq(Pieces) /\ v \in Seq(Pieces)
  <2>1. u \in Seq(Pieces)
    BY DEF Stands
  <2> QED  BY <2>1, PieceCells
<1>2. FlattenSeq(CellsOf(v)) = c \o FlattenSeq(CellsOf(u))
  BY <1>1, CellsOfFront
<1> HIDE DEF c, v
<1>3. d = FlattenSeq(CellsOf(u))
  <2>1. CASE h = 0
    <3>1. Behind(d, 0) = FlattenSeq(CellsOf(u))
      BY ONLY Stands(d, h, u, h), <2>1 DEF Stands
    <3> QED  BY ONLY <3>1, d \in Seq(Nat), BehindAll
  <2>2. CASE h # 0
    BY ONLY Stands(d, h, u, h), <2>2 DEF Stands
  <2> QED  BY ONLY <2>1, <2>2
<1>4. c \o d \in Seq(Nat) /\ Len(c \o d) \in Nat /\ c \o d = FlattenSeq(CellsOf(v))
  <2>1. c \o d \in Seq(Nat)
    BY ONLY <1>1, d \in Seq(Nat)
  <2>2. Len(c \o d) \in Nat
    BY ONLY <2>1
  <2> QED  BY ONLY <1>2, <1>3, <2>1, <2>2
<1>5. CASE h = 0
  <2>1. Behind(c \o d, 0) = c \o d /\ 0 <= Len(c \o d)
    BY ONLY <1>4, BehindAll
  <2> QED  BY ONLY <1>1, <1>4, <1>5, <2>1 DEF Stands, c, v
<1>6. CASE h # 0
  BY ONLY <1>1, <1>4, <1>6 DEF Stands, c, v
<1> QED  BY ONLY <1>5, <1>6

\* Two cells in front of the data, after a read: the reads meet the two before the offset.
LEMMA BehindInFront ==
    ASSUME NEW d, d \in Seq(Nat), NEW a \in Nat, a <= Len(d), NEW w, w \in Seq(Nat), Len(w) = 2
    PROVE  LET x == SubSeq(w \o d, a + 1, a + 2)
           IN  x \in Seq(Nat) /\ Len(x) = 2 /\ Behind(w \o d, a) = x \o Behind(d, a)
<1> DEFINE e == w \o d
           x == SubSeq(e, a + 1, a + 2)
           b == Behind(d, a)
           y == Behind(e, a)
<1>1. PICK l \in Nat : l = Len(d) /\ a <= l
  <2>1. Len(d) \in Nat
    OBVIOUS
  <2> QED  BY <2>1
<1>2. e \in Seq(Nat) /\ Len(e) = l + 2 /\ \A i \in 1 .. l : e[2 + i] = d[i]
  <2>1. /\ w \o d \in Seq(Nat) /\ Len(w \o d) = Len(w) + Len(d)
        /\ \A i \in 1 .. Len(d) : (w \o d)[Len(w) + i] = d[i]
    BY ONLY d \in Seq(Nat), w \in Seq(Nat)
  <2>2. 2 + l = l + 2
    OBVIOUS
  <2> QED  BY ONLY <1>1, <2>1, <2>2, Len(w) = 2 DEF e
<1> HIDE DEF e
<1>3. x \in Seq(Nat) /\ Len(x) = 2 /\ x[1] = e[a + 1] /\ x[2] = e[a + 2]
  <2>1. \A i \in a + 1 .. a + 2 : e[i] \in Nat
    <3>1. \A i \in 1 .. l + 2 : e[i] \in Nat
      BY ONLY <1>2
    <3>2. \A i \in a + 1 .. a + 2 : i \in 1 .. l + 2
      BY ONLY <1>1, a \in Nat, l \in Nat
    <3> QED  BY ONLY <3>1, <3>2
  <2>2. a + 1 \in Int /\ a + 2 \in Int /\ a + 1 <= a + 2 /\ (a + 2) - (a + 1) + 1 = 2
        /\ (a + 1) + 1 - 1 = a + 1 /\ (a + 1) + 2 - 1 = a + 2 /\ 1 \in 1 .. 2 /\ 2 \in 1 .. 2
    BY ONLY a \in Nat
  <2>3. /\ x \in Seq(Nat) /\ Len(x) = IF a + 1 <= a + 2 THEN (a + 2) - (a + 1) + 1 ELSE 0
        /\ \A i \in 1 .. (a + 2) - (a + 1) + 1 : x[i] = e[(a + 1) + i - 1]
    BY ONLY <2>1, <2>2, SubSeqProperties DEF x
  <2>4. x[1] = e[(a + 1) + 1 - 1] /\ x[2] = e[(a + 1) + 2 - 1]
    BY ONLY <2>2, <2>3
  <2> QED  BY ONLY <2>2, <2>3, <2>4
<1> HIDE DEF x
<1>4. b \in Seq(Nat) /\ Len(b) = l - a /\ \A i \in 1 .. l - a : b[i] = d[a + i]
  BY ONLY <1>1, d \in Seq(Nat), a \in Nat, BehindIs DEF b
<1>5. y \in Seq(Nat) /\ Len(y) = (l + 2) - a /\ \A i \in 1 .. (l + 2) - a : y[i] = e[a + i]
  <2>1. a <= Len(e)
    BY ONLY <1>1, <1>2, a \in Nat, l \in Nat
  <2>2. y \in Seq(Nat) /\ Len(y) = Len(e) - a /\ \A i \in 1 .. Len(e) - a : y[i] = e[a + i]
    BY ONLY <1>2, <2>1, a \in Nat, BehindIs DEF y
  <2> QED  BY ONLY <1>2, <2>2
<1> HIDE DEF b, y
<1>6. /\ x \o b \in Seq(Nat) /\ Len(x \o b) = Len(y)
      /\ \A i \in 1 .. 2 : (x \o b)[i] = x[i]
      /\ \A i \in 1 .. l - a : (x \o b)[2 + i] = b[i]
  <2>1. /\ x \o b \in Seq(Nat) /\ Len(x \o b) = Len(x) + Len(b)
        /\ \A i \in 1 .. Len(x) : (x \o b)[i] = x[i]
        /\ \A i \in 1 .. Len(b) : (x \o b)[Len(x) + i] = b[i]
    <3>1. x \in Seq(Nat) /\ b \in Seq(Nat)
      BY ONLY <1>3, <1>4, Zenon
    <3> QED  BY ONLY <3>1
  <2>2. 2 + (l - a) = (l + 2) - a
    BY ONLY a \in Nat, l \in Nat
  <2> QED  BY ONLY <1>3, <1>4, <1>5, <2>1, <2>2
<1>7. ASSUME NEW i \in 1 .. Len(y) PROVE y[i] = (x \o b)[i]
  <2>1. i \in 1 .. (l + 2) - a /\ y[i] = e[a + i]
    BY ONLY <1>5, i \in 1 .. Len(y)
  <2>2. CASE i \in 1 .. 2
    <3>1. i = 1 \/ i = 2
      BY ONLY <2>2
    <3> QED  BY ONLY <1>3, <1>6, <2>1, <2>2, <3>1
  <2>3. CASE i \notin 1 .. 2
    <3>1. PICK j \in 1 .. l - a : i = 2 + j
      <4>1. i - 2 \in 1 .. l - a /\ i = 2 + (i - 2)
        BY ONLY <2>1, <2>3, a \in Nat, l \in Nat
      <4> QED  BY ONLY <4>1
    <3>2. a + j \in 1 .. l /\ a + i = 2 + (a + j)
      BY ONLY <3>1, a \in Nat, l \in Nat
    <3>3. y[i] = d[a + j]
      BY ONLY <1>2, <2>1, <3>2
    <3>4. (x \o b)[i] = b[j] /\ b[j] = d[a + j]
      BY ONLY <1>4, <1>6, <3>1
    <3> QED  BY ONLY <3>3, <3>4
  <2> QED  BY ONLY <2>2, <2>3
<1>8. y = x \o b
  <2>1. Len(y) = Len(x \o b)
    BY ONLY <1>6
  <2> QED  BY ONLY <1>5, <1>6, <1>7, <2>1, SeqEqual
<1> QED  BY ONLY <1>3, <1>8 DEF x, y, b, e

LEMMA StandsBehindFront ==
    ASSUME NEW d, d \in Seq(Nat), NEW a \in Nat, NEW u, NEW h \in Nat, Stands(d, a, u, h),
           a # h, NEW w, w \in Seq(Nat), Len(w) = 2
    PROVE  Stands(w \o d, a, <<Rest(SubSeq(w \o d, a + 1, a + 2))>> \o u, h)
<1> DEFINE x == SubSeq(w \o d, a + 1, a + 2)
           v == <<Rest(x)>> \o u
<1>1. h = 0 /\ a <= Len(d) /\ Behind(d, a) = FlattenSeq(CellsOf(u)) /\ u \in Seq(Pieces)
  BY ONLY Stands(d, a, u, h), a # h DEF Stands
<1>2. x \in Seq(Nat) /\ Len(x) = 2 /\ Behind(w \o d, a) = x \o Behind(d, a)
  BY ONLY <1>1, d \in Seq(Nat), a \in Nat, w \in Seq(Nat), Len(w) = 2, BehindInFront
<1> HIDE DEF x
<1>3. Rest(x) \in Pieces /\ Cells(Rest(x)) = x
  <2>1. x # <<>>
    <3>1. Len(<<>>) = 0 /\ 2 # 0
      OBVIOUS
    <3> QED  BY ONLY <1>2, <3>1
  <2>2. Rest(x) \in Pieces
    BY ONLY <1>2, <2>1 DEF Pieces
  <2> QED  BY ONLY <2>2 DEF Cells, Rest
<1>4. FlattenSeq(CellsOf(v)) = x \o FlattenSeq(CellsOf(u))
  BY ONLY <1>1, <1>3, CellsOfFront
<1>5. v \in Seq(Pieces)
  BY ONLY <1>1, <1>3
<1>6. a <= Len(w \o d)
  <2>1. Len(w \o d) = Len(w) + Len(d) /\ Len(d) \in Nat
    BY ONLY d \in Seq(Nat), w \in Seq(Nat)
  <2> QED  BY ONLY <1>1, <2>1, Len(w) = 2, a \in Nat
<1> QED  BY ONLY <1>1, <1>2, <1>4, <1>5, <1>6 DEF Stands, v, x

LEMMA DataFits ==
    ASSUME Fits, PInv
    PROVE  Len(_data) \in WordValues
<1>1. Len(_data) \in Nat /\ Radix * Radix \in Nat /\ MaxCells \in Nat
  BY RadixAssumption DEF PInv
<1>2. Len(_data) <= Radix * Radix - 1
  BY <1>1 DEF Fits, PInv
<1> QED  BY <1>1, <1>2 DEF WordValues

\* A sequence that is not empty is its first piece and the others.
LEMMA FirstPiece ==
    ASSUME NEW u \in Seq(Pieces), u # <<>>
    PROVE  /\ Head(u) \in Pieces /\ Tail(u) \in Seq(Pieces) /\ u = <<Head(u)>> \o Tail(u)
           /\ Len(Tail(u)) = Len(u) - 1
           /\ FlattenSeq(CellsOf(u)) = Cells(Head(u)) \o FlattenSeq(CellsOf(Tail(u)))
<1>1. Head(u) \in Pieces /\ Tail(u) \in Seq(Pieces) /\ Len(Tail(u)) = Len(u) - 1
  BY HeadTailProperties
<1>2. u = <<Head(u)>> \o Tail(u)
  <2>1. <<Head(u)>> \o Tail(u) \in Seq(Pieces)
    BY <1>1
  <2>2. Len(<<Head(u)>> \o Tail(u)) = Len(u)
    BY <1>1
  <2>3. \A i \in 1 .. Len(u) : (<<Head(u)>> \o Tail(u))[i] = u[i]
    BY <1>1
  <2> QED  BY <2>1, <2>2, <2>3, SeqEqual
<1>3. FlattenSeq(CellsOf(<<Head(u)>> \o Tail(u))) = Cells(Head(u)) \o FlattenSeq(CellsOf(Tail(u)))
  BY ONLY <1>1, CellsOfFront
<1> QED  BY ONLY <1>1, <1>2, <1>3

\* The first unread item stands behind the offset, the others behind it.
LEMMA NextItem ==
    ASSUME PInv, ~strayed, ahead = 0, unread # <<>>
    PROVE  /\ Head(unread) \in Pieces /\ Tail(unread) \in Seq(Pieces)
           /\ At(_read_offset, Cells(Head(unread)))
           /\ _read_offset + Len(Cells(Head(unread))) <= Len(_data)
           /\ Behind(_data, _read_offset) =
                  Cells(Head(unread)) \o FlattenSeq(CellsOf(Tail(unread)))
           /\ Behind(_data, _read_offset + Len(Cells(Head(unread)))) =
                  FlattenSeq(CellsOf(Tail(unread)))
<1>1. /\ _data \in Seq(Nat) /\ _read_offset \in Nat /\ _read_offset <= Len(_data)
      /\ unread \in Seq(Pieces) /\ Behind(_data, _read_offset) = FlattenSeq(CellsOf(unread))
  BY DEF PInv, Stands
<1>2. /\ Head(unread) \in Pieces /\ Tail(unread) \in Seq(Pieces)
      /\ FlattenSeq(CellsOf(unread)) = Cells(Head(unread)) \o FlattenSeq(CellsOf(Tail(unread)))
  BY ONLY <1>1, unread # <<>>, FirstPiece
<1> DEFINE c == Cells(Head(unread))
           t == FlattenSeq(CellsOf(Tail(unread)))
<1>3. c \in Seq(Nat) /\ t \in Seq(Nat) /\ Behind(_data, _read_offset) = c \o t
  BY ONLY <1>1, <1>2, PieceCells, CellsOfAre
<1> HIDE DEF c, t
<1>4. /\ At(_read_offset, c) /\ _read_offset + Len(c) <= Len(_data)
      /\ Behind(_data, _read_offset + Len(c)) = t
  BY ONLY <1>1, <1>3, BehindSplit
<1> QED  BY ONLY <1>2, <1>3, <1>4 DEF c, t

\* An embedded packet: its body stands behind its length.
LEMMA NextBody ==
    ASSUME PInv, ~strayed, ahead = 0, NEW v, v \in Seq(Nat), NEW t, t \in Seq(Nat),
           Behind(_data, _read_offset) = TextCells(v) \o t
    PROVE  _read_offset + 2 <= Len(_data) /\ Behind(_data, _read_offset + 2) = v \o t
<1>1. /\ _data \in Seq(Nat) /\ _read_offset \in Nat /\ _read_offset <= Len(_data)
  BY DEF PInv, Stands
<1> DEFINE w == WordCells(Len(v))
<1>2. w \in Seq(Nat) /\ Len(w) = 2 /\ v \o t \in Seq(Nat)
  <2>1. Len(v) \in Nat
    BY ONLY v \in Seq(Nat)
  <2>2. w \in Seq(Nat) /\ Len(w) = 2
    BY ONLY <2>1, WordCellsAre
  <2>3. v \o t \in Seq(Nat)
    BY ONLY v \in Seq(Nat), t \in Seq(Nat), ConcatProperties
  <2> QED  BY ONLY <2>2, <2>3
<1>3. Behind(_data, _read_offset) = (w \o v) \o t
  BY DEF TextCells
<1> HIDE DEF w
<1>4. (w \o v) \o t = w \o (v \o t)
  <2>1. (w \o v) \o t \in {w \o (v \o t)}
    BY ONLY <1>2, v \in Seq(Nat), t \in Seq(Nat), Associative
  <2> QED  BY ONLY <2>1
<1>5. Behind(_data, _read_offset) = w \o (v \o t)
  BY ONLY <1>3, <1>4
<1>6. _read_offset + Len(w) <= Len(_data) /\ Behind(_data, _read_offset + Len(w)) = v \o t
  BY ONLY <1>1, <1>2, <1>5, BehindSplit
<1> QED  BY ONLY <1>2, <1>6

\* With no unread item no data are behind the offset.
LEMMA NoItem ==
    ASSUME PInv, ~strayed, unread = <<>>
    PROVE  _read_offset >= Len(_data)
<1>1. CellsOf(<<>>) = <<>> /\ FlattenSeq(<<>>) = <<>> /\ Len(<<>>) = 0
  BY JoinNone DEF CellsOf
<1>2. _data \in Seq(Nat) /\ _read_offset \in Nat /\ Len(_data) \in Nat
  <2>1. _data \in Seq(Nat) /\ _read_offset \in Nat
    BY DEF PInv
  <2> QED  BY <2>1
<1>3. CASE ahead = 0
  <2>1. _read_offset <= Len(_data) /\ Behind(_data, _read_offset) = <<>>
    BY <1>1, <1>3 DEF PInv, Stands
  <2>2. _read_offset = Len(_data)
    BY ONLY <1>2, <2>1, BehindNone
  <2> QED  BY ONLY <1>2, <2>2
<1>4. CASE ahead # 0
  <2>1. _data = <<>>
    BY <1>1, <1>4 DEF PInv, Stands
  <2> QED  BY ONLY <1>1, <1>2, <2>1
<1> QED  BY <1>3, <1>4

\* Unread items are in the data.
LEMMA SomeItem ==
    ASSUME PInv, ~strayed, unread # <<>>
    PROVE  _data # <<>>
<1>1. PICK c \in Seq(Nat), t \in Seq(Nat) :
          c = Cells(Head(unread)) /\ t = FlattenSeq(CellsOf(Tail(unread)))
          /\ Len(c) \in Nat \ {0} /\ FlattenSeq(CellsOf(unread)) = c \o t
  <2>1. unread \in Seq(Pieces)
    BY DEF PInv, Stands
  <2>2. /\ Head(unread) \in Pieces /\ Tail(unread) \in Seq(Pieces)
        /\ FlattenSeq(CellsOf(unread)) = Cells(Head(unread)) \o FlattenSeq(CellsOf(Tail(unread)))
    BY ONLY <2>1, unread # <<>>, FirstPiece
  <2>3. /\ Cells(Head(unread)) \in Seq(Nat) /\ Len(Cells(Head(unread))) \in Nat \ {0}
        /\ FlattenSeq(CellsOf(Tail(unread))) \in Seq(Nat)
    BY ONLY <2>2, PieceCells, CellsOfAre
  <2> QED  BY ONLY <2>2, <2>3
<1>2. Len(<<>>) = 0 /\ Len(c \o t) # 0
  <2>1. Len(c \o t) = Len(c) + Len(t) /\ Len(t) \in Nat
    BY ONLY c \in Seq(Nat), t \in Seq(Nat)
  <2> QED  BY ONLY <1>1, <2>1
<1>3. CASE ahead = 0
  <2>1. /\ _data \in Seq(Nat) /\ _read_offset \in Nat /\ _read_offset <= Len(_data)
        /\ Behind(_data, _read_offset) = c \o t
    BY <1>1, <1>3 DEF PInv, Stands
  <2>2. Len(c \o t) = Len(_data) - _read_offset /\ Len(_data) \in Nat
    BY ONLY <2>1, BehindIs
  <2>3. Len(_data) # 0
    BY ONLY <1>2, <2>1, <2>2
  <2> QED  BY ONLY <1>2, <2>3
<1>4. CASE ahead # 0
  <2>1. _data = c \o t
    BY <1>1, <1>4 DEF PInv, Stands
  <2> QED  BY ONLY <1>2, <2>1
<1> QED  BY <1>3, <1>4

LEMMA PInit == PacketInit => PInv
<1> SUFFICES ASSUME PacketInit PROVE PInv
  OBVIOUS
<1>1. /\ _data = <<>> /\ _read_offset = 0 /\ unread = <<>> /\ ahead = 0 /\ Len(<<>>) = 0
      /\ MaxCells \in Nat /\ <<>> \in Seq(Nat)
  BY RadixAssumption DEF PacketInit
<1>2. Stands(<<>>, 0, <<>>, 0)
  BY StandsNothing
<1> QED  BY <1>1, <1>2 DEF PInv

LEMMA WriteStep ==
    ASSUME PInv, NEW item \in Items, write(item) \/ write_to_front(item)
    PROVE  PInv' /\ UNCHANGED <<_read_offset, strayed>> /\ _data' # _data
<1>1. /\ _data \in Seq(Nat) /\ Len(_data) \in Nat /\ Len(_data) <= MaxCells
      /\ _read_offset \in Nat /\ ahead \in Nat /\ MaxCells \in Nat
      /\ UNCHANGED <<_read_offset, ahead, strayed>>
  <2>1. /\ _data \in Seq(Nat) /\ Len(_data) <= MaxCells /\ _read_offset \in Nat /\ ahead \in Nat
    BY DEF PInv
  <2>2. Len(_data) \in Nat
    BY ONLY <2>1
  <2>3. UNCHANGED <<_read_offset, ahead, strayed>>
    BY DEF write, write_to_front
  <2> QED  BY ONLY <2>1, <2>2, <2>3, RadixAssumption
<1>2. PICK c \in Seq(Nat), k \in Nat : c = Cells(item) /\ k = Len(c) /\ k >= 2 /\ item \in Pieces
  <2>1. item \in Pieces
    BY DEF Pieces
  <2>2. Cells(item) \in Seq(Nat) /\ Len(Cells(item)) >= 2
    BY CellsAre
  <2>3. Len(Cells(item)) \in Nat
    BY ONLY <2>2
  <2> QED  BY ONLY <2>1, <2>2, <2>3
<1>3. CASE write(item)
  <2>1. _data' = _data \o c /\ unread' = Append(unread, item) /\ Len(_data) + k <= MaxCells
    BY <1>2, <1>3 DEF write
  <2>2. _data' \in Seq(Nat) /\ Len(_data') = Len(_data) + k
    BY ONLY <1>1, <1>2, <2>1
  <2>3. ASSUME ~strayed PROVE Stands(_data', _read_offset', unread', ahead')
    <3>1. Stands(_data, _read_offset, unread, ahead)
      BY <2>3 DEF PInv
    <3>2. Stands(_data \o Cells(item), _read_offset, Append(unread, item), ahead)
      BY ONLY <1>1, <1>2, <3>1, StandsAppended
    <3> QED  BY ONLY <1>1, <1>2, <2>1, <3>2
  <2>4. _data' # _data
    BY ONLY <1>1, <1>2, <2>2
  <2> QED  BY ONLY <1>1, <2>1, <2>2, <2>3, <2>4 DEF PInv
<1>4. CASE write_to_front(item)
  <2>1. /\ c = WordCells(item.value) /\ k = 2
    <3>1. item.kind = "word" /\ item.value \in Nat
      BY <1>4, ItemValues, ValueTypes DEF write_to_front
    <3>2. Cells(item) = WordCells(item.value) /\ Len(WordCells(item.value)) = 2
      BY <3>1, CellsAre, WordCellsAre
    <3> QED  BY ONLY <1>2, <3>2
  <2>2. /\ _data' = c \o _data /\ Len(_data) + 2 <= MaxCells
        /\ unread' = (IF _read_offset = ahead THEN <<item>>
                      ELSE <<Rest(SubSeq(_data', _read_offset + 1, _read_offset + 2))>>) \o unread
    BY <1>4, <2>1 DEF write_to_front
  <2>3. _data' \in Seq(Nat) /\ Len(_data') = 2 + Len(_data)
    <3>1. c \o _data \in Seq(Nat) /\ Len(c \o _data) = Len(c) + Len(_data)
      <4>1. _data \in Seq(Nat)
        BY ONLY <1>1, Zenon
      <4> QED  BY ONLY <4>1, c \in Seq(Nat)
    <3> QED  BY ONLY <1>1, <1>2, <2>1, <2>2, <3>1, Zenon
  <2>4. ASSUME ~strayed PROVE Stands(_data', _read_offset', unread', ahead')
    <3>1. Stands(_data, _read_offset, unread, ahead)
      BY <2>4 DEF PInv
    <3>2. CASE _read_offset = ahead
      <4>1. Stands(Cells(item) \o _data, ahead, <<item>> \o unread, ahead)
        BY ONLY <1>1, <1>2, <3>1, <3>2, StandsInFront
      <4>2. unread' = <<item>> \o unread
        BY ONLY <2>2, <3>2
      <4> QED  BY ONLY <1>1, <1>2, <2>2, <3>2, <4>1, <4>2
    <3>3. CASE _read_offset # ahead
      <4>1. Stands(c \o _data, _read_offset,
                   <<Rest(SubSeq(c \o _data, _read_offset + 1, _read_offset + 2))>> \o unread, ahead)
        BY ONLY <1>1, <1>2, <2>1, <3>1, <3>3, StandsBehindFront
      <4>2. unread' = <<Rest(SubSeq(c \o _data, _read_offset + 1, _read_offset + 2))>> \o unread
        BY ONLY <2>2, <3>3
      <4> QED  BY ONLY <1>1, <2>2, <4>1, <4>2
    <3> QED  BY ONLY <3>2, <3>3
  <2>5. _data' # _data /\ Len(_data') <= MaxCells
    BY ONLY <1>1, <2>2, <2>3
  <2> QED  BY ONLY <1>1, <2>3, <2>4, <2>5 DEF PInv
<1> QED  BY <1>3, <1>4

\* A read of the kind that comes next returns the item, and leaves the others behind the
\* offset, and before them the body of an embedded packet.
LEMMA ReadNext ==
    ASSUME Fits, PInv, ~strayed, ahead = 0, unread # <<>>,
           NEW item, item = Head(unread), item.kind \in Kinds
    PROVE  /\ Read(item.kind).valid /\ ~Read(item.kind).under /\ Read(item.kind).value = item.value
           /\ Stands(_data, Read(item.kind).offset, Left(item) \o Tail(unread), 0)
           /\ Left(item) \o Tail(unread) # unread
<1>1. item \in Pieces
  BY NextItem
<1>2. PICK u \in Seq(Pieces), t \in Seq(Nat) :
          u = Tail(unread) /\ t = FlattenSeq(CellsOf(u)) /\ Len(u) = Len(unread) - 1
          /\ Len(unread) \in Nat
  <2>1. unread \in Seq(Pieces)
    BY DEF PInv, Stands
  <2>2. Tail(unread) \in Seq(Pieces) /\ Len(Tail(unread)) = Len(unread) - 1 /\ Len(unread) \in Nat
    BY ONLY <2>1, unread # <<>>, FirstPiece, LenProperties
  <2>3. FlattenSeq(CellsOf(Tail(unread))) \in Seq(Nat)
    BY ONLY <2>2, CellsOfAre
  <2> QED  BY ONLY <2>2, <2>3, Zenon
<1>3. item \in Items
  BY ONLY <1>1, item.kind \in Kinds DEF Pieces, Rest, Kinds
<1>4. At(_read_offset, Cells(item))
  BY <1>1, NextItem
<1>5. /\ _read_offset + Len(Cells(item)) <= Len(_data)
      /\ Behind(_data, _read_offset) = Cells(item) \o t
      /\ Behind(_data, _read_offset + Len(Cells(item))) = t
  BY <1>1, <1>2, NextItem
<1>6. _data \in Seq(Nat) /\ _read_offset \in Nat /\ Len(_data) \in WordValues
  BY DataFits DEF PInv
<1>7. PICK o : /\ Read(item.kind).valid /\ ~Read(item.kind).under
               /\ Read(item.kind).value = item.value
               /\ Read(item.kind).offset = o
               /\ item.kind # "packet" \/ item.value = <<>> => o = _read_offset + Len(Cells(item))
               /\ item.kind = "packet" => o = _read_offset + 2
  BY ONLY <1>3, <1>4, <1>6, ReadItemAt, Zenon
<1>8. CASE item.kind # "packet" \/ item.value = <<>>
  <2>1. Left(item) = <<>> /\ <<>> \o u = u
    BY <1>8 DEF Left
  <2>2. Stands(_data, o, u, 0)
    <3>1. o = _read_offset + Len(Cells(item))
      BY ONLY <1>7, <1>8
    <3>2. o <= Len(_data) /\ Behind(_data, o) = FlattenSeq(CellsOf(u))
      BY ONLY <1>2, <1>5, <3>1
    <3> QED  BY ONLY <3>2, u \in Seq(Pieces) DEF Stands
  <2>3. u # unread
    <3>1. \A n \in Nat : n - 1 # n
      OBVIOUS
    <3> QED  BY ONLY <1>2, <3>1, Zenon
  <2> QED  BY ONLY <1>2, <1>7, <2>1, <2>2, <2>3, Zenon
<1>9. CASE item.kind = "packet" /\ item.value # <<>>
  <2>1. PICK v \in Seq(Nat) : v = item.value /\ v # <<>>
    BY <1>3, <1>9, ItemValues, ValueTypes
  <2>2. Left(item) = <<Rest(v)>> /\ Rest(v) \in Pieces /\ Cells(Rest(v)) = v
    BY <1>9, <2>1 DEF Left, Pieces, Cells, Rest
  <2>3. Cells(item) = TextCells(v)
    BY <1>3, <1>9, <2>1, CellsAre
  <2>4. _read_offset + 2 <= Len(_data) /\ Behind(_data, _read_offset + 2) = v \o t
    <3>1. Behind(_data, _read_offset) = TextCells(v) \o t
      BY ONLY <1>5, <2>3
    <3> QED  BY <3>1, NextBody
  <2>5. FlattenSeq(CellsOf(<<Rest(v)>> \o u)) = v \o t
    BY ONLY <1>2, <2>2, CellsOfFront
  <2>6. <<Rest(v)>> \o u \in Seq(Pieces)
    BY ONLY <2>2, u \in Seq(Pieces)
  <2>7. Stands(_data, o, <<Rest(v)>> \o u, 0)
    BY ONLY <1>7, <1>9, <2>4, <2>5, <2>6 DEF Stands
  <2>8. <<Rest(v)>> \o u # unread
    <3>1. Head(<<Rest(v)>> \o u) = Rest(v)
      BY ONLY u \in Seq(Pieces)
    <3>2. Rest(v) # item
      BY <1>9 DEF Rest
    <3> QED  BY ONLY <3>1, <3>2, item = Head(unread)
  <2> QED  BY ONLY <1>2, <1>7, <2>2, <2>7, <2>8
<1> QED  BY ONLY <1>8, <1>9

LEMMA ReadStep ==
    ASSUME Fits, PInv, NEW kind \in Kinds, NEW checked \in BOOLEAN, read(kind, checked)
    PROVE  PInv'
<1> DEFINE expected == ahead = 0 /\ unread # <<>> /\ Head(unread).kind = kind
<1>1. /\ _data' = _data /\ _read_offset' = Read(kind).offset /\ ahead' = ahead
      /\ unread' = IF expected THEN Left(Head(unread)) \o Tail(unread) ELSE unread
      /\ strayed' = (strayed \/ (~expected /\ Read(kind).offset # _read_offset))
  BY DEF read
<1>2. /\ _data \in Seq(Nat) /\ Len(_data) <= MaxCells /\ _read_offset \in Nat /\ ahead \in Nat
  BY DEF PInv
<1>3. _read_offset' \in Nat
  BY <1>1, <1>2, ReadType
<1>4. ASSUME ~strayed' PROVE Stands(_data', _read_offset', unread', ahead')
  <2>1. ~strayed
    BY <1>1, <1>4
  <2>2. CASE ~expected
    <3>1. _read_offset' = _read_offset /\ unread' = unread
      BY ONLY <1>1, <1>4, <2>2
    <3>2. Stands(_data, _read_offset, unread, ahead)
      BY <2>1 DEF PInv
    <3> QED  BY ONLY <1>1, <3>1, <3>2
  <2>3. CASE expected
    <3>1. Stands(_data, Read(Head(unread).kind).offset, Left(Head(unread)) \o Tail(unread), 0)
      BY <2>1, <2>3, ReadNext
    <3> QED  BY ONLY <1>1, <2>3, <3>1
  <2> QED  BY ONLY <2>2, <2>3
<1> QED  BY ONLY <1>1, <1>2, <1>3, <1>4 DEF PInv

LEMMA ClearStep == ASSUME PInv, clear PROVE PInv'
<1>1. _data' = <<>> /\ unread' = <<>> /\ _read_offset' = _read_offset /\ ahead' = _read_offset
  BY DEF clear
<1>2. _read_offset \in Nat /\ MaxCells \in Nat /\ Len(<<>>) = 0 /\ <<>> \in Seq(Nat)
  BY RadixAssumption DEF PInv
<1>3. Stands(<<>>, _read_offset, <<>>, _read_offset)
  BY ONLY <1>2, StandsNothing
<1> QED  BY ONLY <1>1, <1>2, <1>3 DEF PInv

LEMMA PStep ==
    ASSUME Fits, PInv, [PacketNext]_packetVars
    PROVE  PInv'
<1>1. CASE UNCHANGED packetVars
  BY <1>1 DEF packetVars, PInv, Stands
<1> QED  BY <1>1, WriteStep, ReadStep, ClearStep DEF PacketNext

LEMMA PInductive == ASSUME Fits PROVE PacketSpec => []PInv
<1>1. PInv /\ [PacketNext]_packetVars => PInv'
  BY PStep
<1> QED  BY <1>1, PInit, PTL DEF PacketSpec

\* The offset is at the first unread item, embedded packets, words written to the front
\* and clears taken as the code takes them, for every set of items, every radix of the
\* cells and every size of the packet whose length fits (read, write, write_to_front and
\* clear, packet.hpp).
THEOREM OffsetIsAtNextItem ==
    ASSUME Fits
    PROVE  PacketSpec => []OffsetAtNextItem
<1>1. ASSUME PInv, ~strayed
      PROVE  Unread = SubSeq(Flat, ahead + 1, Len(Flat))
  <2>1. Unread = Behind(_data, _read_offset) /\ SubSeq(Flat, ahead + 1, Len(Flat)) = Behind(Flat, ahead)
        /\ Flat = FlattenSeq(CellsOf(unread))
    BY DEF Unread, Behind, Flat, CellsOf
  <2>2. Flat \in Seq(Nat)
    <3>1. unread \in Seq(Pieces)
      BY <1>1 DEF PInv, Stands
    <3> QED  BY <2>1, <3>1, CellsOfAre
  <2>3. CASE ahead = 0
    <3>1. Behind(_data, _read_offset) = Flat
      BY <1>1, <2>1, <2>3 DEF PInv, Stands
    <3>2. Behind(Flat, 0) = Flat
      BY ONLY <2>2, BehindAll
    <3> QED  BY ONLY <2>1, <2>3, <3>1, <3>2
  <2>4. CASE ahead # 0
    <3>1. _read_offset = ahead /\ _data = Flat
      BY <1>1, <2>1, <2>4 DEF PInv, Stands
    <3> QED  BY ONLY <2>1, <3>1
  <2> QED  BY ONLY <2>3, <2>4
<1>2. PInv => OffsetAtNextItem
  BY <1>1 DEF OffsetAtNextItem
<1> QED  BY <1>2, PInductive, PTL

LEMMA ReadsBack ==
    ASSUME Fits, PInv, [PacketNext]_packetVars, ~strayed, UNCHANGED _data
    PROVE  IF unread' # unread
           THEN running' /\ got'.valid /\ got'.value = Head(unread).value
           ELSE unread = <<>> => UNCHANGED _read_offset
<1>1. ASSUME NEW kind \in Kinds, NEW checked \in BOOLEAN, read(kind, checked)
      PROVE  IF unread' # unread
             THEN running' /\ got'.valid /\ got'.value = Head(unread).value
             ELSE unread = <<>> => UNCHANGED _read_offset
  <2>1. /\ _read_offset' = Read(kind).offset
        /\ got'.value = Read(kind).value /\ got'.valid = Read(kind).valid
        /\ running' = (checked \/ ~Read(kind).under)
        /\ unread' # unread => ahead = 0 /\ unread # <<>> /\ Head(unread).kind = kind
    BY <1>1 DEF read
  <2>2. CASE unread' # unread
    <3>1. Read(kind).valid /\ ~Read(kind).under /\ Read(kind).value = Head(unread).value
      BY <2>1, <2>2, ReadNext
    <3> QED  BY ONLY <2>1, <2>2, <3>1
  <2>3. ASSUME unread = <<>> PROVE UNCHANGED _read_offset
    <3>1. _data \in Seq(Nat) /\ _read_offset \in Nat /\ _read_offset >= Len(_data)
      BY <2>3, NoItem DEF PInv
    <3>2. Read(kind).offset = _read_offset
      BY ONLY <3>1, kind \in Kinds, ReadAtEnd
    <3> QED  BY ONLY <2>1, <3>2
  <2> QED  BY ONLY <2>2, <2>3
<1>2. ASSUME clear
      PROVE  UNCHANGED <<_read_offset, unread>>
  BY <1>2, SomeItem DEF clear
<1>3. CASE UNCHANGED packetVars
  BY <1>3 DEF packetVars
<1> QED  BY <1>1, <1>2, <1>3, WriteStep DEF PacketNext

\* What was written is what is read, in the order it was written in, and with nothing
\* left to read no read moves the offset (read, packet.hpp lines 184-244).
THEOREM ReadReturnsWhatWasWritten ==
    ASSUME Fits
    PROVE  PacketSpec => ReadsWhatWasWritten
<1>1. PInv /\ [PacketNext]_packetVars =>
          [ ~strayed /\ UNCHANGED _data =>
              IF unread' # unread
              THEN running' /\ got'.valid /\ got'.value = Head(unread).value
              ELSE unread = <<>> => UNCHANGED _read_offset ]_packetVars
  BY ReadsBack
<1> QED  BY <1>1, PInductive, PTL DEF PacketSpec, ReadsWhatWasWritten

-----------------------------------------------------------------------------
(* PacketChannel: a mac can be found only over a message the sender sealed. *)

Cell ==
    ({"plain"} \X Nat \X {0}) \cup ({"cipher"} \X Nat \X Nat) \cup ({"mac"} \X Messages \X Nat)

\* The macs in a sequence of cells are all from a set.
MacsFrom(macs, s) == \A i \in 1 .. Len(s) : s[i][1] = "mac" => s[i] \in macs

\* The macs the sender computed.
Computed == {Mac(sent[k], k - 1) : k \in 1 .. Len(sent)}

CellsInv == wire \in Seq(Cell) /\ stream \in Seq(Cell)

PrefixInv == \A i \in 1 .. Len(delivered) : delivered[i] = sent[i]

\* The inductive invariant: what the receiver can find is a mac the sender computed,
\* over the message whose number it holds as a nonce.
IInv ==
    /\ TypeOK /\ CellsInv /\ PrefixInv
    /\ MacsFrom(Computed, wire) /\ MacsFrom(Computed, stream)

-----------------------------------------------------------------------------
LEMMA MacsFromConcat ==
    ASSUME NEW macs, NEW s \in Seq(Cell), NEW t \in Seq(Cell),
           MacsFrom(macs, s), MacsFrom(macs, t)
    PROVE  s \o t \in Seq(Cell) /\ MacsFrom(macs, s \o t)
BY DEF MacsFrom

LEMMA MacsFromSubSeq ==
    ASSUME NEW macs, NEW s \in Seq(Cell), MacsFrom(macs, s),
           NEW m \in Nat \ {0}, NEW n \in Nat, n <= Len(s)
    PROVE  SubSeq(s, m, n) \in Seq(Cell) /\ MacsFrom(macs, SubSeq(s, m, n))
BY DEF MacsFrom

LEMMA WordHasNoMac ==
    ASSUME NEW n \in Nat, NEW macs
    PROVE  Word(n) \in Seq(Cell) /\ Len(Word(n)) = 2 /\ MacsFrom(macs, Word(n))
<1>1. n % Base \in Nat /\ n \div Base \in Nat
  BY BoundsAssumption
<1>2. Plain(n % Base) \in Cell /\ Plain(n \div Base) \in Cell
  BY <1>1 DEF Plain, Cell
<1>3. Plain(n % Base)[1] # "mac" /\ Plain(n \div Base)[1] # "mac"
  BY DEF Plain
<1> QED  BY <1>2, <1>3 DEF Word, MacsFrom

LEMMA LockedHasNoMac ==
    ASSUME NEW msg \in Messages, NEW nonce \in Nat, NEW macs
    PROVE  Locked(msg, nonce) \in Seq(Cell) /\ MacsFrom(macs, Locked(msg, nonce))
<1>1. msg \in Seq(Nat)
  BY MessagesAssumption
<1>2. \A i \in 1 .. Len(msg) : <<"cipher", msg[i], nonce>> \in Cell
  BY <1>1 DEF Cell
<1> QED  BY <1>1, <1>2 DEF Locked, MacsFrom

\* The packet sent for a message holds one mac, that of the message.
LEMMA PacketHoldsItsMac ==
    ASSUME NEW msg \in Messages, NEW nonce \in Nat, NEW macs, Mac(msg, nonce) \in macs
    PROVE  /\ serialize(Sealed(msg, nonce)) \in Seq(Cell)
           /\ MacsFrom(macs, serialize(Sealed(msg, nonce)))
<1>1. Len(msg) \in Nat
  BY MessagesAssumption
<1>2. <<Mac(msg, nonce)>> \in Seq(Cell) /\ MacsFrom(macs, <<Mac(msg, nonce)>>)
  <2>1. Mac(msg, nonce) \in Cell
    BY DEF Mac, Cell
  <2> QED  BY <2>1 DEF MacsFrom
<1>3. Word(Len(msg)) \in Seq(Cell) /\ MacsFrom(macs, Word(Len(msg)))
  BY <1>1, WordHasNoMac
<1>4. /\ <<Mac(msg, nonce)>> \o Word(Len(msg)) \in Seq(Cell)
      /\ MacsFrom(macs, <<Mac(msg, nonce)>> \o Word(Len(msg)))
  BY <1>2, <1>3, MacsFromConcat
<1>5. Sealed(msg, nonce) \in Seq(Cell) /\ MacsFrom(macs, Sealed(msg, nonce))
  BY <1>4, LockedHasNoMac, MacsFromConcat DEF Sealed
<1>6. Len(Sealed(msg, nonce)) \in Nat
  BY <1>5
<1>7. /\ Word(Len(Sealed(msg, nonce))) \in Seq(Cell)
      /\ MacsFrom(macs, Word(Len(Sealed(msg, nonce))))
  BY <1>6, WordHasNoMac
<1> QED  BY <1>5, <1>7, MacsFromConcat DEF serialize

-----------------------------------------------------------------------------
LEMMA InitI == Init => IInv
<1> SUFFICES ASSUME Init PROVE IInv
  OBVIOUS
<1>1. Len(<<>>) = 0 /\ <<>> \in Seq(Messages) /\ <<>> \in Seq(Cell)
  OBVIOUS
<1>2. TypeOK
  <2>1. MaxSent + 1 \in 0 .. MaxSent + 1 /\ 0 <= MaxSent
    BY BoundsAssumption
  <2>2. /\ sent \in Seq(Messages) /\ delivered \in Seq(Messages)
        /\ _out_counter = Len(sent) /\ _in_counter = Len(delivered)
    BY <1>1 DEF Init
  <2>3. gap \in BOOLEAN
    BY DEF Init
  <2>4. /\ emptyAt \in 0 .. MaxSent + 1
        /\ _in_counter <= _out_counter /\ _out_counter <= MaxSent
    BY <2>1 DEF Init
  <2> QED  BY <2>2, <2>3, <2>4 DEF TypeOK
<1>3. CellsInv /\ PrefixInv
  BY <1>1 DEF Init, CellsInv, PrefixInv
<1>4. MacsFrom(Computed, wire) /\ MacsFrom(Computed, stream)
  BY <1>1 DEF Init, MacsFrom
<1> QED  BY <1>2, <1>3, <1>4 DEF IInv

LEMMA SendI ==
    ASSUME IInv, NEW msg \in Messages, Send(msg)
    PROVE  IInv'
<1>1. /\ sent' = Append(sent, msg) /\ Len(sent') = Len(sent) + 1 /\ sent' \in Seq(Messages)
      /\ _out_counter = Len(sent) /\ Len(sent) \in Nat
      /\ \A k \in 1 .. Len(sent) : sent'[k] = sent[k]
      /\ sent'[Len(sent) + 1] = msg
  BY DEF Send, IInv, TypeOK
<1>2. Computed \subseteq Computed' /\ Mac(msg, _out_counter) \in Computed'
  <2>1. \A k \in 1 .. Len(sent) : Mac(sent[k], k - 1) \in Computed'
    BY <1>1 DEF Computed, Mac
  <2>2. Mac(sent'[Len(sent) + 1], (Len(sent) + 1) - 1) \in Computed'
    BY <1>1 DEF Computed, Mac
  <2>3. (Len(sent) + 1) - 1 = _out_counter
    BY <1>1
  <2> QED  BY <1>1, <2>1, <2>2, <2>3 DEF Computed
<1>3. TypeOK'
  BY <1>1, BoundsAssumption DEF Send, IInv, TypeOK
<1>4. /\ serialize(Sealed(msg, _out_counter)) \in Seq(Cell)
      /\ MacsFrom(Computed', serialize(Sealed(msg, _out_counter)))
  BY <1>1, <1>2, PacketHoldsItsMac
<1>5. MacsFrom(Computed', wire) /\ MacsFrom(Computed', stream)
  BY <1>2 DEF IInv, MacsFrom
<1>6. CellsInv' /\ MacsFrom(Computed', wire') /\ MacsFrom(Computed', stream')
  <2>1. wire' = wire \o serialize(Sealed(msg, _out_counter)) /\ stream' = stream
    BY DEF Send
  <2>2. wire \in Seq(Cell) /\ stream \in Seq(Cell)
    BY DEF IInv, CellsInv
  <2>3. wire' \in Seq(Cell) /\ MacsFrom(Computed', wire')
    BY <1>4, <1>5, <2>1, <2>2, MacsFromConcat
  <2> QED  BY <1>5, <2>1, <2>2, <2>3 DEF CellsInv
<1>7. PrefixInv'
  <2>1. /\ delivered' = delivered /\ Len(delivered) \in Nat
        /\ Len(delivered) <= Len(sent) /\ Len(sent) \in Nat
    BY DEF Send, IInv, TypeOK
  <2>2. \A i \in 1 .. Len(delivered) : delivered[i] = sent[i] /\ i \in 1 .. Len(sent)
    BY <2>1 DEF IInv, PrefixInv
  <2>3. \A i \in 1 .. Len(delivered) : delivered[i] = sent'[i]
    BY <1>1, <2>2
  <2> QED  BY <2>1, <2>3 DEF PrefixInv
<1> QED  BY <1>3, <1>6, <1>7 DEF IInv, MacsFrom

LEMMA SendEmptyI == IInv /\ SendEmpty => IInv'
<1> SUFFICES ASSUME IInv, SendEmpty PROVE IInv'
  OBVIOUS
<1>1. serialize(<<>>) \in Seq(Cell) /\ MacsFrom(Computed, serialize(<<>>))
  <2>1. Len(<<>>) = 0 /\ <<>> \in Seq(Cell) /\ MacsFrom(Computed, <<>>)
    BY DEF MacsFrom
  <2>2. Word(Len(<<>>)) \in Seq(Cell) /\ MacsFrom(Computed, Word(Len(<<>>)))
    BY <2>1, WordHasNoMac
  <2> QED  BY <2>1, <2>2, MacsFromConcat DEF serialize
<1>2. wire' \in Seq(Cell) /\ MacsFrom(Computed, wire')
  BY <1>1, MacsFromConcat DEF SendEmpty, IInv, CellsInv
<1>3. emptyAt' \in 0 .. MaxSent + 1
  BY BoundsAssumption DEF SendEmpty, IInv, TypeOK
<1>4. UNCHANGED <<stream, _out_counter, _in_counter, sent, delivered, gap>>
  BY DEF SendEmpty
<1>5. TypeOK'
  BY <1>3, <1>4 DEF IInv, TypeOK
<1>6. Computed' = Computed
  BY <1>4 DEF Computed
<1>7. MacsFrom(Computed, wire)' /\ MacsFrom(Computed, stream)'
  BY <1>2, <1>4, <1>6 DEF IInv, MacsFrom
<1>8. CellsInv' /\ PrefixInv'
  BY <1>2, <1>4 DEF IInv, CellsInv, PrefixInv
<1> QED  BY <1>5, <1>7, <1>8 DEF IInv

LEMMA ReceiveI == IInv /\ Receive => IInv'
<1> SUFFICES ASSUME IInv, NEW n \in Chunks,
                    stream' = stream \o SubSeq(wire, 1, n),
                    wire' = SubSeq(wire, n + 1, Len(wire)),
                    UNCHANGED <<_out_counter, _in_counter, sent, delivered, emptyAt, gap>>
             PROVE  IInv'
  BY DEF Receive
<1>1. /\ wire \in Seq(Cell) /\ stream \in Seq(Cell) /\ Len(wire) \in Nat
      /\ n \in Nat \ {0} /\ n <= Len(wire)
      /\ MacsFrom(Computed, wire) /\ MacsFrom(Computed, stream)
  BY BoundsAssumption DEF IInv, CellsInv, Chunks
<1>2. SubSeq(wire, 1, n) \in Seq(Cell) /\ MacsFrom(Computed, SubSeq(wire, 1, n))
  BY <1>1, MacsFromSubSeq
<1>3. stream' \in Seq(Cell) /\ MacsFrom(Computed, stream')
  BY <1>1, <1>2, MacsFromConcat
<1>4. wire' \in Seq(Cell) /\ MacsFrom(Computed, wire')
  BY <1>1, MacsFromSubSeq
<1>5. TypeOK' /\ PrefixInv' /\ Computed' = Computed
  BY DEF IInv, TypeOK, PrefixInv, Computed
<1> QED  BY <1>3, <1>4, <1>5 DEF IInv, CellsInv, MacsFrom

LEMMA ReceivePastLimitI == IInv /\ ReceivePastLimit => IInv'
<1> SUFFICES ASSUME IInv, NEW n \in Chunks,
                    wire' = SubSeq(wire, n + 1, Len(wire)), gap' = TRUE,
                    UNCHANGED <<stream, _out_counter, _in_counter, sent, delivered, emptyAt>>
             PROVE  IInv'
  BY DEF ReceivePastLimit
<1>1. /\ wire \in Seq(Cell) /\ Len(wire) \in Nat /\ n \in Nat /\ n <= Len(wire)
      /\ MacsFrom(Computed, wire)
  BY BoundsAssumption DEF IInv, CellsInv, Chunks
<1>2. wire' \in Seq(Cell) /\ MacsFrom(Computed, wire')
  BY <1>1, MacsFromSubSeq
<1>3. TypeOK' /\ PrefixInv' /\ Computed' = Computed
  BY DEF IInv, TypeOK, PrefixInv, Computed
<1> QED  BY <1>2, <1>3 DEF IInv, CellsInv, MacsFrom

-----------------------------------------------------------------------------
\* A text that decrypts under a mac the sender computed is the message it was
\* computed over, the one with the number of the nonce.
LEMMA DecryptedIsSent ==
    ASSUME IInv, NEW mac \in Computed, NEW text, decrypt(mac, text, _in_counter)
    PROVE  /\ Len(delivered) < Len(sent)
           /\ Unlocked(text) = sent[Len(delivered) + 1]
<1>1. PICK k \in 1 .. Len(sent) : mac = Mac(sent[k], k - 1)
  BY DEF Computed
<1>2. mac[3] = k - 1 /\ mac[2] = sent[k]
  BY <1>1 DEF Mac
<1>3. _in_counter = k - 1 /\ text = Locked(sent[k], _in_counter)
  BY <1>2 DEF decrypt
<1>4. /\ Len(delivered) = _in_counter /\ Len(delivered) \in Nat /\ Len(sent) \in Nat
      /\ sent[k] \in Seq(Nat)
  BY MessagesAssumption DEF IInv, TypeOK
<1>5. k = Len(delivered) + 1 /\ Len(delivered) < Len(sent)
  BY <1>3, <1>4
<1>6. Unlocked(Locked(sent[k], _in_counter)) = sent[k]
  <2> DEFINE msg == sent[k]
             lock == Locked(msg, _in_counter)
  <2>1. msg \in Seq(Nat)
    BY <1>4
  <2> HIDE DEF msg
  <2>2. Len(lock) = Len(msg) /\ \A i \in 1 .. Len(msg) : lock[i][2] = msg[i]
    BY <2>1 DEF Locked
  <2>3. Unlocked(lock) = [i \in 1 .. Len(msg) |-> msg[i]]
    BY <2>2 DEF Unlocked
  <2>4. msg = [i \in 1 .. Len(msg) |-> msg[i]]
    BY <2>1
  <2> QED  BY <2>3, <2>4 DEF msg
<1> QED  BY <1>3, <1>5, <1>6

LEMMA OpenI ==
    ASSUME IInv, NEW size \in Numbers, NEW len \in Numbers, Open(size, len)
    PROVE  IInv'
<1> DEFINE body == Body(size)
           text == SubSeq(body, 4, 3 + len)
           good == /\ size >= 3 /\ len \in NumbersIn(Tail(body)) /\ 3 + len <= size
                   /\ decrypt(body[1], text, _in_counter)
<1>1. /\ stream \in Seq(Cell) /\ Len(stream) \in Nat /\ MacsFrom(Computed, stream)
      /\ size \in Nat /\ size + 2 <= Len(stream)
  BY BoundsAssumption
     DEF IInv, CellsInv, Open, Deserializes, Complete, HeaderSize, Numbers
<1>2. stream' \in Seq(Cell) /\ MacsFrom(Computed, stream')
  BY <1>1, MacsFromSubSeq DEF Open, Erased, HeaderSize
<1>3. wire' = wire /\ sent' = sent /\ emptyAt' = emptyAt /\ gap' = gap
      /\ _out_counter' = _out_counter
  BY DEF Open
<1>4. CASE ~good
  <2>1. _in_counter' = _in_counter /\ delivered' = delivered
    BY <1>4 DEF Open, AfterOpening
  <2> QED  BY <1>2, <1>3, <2>1 DEF IInv, TypeOK, CellsInv, PrefixInv, Computed, MacsFrom
<1>5. CASE good
  <2>1. _in_counter' = _in_counter + 1 /\ delivered' = Append(delivered, Unlocked(text))
    BY <1>5 DEF Open, AfterOpening
  <2>2. body[1] \in Computed
    <3>1. body[1] = stream[3] /\ 3 \in 1 .. Len(stream)
      BY <1>1, <1>5 DEF Body, HeaderSize
    <3>2. body[1][1] = "mac"
      BY <1>5 DEF decrypt
    <3> QED  BY <1>1, <3>1, <3>2 DEF MacsFrom
  <2>3. Len(delivered) < Len(sent) /\ Unlocked(text) = sent[Len(delivered) + 1]
    BY <1>5, <2>2, DecryptedIsSent
  <2>4. /\ delivered \in Seq(Messages) /\ sent \in Seq(Messages)
        /\ Len(delivered) = _in_counter /\ Len(sent) = _out_counter
        /\ Len(delivered) \in Nat /\ Len(sent) \in Nat
    BY DEF IInv, TypeOK
  <2>5. delivered' = Append(delivered, sent[Len(delivered) + 1])
    BY <2>1, <2>3
  <2>6. sent[Len(delivered) + 1] \in Messages
    BY <2>3, <2>4
  <2>7. TypeOK'
    BY <1>3, <2>1, <2>3, <2>4, <2>5, <2>6 DEF IInv, TypeOK
  <2>8. PrefixInv'
    BY <1>3, <2>3, <2>4, <2>5, <2>6 DEF IInv, PrefixInv
  <2> QED  BY <1>2, <1>3, <2>7, <2>8 DEF IInv, CellsInv, Computed, MacsFrom
<1> QED  BY <1>4, <1>5

LEMMA NextI == IInv /\ [Next]_vars => IInv'
<1> SUFFICES ASSUME IInv, [Next]_vars PROVE IInv'
  OBVIOUS
<1>1. CASE \E msg \in Messages : Send(msg)
  BY <1>1, SendI
<1>2. CASE SendEmpty
  BY <1>2, SendEmptyI
<1>3. CASE Receive
  BY <1>3, ReceiveI
<1>4. CASE ReceivePastLimit
  BY <1>4, ReceivePastLimitI
<1>5. CASE OpenNext
  BY <1>5, OpenI DEF OpenNext
<1>6. CASE UNCHANGED vars
  BY <1>6 DEF vars, IInv, TypeOK, CellsInv, PrefixInv, Computed, MacsFrom
<1> QED  BY <1>1, <1>2, <1>3, <1>4, <1>5, <1>6 DEF Next

\* Counters and histories keep their types, and the receiver's counter never runs
\* ahead of the sender's (crypto_core, increment_incoming).
THEOREM TypeCorrect == Spec => []TypeOK
<1>1. IInv => TypeOK
  BY DEF IInv
<1> QED  BY InitI, NextI, <1>1, PTL DEF Spec

\* Whatever is lost and however the chunks fall, the messages decrypted are the
\* first ones sent, in order (decrypt_packet under generate_incoming_nonce).
THEOREM Delivery == Spec => []DeliveredInOrder
<1>1. IInv => DeliveredInOrder
  <2> SUFFICES ASSUME IInv PROVE DeliveredInOrder
    OBVIOUS
  <2>1. /\ Len(delivered) \in Nat /\ Len(sent) \in Nat /\ Len(delivered) <= Len(sent)
        /\ delivered \in Seq(Messages) /\ sent \in Seq(Messages)
        /\ \A i \in 1 .. Len(delivered) : delivered[i] = sent[i]
    BY DEF IInv, TypeOK, PrefixInv
  <2>2. SubSeq(delivered, 1, Len(delivered)) = SubSeq(sent, 1, Len(delivered))
    BY <2>1
  <2> QED  BY <2>1, <2>2 DEF DeliveredInOrder, IsPrefix
<1> QED  BY InitI, NextI, <1>1, PTL DEF Spec

-----------------------------------------------------------------------------
(* Handshake: every random key is in one place, with its own public key beside *)
(* it; the agreement of two handshakes compares two pairs of keys.             *)

\* Next to a random key stands its public key, and the random source has returned it.
KeysMatch ==
    \A h \in Handshakes : hs[h]._private # Zero =>
        hs[h]._public = {hs[h]._private} /\ hs[h]._private \in used

HInv == HandshakeTypeOK /\ KeysMatch /\ ValidSecretIsOwn /\ OneHome

\* The types of what is written into the memory of a handshake.
LEMMA MemoryTypes ==
    /\ \A k \in PrivateKeys, p \in Points : Secret(k, p) \in SUBSET SUBSET PrivateKeys
    /\ \A k \in PrivateKeys : NewHandshake(k) \in
          [_private : PrivateKeys, _public : Points,
           _shared_secret : SUBSET SUBSET PrivateKeys, _is_shared_valid : BOOLEAN]
    /\ Zeros \in [_private : PrivateKeys, _public : Points,
                  _shared_secret : SUBSET SUBSET PrivateKeys, _is_shared_valid : BOOLEAN]
<1>1. \A k \in PrivateKeys, p \in Points : Secret(k, p) \in SUBSET SUBSET PrivateKeys
  BY DEF Secret, Hash, Points, NoPoint
<1>2. \A k \in PrivateKeys : {k} \in Points  BY DEF Points
<1>3. Zero \in PrivateKeys /\ NoPoint \in Points /\ NoSecret \in SUBSET SUBSET PrivateKeys
  BY DEF PrivateKeys, Points, NoSecret
<1> QED BY <1>1, <1>2, <1>3 DEF NewHandshake, Zeros, _generate_public

LEMMA HandshakeStep == ASSUME HInv, HandshakeNext PROVE HInv'
<1> USE ZeroAssumption DEF HInv
<1>1. ASSUME NEW h \in Handshakes, Construct(h) PROVE HInv'
  <2>1. PICK k \in PrivateKeys :
            /\ hs' = [hs EXCEPT ![h] = NewHandshake(k)]
            /\ \/ k = Zero /\ used' = used
               \/ k \in RandomKeys \ used /\ used' = used \cup {k}
    BY <1>1 DEF Construct, PrivateKeys
  <2>2. HandshakeTypeOK'  BY <1>1, <2>1, MemoryTypes DEF HandshakeTypeOK, Construct
  <2>3. KeysMatch'  BY <1>1, <2>1 DEF KeysMatch, HandshakeTypeOK, NewHandshake, _generate_public
  <2>4. ValidSecretIsOwn'
    BY <1>1, <2>1 DEF ValidSecretIsOwn, HandshakeTypeOK, Construct, NewHandshake
  <2>5. OneHome'
    BY <1>1, <2>1 DEF OneHome, KeysMatch, HandshakeTypeOK, Construct, NewHandshake
  <2> QED BY <2>2, <2>3, <2>4, <2>5
<1>2. ASSUME NEW h \in Handshakes, Destroy(h) PROVE HInv'
  <2>1. HandshakeTypeOK'  BY <1>2, MemoryTypes DEF HandshakeTypeOK, Destroy, Wiped
  <2>2. KeysMatch'  BY <1>2 DEF KeysMatch, HandshakeTypeOK, Destroy, Wiped, Zeros
  <2>3. ValidSecretIsOwn'  BY <1>2 DEF ValidSecretIsOwn, HandshakeTypeOK, Destroy, Wiped, Zeros
  <2>4. OneHome'  BY <1>2 DEF OneHome, HandshakeTypeOK, Destroy, Wiped, Zeros
  <2> QED BY <2>1, <2>2, <2>3, <2>4
<1>3. ASSUME NEW h \in Handshakes, NEW from \in Handshakes, Move(h, from) PROVE HInv'
  <2>1. HandshakeTypeOK'  BY <1>3, MemoryTypes DEF HandshakeTypeOK, Move, Wiped
  <2>2. KeysMatch'  BY <1>3 DEF KeysMatch, HandshakeTypeOK, Move, Wiped, Zeros
  <2>3. ValidSecretIsOwn'  BY <1>3 DEF ValidSecretIsOwn, HandshakeTypeOK, Move, Wiped, Zeros
  <2>4. OneHome'  BY <1>3 DEF OneHome, HandshakeTypeOK, Move, Wiped, Zeros
  <2> QED BY <2>1, <2>2, <2>3, <2>4
<1>4. ASSUME NEW h \in Handshakes, NEW p \in Points, generate_shared_secret(h, p) PROVE HInv'
  <2>1. hs[h]._private \in PrivateKeys  BY DEF HandshakeTypeOK
  <2>2. HandshakeTypeOK'  BY <1>4, <2>1, MemoryTypes DEF HandshakeTypeOK, generate_shared_secret
  <2>3. KeysMatch'  BY <1>4 DEF KeysMatch, HandshakeTypeOK, generate_shared_secret
  <2>4. ValidSecretIsOwn'  BY <1>4 DEF ValidSecretIsOwn, HandshakeTypeOK, generate_shared_secret
  <2>5. OneHome'  BY <1>4 DEF OneHome, HandshakeTypeOK, generate_shared_secret
  <2> QED BY <2>2, <2>3, <2>4, <2>5
<1>5. {{k} : k \in used \cup {Zero}} \cup {NoPoint} \subseteq Points
  BY DEF HandshakeTypeOK, Points, PrivateKeys
<1> QED BY <1>1, <1>2, <1>3, <1>4, <1>5 DEF HandshakeNext

\* The inductive invariant holds in every reachable state.
LEMMA HandshakeInvariance == HandshakeSpec => []HInv
<1>1. HandshakeInit => HInv
  <2> SUFFICES ASSUME HandshakeInit PROVE HInv  OBVIOUS
  <2>1. HandshakeTypeOK  BY MemoryTypes DEF HandshakeInit, HandshakeTypeOK, Points
  <2>2. KeysMatch /\ ValidSecretIsOwn /\ OneHome
    BY DEF HandshakeInit, Zeros, KeysMatch, ValidSecretIsOwn, OneHome
  <2> QED BY <2>1, <2>2 DEF HInv
<1>2. HInv /\ [HandshakeNext]_handshakeVars => HInv'
  <2> SUFFICES ASSUME HInv, [HandshakeNext]_handshakeVars PROVE HInv'  OBVIOUS
  <2>1. CASE HandshakeNext  BY <2>1, HandshakeStep
  <2>2. CASE UNCHANGED handshakeVars
    BY <2>2 DEF HInv, HandshakeTypeOK, KeysMatch, ValidSecretIsOwn, OneHome, handshakeVars
  <2> QED BY <2>1, <2>2
<1> QED BY <1>1, <1>2, PTL DEF HandshakeSpec

\* A random private key stays in the one handshake that is alive with it.
THEOREM KeysHaveOneHome == HandshakeSpec => []OneHome
<1>1. HInv => OneHome  BY DEF HInv
<1> QED BY <1>1, HandshakeInvariance, PTL

\* What is_shared_valid() vouches for was made with the key the handshake has now.
THEOREM SecretsAreOwn == HandshakeSpec => []ValidSecretIsOwn
<1>1. HInv => ValidSecretIsOwn  BY DEF HInv
<1> QED BY <1>1, HandshakeInvariance, PTL

\* Any number of handshakes, moved, destroyed and rekeyed in any order, agree on a secret
\* exactly when each used the other's present public key.
THEOREM HandshakesAgree == HandshakeSpec => []Agreement
<1>1. ASSUME HInv PROVE Agreement
  <2> SUFFICES ASSUME NEW g \in Handshakes, NEW h \in Handshakes,
                      g # h, Proper(g), Proper(h)
               PROVE  hs[g]._shared_secret = hs[h]._shared_secret <=>
                          madeWith[g] = hs[h]._public /\ madeWith[h] = hs[g]._public
    BY DEF Agreement
  <2>1. PICK x, y : madeWith[g] = {x} /\ madeWith[h] = {y}
    <3>1. madeWith[g] \in Points \ {NoPoint} /\ madeWith[h] \in Points \ {NoPoint}
      BY <1>1 DEF HInv, HandshakeTypeOK, Proper
    <3> QED BY <3>1 DEF Points
  <2>2. hs[g]._private # hs[h]._private  BY <1>1 DEF HInv, OneHome, Proper
  <2>3. /\ hs[g]._shared_secret = {{hs[g]._private, x}}
        /\ hs[h]._shared_secret = {{hs[h]._private, y}}
    BY <1>1, <2>1 DEF HInv, ValidSecretIsOwn, Proper, Secret, Hash, NoPoint
  <2>4. hs[g]._public = {hs[g]._private} /\ hs[h]._public = {hs[h]._private}
    BY <1>1 DEF HInv, KeysMatch, Proper
  <2>5. hs[g]._shared_secret = hs[h]._shared_secret <=>
            x = hs[h]._private /\ y = hs[g]._private
    <3>1. hs[g]._shared_secret = hs[h]._shared_secret <=>
              {hs[g]._private, x} = {hs[h]._private, y}
      BY <2>3
    <3> QED BY <2>2, <3>1
  <2> QED BY <2>1, <2>4, <2>5
<1> QED BY <1>1, HandshakeInvariance, PTL
=============================================================================
