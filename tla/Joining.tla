------------------------------ MODULE Joining ------------------------------
(***************************************************************************)
(* Lemmas for the other modules' proofs: induction up to a number,         *)
(* functions that are computed one value after the other, and sequences    *)
(* joined out of sequences.                                                *)
(***************************************************************************)
EXTENDS Integers, Sequences, SequencesExt, SequenceTheorems, WellFoundedInduction, TLAPS

-----------------------------------------------------------------------------
(* Induction, and functions that are computed from their last value. *)

LEMMA LeastElement ==
    ASSUME NEW S \in SUBSET Nat, S # {}
    PROVE  \E m \in S : \A n \in S : m <= n
<1> DEFINE R == OpToRel(<, Nat)
<1>1. IsWellFoundedOn(R, Nat)
  BY NatLessThanWellFounded
<1>2. \A x, y \in Nat : x < y => <<x, y>> \in R
  BY DEF OpToRel
<1> HIDE DEF R
<1>3. PICK x \in S : \A y \in S : <<y, x>> \notin R
  BY <1>1, WFMin
<1>4. ASSUME NEW n \in S PROVE x <= n
  <2>1. x \in Nat /\ n \in Nat
    OBVIOUS
  <2>2. ~(n < x)
    BY <1>2, <1>3, <2>1
  <2> QED  BY <2>1, <2>2
<1> QED  BY <1>4

LEMMA Induction ==
    ASSUME NEW n \in Nat, NEW S, 0 \in S, \A i \in 1 .. n : i - 1 \in S => i \in S
    PROVE  0 .. n \subseteq S
<1> DEFINE missing == (0 .. n) \ S
<1> SUFFICES ASSUME missing # {} PROVE FALSE
  OBVIOUS
<1>1. missing \in SUBSET Nat
  OBVIOUS
<1>2. PICK x \in missing : \A y \in missing : x <= y
  <2> HIDE DEF missing
  <2> QED  BY <1>1, LeastElement
<1>3. x \in 1 .. n
  BY <1>2
<1>4. x - 1 \in 0 .. n /\ ~(x <= x - 1)
  BY <1>3
<1>5. x - 1 \in S
  BY <1>2, <1>4
<1> QED  BY <1>2, <1>3, <1>5

\* h computes its values in D from base, each from the one before.
Computes(h, D, n, base, step) ==
    h \in [0 .. n -> D] /\ h[0] = base /\ \A i \in 1 .. n : h[i] = step[<<h[i - 1], i>>]

LEMMA Recursion ==
    ASSUME NEW D, NEW n \in Nat, NEW b \in D, NEW step \in [D \X (1 .. n) -> D]
    PROVE  \E h : Computes(h, D, n, b, step)
<1> DEFINE Upto(m) == \E h \in [0 .. m -> D] :
                          h[0] = b /\ \A i \in 1 .. m : h[i] = step[<<h[i - 1], i>>]
           S == {m \in 0 .. n : Upto(m)}
<1>1. Upto(0)
  <2> DEFINE h == [i \in 0 .. 0 |-> b]
  <2>1. h \in [0 .. 0 -> D] /\ h[0] = b /\ \A i \in 1 .. 0 : h[i] = step[<<h[i - 1], i>>]
    OBVIOUS
  <2> QED  BY <2>1
<1>2. ASSUME NEW m \in 1 .. n, Upto(m - 1)
      PROVE  Upto(m)
  <2>1. PICK g \in [0 .. m - 1 -> D] :
            g[0] = b /\ \A i \in 1 .. m - 1 : g[i] = step[<<g[i - 1], i>>]
    BY <1>2
  <2> DEFINE h == [i \in 0 .. m |-> IF i = m THEN step[<<g[m - 1], m>>] ELSE g[i]]
  <2>2. g[m - 1] \in D /\ step[<<g[m - 1], m>>] \in D
    BY <2>1
  <2>3. h \in [0 .. m -> D] /\ h[0] = b
    BY <2>1, <2>2
  <2>4. ASSUME NEW i \in 1 .. m
        PROVE  h[i] = step[<<h[i - 1], i>>]
    <3>1. h[i - 1] = g[i - 1]
      OBVIOUS
    <3>2. CASE i = m
      <4>1. h[m] = step[<<g[m - 1], m>>]
        OBVIOUS
      <4> QED  BY <3>1, <3>2, <4>1
    <3>3. CASE i # m
      <4>1. i \in 1 .. m - 1
        BY <3>3
      <4>2. h[i] = g[i]
        BY <3>3
      <4> QED  BY <2>1, <3>1, <4>1, <4>2
    <3> QED  BY <3>2, <3>3
  <2> QED  BY <2>3, <2>4
<1>3. 0 \in S
  BY <1>1
<1>4. \A i \in 1 .. n : i - 1 \in S => i \in S
  <2> HIDE DEF Upto
  <2> QED  BY <1>2
<1>5. 0 .. n \subseteq S
  <2> HIDE DEF S
  <2> QED  BY <1>3, <1>4, Induction
<1>6. Upto(n)
  <2> HIDE DEF Upto
  <2>1. n \in 0 .. n
    OBVIOUS
  <2> QED  BY ONLY <1>5, <2>1
<1> QED  BY ONLY <1>6 DEF Computes

-----------------------------------------------------------------------------
(* Sequences and what is joined out of them. *)

\* Two sequences joined.
LEMMA Concatenated ==
    ASSUME NEW T, NEW s \in Seq(T), NEW t \in Seq(T)
    PROVE  /\ s \o t \in Seq(T) /\ Len(s \o t) = Len(s) + Len(t)
           /\ \A i \in 1 .. Len(s) : (s \o t)[i] = s[i]
           /\ \A i \in 1 .. Len(t) : (s \o t)[Len(s) + i] = t[i]
<1>1. s \o t \in Seq(T) /\ Len(s \o t) = Len(s) + Len(t)
  BY ConcatProperties
<1>2. \A i \in 1 .. Len(s) : (s \o t)[i] = s[i]
  OBVIOUS
<1>3. \A i \in 1 .. Len(t) : (s \o t)[Len(s) + i] = t[i]
  OBVIOUS
<1> QED  BY ONLY <1>1, <1>2, <1>3

\* Joining is associative: stated as a membership, which the provers instantiate for
\* any T where they do not find the instance of an equation.
LEMMA Associative ==
    ASSUME NEW T, NEW s \in Seq(T), NEW t \in Seq(T), NEW u \in Seq(T)
    PROVE  (s \o t) \o u \in {s \o (t \o u)}
<1> DEFINE left == (s \o t) \o u
           right == s \o (t \o u)
<1>1. s \o t \in Seq(T) /\ t \o u \in Seq(T)
  BY ConcatProperties
<1>2. left \in Seq(T) /\ right \in Seq(T)
  BY <1>1, ConcatProperties
<1>3. Len(left) = Len(right)
  BY <1>1
<1>4. \A i \in 1 .. Len(left) : left[i] = right[i]
  BY <1>1
<1> HIDE DEF left, right
<1>5. left = right
  BY ONLY <1>2, <1>3, <1>4, SeqEqual
<1> QED  BY <1>5 DEF left, right

\* FlattenSeq joins the sequences one after the other.
LEMMA Joins ==
    ASSUME NEW T, NEW ss \in Seq(Seq(T))
    PROVE  \E f \in [0 .. Len(ss) -> Seq(T)] :
               /\ f[0] = <<>> /\ f[Len(ss)] = FlattenSeq(ss)
               /\ \A i \in 1 .. Len(ss) : f[i] = f[i - 1] \o ss[i]
<1> DEFINE n == Len(ss)
           step == [x \in Seq(T) \X (1 .. n) |-> x[1] \o ss[x[2]]]
<1>1. n \in Nat /\ \A i \in 1 .. n : ss[i] \in Seq(T)
  OBVIOUS
<1>2. step \in [Seq(T) \X (1 .. n) -> Seq(T)]
  BY <1>1
<1>3. PICK f \in [0 .. n -> Seq(T)] :
          f[0] = <<>> /\ \A i \in 1 .. n : f[i] = step[<<f[i - 1], i>>]
  <2> DEFINE D == Seq(T)
             b == <<>>
  <2>1. b \in D
    OBVIOUS
  <2>2. step \in [D \X (1 .. n) -> D]
    BY <1>2
  <2>3. \E f : Computes(f, D, n, b, step)
    <3> HIDE DEF step, n, D, b
    <3>1. n \in Nat
      BY <1>1
    <3> QED  BY ONLY <2>1, <2>2, <3>1, Recursion
  <2> QED  BY <2>3 DEF Computes
<1>4. ASSUME NEW i \in 1 .. n
      PROVE  f[i] = f[i - 1] \o ss[i]
  <2>1. f[i - 1] \in Seq(T)
    <3> HIDE DEF step, n
    <3>1. i - 1 \in 0 .. n
      BY <1>1
    <3> QED  BY <1>3, <3>1
  <2>2. step[<<f[i - 1], i>>] = f[i - 1] \o ss[i]
    BY <2>1
  <2> QED  BY <1>3, <2>2
<1>5. CASE n = 0
  <2>1. FlattenSeq(ss) = <<>>
    BY <1>5 DEF FlattenSeq
  <2> QED  BY <1>3, <1>4, <1>5, <2>1
<1>6. CASE n # 0
  <2> DEFINE Joined(g) == [i \in 1 .. n |-> IF i = 1 THEN ss[i] ELSE g[i - 1] \o ss[i]]
             c == CHOOSE g : g = Joined(g)
             h == [i \in 1 .. n |-> f[i]]
  <2>1. h = Joined(h)
    <3>1. ASSUME NEW i \in 1 .. n
          PROVE  h[i] = IF i = 1 THEN ss[i] ELSE h[i - 1] \o ss[i]
      <4>1. CASE i = 1
        <5>1. f[i] = f[0] \o ss[i] /\ ss[i] \in Seq(T)
          <6>1. f[i] = f[i - 1] \o ss[i] /\ ss[i] \in Seq(T)
            BY <1>1, <1>4
          <6>2. i - 1 = 0
            BY <4>1
          <6> QED  BY <6>1, <6>2
        <5>2. f[0] \o ss[i] = ss[i]
          BY <1>3, <5>1
        <5> QED  BY <4>1, <5>1, <5>2
      <4>2. CASE i # 1
        <5>1. i - 1 \in 1 .. n
          BY <1>1, <4>2
        <5> QED  BY <1>4, <4>2, <5>1
      <4> QED  BY <4>1, <4>2
    <3> QED  BY <3>1
  <2>2. c = Joined(c)
    <3> HIDE DEF Joined, h
    <3> QED  BY <2>1
  <2>3. \A i \in 1 .. n : c[i] = IF i = 1 THEN ss[i] ELSE c[i - 1] \o ss[i]
    <3> HIDE DEF c
    <3> QED  BY <2>2
  <2> DEFINE S == {i \in 0 .. n : i = 0 \/ c[i] = f[i]}
  <2>4. \A i \in 1 .. n : i - 1 \in S => i \in S
    <3> HIDE DEF c
    <3> SUFFICES ASSUME NEW i \in 1 .. n, i - 1 \in S PROVE c[i] = f[i]
      BY <1>1
    <3>1. CASE i = 1
      <4>1. f[i] = f[0] \o ss[i] /\ ss[i] \in Seq(T)
        <5>1. f[i] = f[i - 1] \o ss[i] /\ ss[i] \in Seq(T)
          BY <1>1, <1>4
        <5>2. i - 1 = 0
          BY <3>1
        <5> QED  BY <5>1, <5>2
      <4>2. f[0] \o ss[i] = ss[i]
        BY <1>3, <4>1
      <4> QED  BY <2>3, <3>1, <4>1, <4>2
    <3>2. CASE i # 1
      <4>1. c[i - 1] = f[i - 1]
        BY <3>2
      <4>2. c[i] = c[i - 1] \o ss[i]
        BY ONLY <2>3, <3>2, i \in 1 .. n
      <4>3. f[i] = f[i - 1] \o ss[i]
        BY <1>4
      <4> QED  BY ONLY <4>1, <4>2, <4>3
    <3> QED  BY <3>1, <3>2
  <2>5. 0 .. n \subseteq S
    <3>1. 0 \in S
      BY <1>1
    <3> HIDE DEF S
    <3> QED  BY <1>1, <2>4, <3>1, Induction
  <2>6. c[n] = f[n]
    <3>1. n \in 0 .. n
      BY <1>1
    <3> HIDE DEF c, n
    <3> QED  BY <1>6, <2>5, <3>1
  <2>7. FlattenSeq(ss) = c[n]
    BY <1>6 DEF FlattenSeq
  <2> QED  BY <1>3, <1>4, <2>6, <2>7
<1> QED  BY <1>5, <1>6

\* Joining nothing, one more sequence behind, and one more in front.
LEMMA JoinNone == FlattenSeq(<<>>) = <<>>
BY DEF FlattenSeq

LEMMA JoinAppend ==
    ASSUME NEW T, NEW ss \in Seq(Seq(T)), NEW s \in Seq(T)
    PROVE  FlattenSeq(Append(ss, s)) = FlattenSeq(ss) \o s
<1> DEFINE n == Len(ss)
           tt == Append(ss, s)
<1>1. /\ n \in Nat /\ tt \in Seq(Seq(T)) /\ Len(tt) = n + 1
      /\ tt[n + 1] = s /\ \A i \in 1 .. n : tt[i] = ss[i]
  OBVIOUS
<1>2. PICK f \in [0 .. n -> Seq(T)] :
          /\ f[0] = <<>> /\ f[n] = FlattenSeq(ss)
          /\ \A i \in 1 .. n : f[i] = f[i - 1] \o ss[i]
  BY Joins
<1>3. PICK g \in [0 .. n + 1 -> Seq(T)] :
          /\ g[0] = <<>> /\ g[n + 1] = FlattenSeq(tt)
          /\ \A i \in 1 .. n + 1 : g[i] = g[i - 1] \o tt[i]
  <2> HIDE DEF tt, n
  <2>1. tt \in Seq(Seq(T)) /\ Len(tt) = n + 1
    BY <1>1
  <2>2. \E g \in [0 .. Len(tt) -> Seq(T)] :
            /\ g[0] = <<>> /\ g[Len(tt)] = FlattenSeq(tt)
            /\ \A i \in 1 .. Len(tt) : g[i] = g[i - 1] \o tt[i]
    BY ONLY <2>1, Joins, Zenon
  <2> QED  BY <2>1, <2>2
<1> HIDE DEF tt, n
<1> DEFINE S == {i \in 0 .. n : g[i] = f[i]}
<1>4. 0 \in S
  BY <1>1, <1>2, <1>3
<1>5. ASSUME NEW i \in 1 .. n, i - 1 \in S
      PROVE  i \in S
  <2>1. i \in 1 .. n + 1 /\ i \in 0 .. n
    BY <1>1
  <2>2. g[i] = g[i - 1] \o ss[i] /\ f[i] = f[i - 1] \o ss[i]
    BY <1>1, <1>2, <1>3, <2>1
  <2> QED  BY <1>5, <2>1, <2>2
<1>6. 0 .. n \subseteq S
  <2> HIDE DEF S
  <2> QED  BY <1>1, <1>4, <1>5, Induction
<1>7. g[n] = f[n]
  BY <1>1, <1>6
<1>8. g[n + 1] = g[n] \o s
  <2>0. n \in Nat
    BY <1>1
  <2>1. n + 1 \in 1 .. n + 1 /\ (n + 1) - 1 = n
    BY ONLY <2>0
  <2> QED  BY <1>1, <1>3, <2>1
<1> QED  BY <1>2, <1>3, <1>7, <1>8 DEF tt

LEMMA JoinFront ==
    ASSUME NEW T, NEW ss \in Seq(Seq(T)), NEW s \in Seq(T)
    PROVE  FlattenSeq(<<s>> \o ss) = s \o FlattenSeq(ss)
<1> DEFINE n == Len(ss)
           tt == <<s>> \o ss
<1>1. /\ n \in Nat /\ tt \in Seq(Seq(T)) /\ Len(tt) = n + 1
      /\ tt[1] = s /\ \A i \in 1 .. n : ss[i] \in Seq(T) /\ tt[i + 1] = ss[i]
  OBVIOUS
<1>2. PICK f \in [0 .. n -> Seq(T)] :
          /\ f[0] = <<>> /\ f[n] = FlattenSeq(ss)
          /\ \A i \in 1 .. n : f[i] = f[i - 1] \o ss[i]
  BY Joins
<1>3. PICK g \in [0 .. n + 1 -> Seq(T)] :
          /\ g[0] = <<>> /\ g[n + 1] = FlattenSeq(tt)
          /\ \A i \in 1 .. n + 1 : g[i] = g[i - 1] \o tt[i]
  <2> HIDE DEF tt, n
  <2>1. tt \in Seq(Seq(T)) /\ Len(tt) = n + 1
    BY <1>1
  <2>2. \E g \in [0 .. Len(tt) -> Seq(T)] :
            /\ g[0] = <<>> /\ g[Len(tt)] = FlattenSeq(tt)
            /\ \A i \in 1 .. Len(tt) : g[i] = g[i - 1] \o tt[i]
    BY ONLY <2>1, Joins, Zenon
  <2> QED  BY <2>1, <2>2
<1> HIDE DEF tt, n
<1> DEFINE S == {i \in 0 .. n : g[i + 1] = s \o f[i]}
<1>4. 0 \in S
  <2>1. 1 \in 1 .. n + 1 /\ 0 \in 0 .. n
    BY <1>1
  <2>2. g[1] = g[0] \o tt[1]
    <3>1. ASSUME NEW i \in 1 .. n + 1, i = 1
          PROVE  g[i] = g[0] \o tt[i]
      <4>1. g[i] = g[i - 1] \o tt[i]
        BY <1>3
      <4>2. i - 1 = 0
        BY ONLY <3>1
      <4> QED  BY <4>1, <4>2
    <3> QED  BY <2>1, <3>1
  <2>3. g[1] = <<>> \o s
    BY <1>1, <1>3, <2>2
  <2>4. <<>> \o s = s \o <<>>
    OBVIOUS
  <2> QED  BY <1>2, <2>1, <2>3, <2>4
<1>5. ASSUME NEW i \in 1 .. n, i - 1 \in S
      PROVE  i \in S
  <2>1. i + 1 \in 1 .. n + 1 /\ i \in 0 .. n /\ i - 1 \in 0 .. n /\ (i + 1) - 1 = i /\ (i - 1) + 1 = i
    BY <1>1
  <2>2. g[i + 1] = g[i] \o ss[i] /\ f[i] = f[i - 1] \o ss[i]
    BY <1>1, <1>2, <1>3, <2>1
  <2>3. g[i] = s \o f[i - 1]
    BY <1>5, <2>1
  <2>4. f[i - 1] \in Seq(T) /\ ss[i] \in Seq(T)
    BY <1>1, <1>2, <2>1
  <2>5. (s \o f[i - 1]) \o ss[i] = s \o (f[i - 1] \o ss[i])
    <3>1. PICK a \in Seq(T), b \in Seq(T) : a = f[i - 1] /\ b = ss[i]
      BY <2>4
    <3>2. (s \o a) \o b = s \o (a \o b)
      <4>1. s \in Seq(T) /\ a \in Seq(T) /\ b \in Seq(T)
        OBVIOUS
      <4>2. (s \o a) \o b \in {s \o (a \o b)}
        BY ONLY <4>1, Associative, Zenon
      <4> QED  BY ONLY <4>2
    <3> QED  BY ONLY <3>1, <3>2
  <2> QED  BY <2>1, <2>2, <2>3, <2>5
<1>6. 0 .. n \subseteq S
  <2> HIDE DEF S
  <2> QED  BY <1>1, <1>4, <1>5, Induction
<1>7. g[n + 1] = s \o f[n]
  <2>1. n \in 0 .. n
    BY <1>1
  <2>2. n \in S
    BY ONLY <1>6, <2>1
  <2> QED  BY ONLY <2>2
<1> QED  BY <1>2, <1>3, <1>7 DEF tt

LEMMA JoinType ==
    ASSUME NEW T, NEW ss \in Seq(Seq(T))
    PROVE  FlattenSeq(ss) \in Seq(T)
<1>1. Len(ss) \in 0 .. Len(ss)
  <2>1. Len(ss) \in Nat
    OBVIOUS
  <2> QED  BY <2>1
<1>2. PICK f \in [0 .. Len(ss) -> Seq(T)] : f[Len(ss)] = FlattenSeq(ss)
  BY Joins, Zenon
<1> QED  BY <1>1, <1>2

LEMMA JoinConcat ==
    ASSUME NEW T, NEW ss \in Seq(Seq(T)), NEW tt \in Seq(Seq(T))
    PROVE  FlattenSeq(ss \o tt) = FlattenSeq(ss) \o FlattenSeq(tt)
<1> DEFINE n == Len(ss)
           m == Len(tt)
           uu == ss \o tt
<1>1. /\ n \in Nat /\ m \in Nat /\ uu \in Seq(Seq(T)) /\ Len(uu) = n + m
      /\ \A i \in 1 .. n : uu[i] = ss[i]
      /\ \A i \in 1 .. m : uu[n + i] = tt[i] /\ tt[i] \in Seq(T)
  OBVIOUS
<1>2. PICK f \in [0 .. n -> Seq(T)] :
          /\ f[0] = <<>> /\ f[n] = FlattenSeq(ss)
          /\ \A i \in 1 .. n : f[i] = f[i - 1] \o ss[i]
  BY Joins, Zenon
<1>3. PICK g \in [0 .. m -> Seq(T)] :
          /\ g[0] = <<>> /\ g[m] = FlattenSeq(tt)
          /\ \A i \in 1 .. m : g[i] = g[i - 1] \o tt[i]
  BY Joins, Zenon
<1>4. PICK h \in [0 .. n + m -> Seq(T)] :
          /\ h[0] = <<>> /\ h[n + m] = FlattenSeq(uu)
          /\ \A i \in 1 .. n + m : h[i] = h[i - 1] \o uu[i]
  <2> HIDE DEF uu, n, m
  <2>1. uu \in Seq(Seq(T)) /\ Len(uu) = n + m
    BY <1>1
  <2>2. \E h \in [0 .. Len(uu) -> Seq(T)] :
            /\ h[0] = <<>> /\ h[Len(uu)] = FlattenSeq(uu)
            /\ \A i \in 1 .. Len(uu) : h[i] = h[i - 1] \o uu[i]
    BY ONLY <2>1, Joins, Zenon
  <2> QED  BY <2>1, <2>2
<1> HIDE DEF uu, n, m
<1>5. 0 .. n \subseteq {i \in 0 .. n : h[i] = f[i]}
  <2> DEFINE S == {i \in 0 .. n : h[i] = f[i]}
  <2>1. 0 \in S
    BY <1>1, <1>2, <1>4
  <2>2. ASSUME NEW i \in 1 .. n, i - 1 \in S
        PROVE  i \in S
    <3>1. i \in 1 .. n + m /\ i \in 0 .. n
      BY <1>1
    <3>2. h[i] = h[i - 1] \o ss[i] /\ f[i] = f[i - 1] \o ss[i]
      BY <1>1, <1>2, <1>4, <3>1
    <3> QED  BY <2>2, <3>1, <3>2
  <2> HIDE DEF S
  <2>3. 0 .. n \subseteq S
    BY <1>1, <2>1, <2>2, Induction
  <2> QED  BY <2>3 DEF S
<1>6. f[n] \in Seq(T) /\ \A i \in 0 .. m : g[i] \in Seq(T)
  <2>1. n \in 0 .. n
    BY <1>1
  <2> QED  BY <1>2, <1>3, <2>1
<1>7. 0 .. m \subseteq {i \in 0 .. m : h[n + i] = f[n] \o g[i]}
  <2> DEFINE S == {i \in 0 .. m : h[n + i] = f[n] \o g[i]}
  <2>1. 0 \in S
    <3>1. n \in 0 .. n /\ n + 0 = n /\ 0 \in 0 .. m
      BY <1>1
    <3>2. h[n] = f[n]
      BY <1>5, <3>1
    <3>3. f[n] \o <<>> = f[n]
      BY <1>6, ConcatEmptySeq
    <3> QED  BY <1>3, <3>1, <3>2, <3>3
  <2>2. ASSUME NEW i \in 1 .. m, i - 1 \in S
        PROVE  i \in S
    <3>1. i \in 0 .. m /\ i - 1 \in 0 .. m /\ n + i \in 1 .. n + m /\ (n + i) - 1 = n + (i - 1)
      BY <1>1
    <3>2. h[n + i] = h[n + (i - 1)] \o tt[i] /\ g[i] = g[i - 1] \o tt[i]
      BY <1>1, <1>3, <1>4, <3>1
    <3>3. h[n + (i - 1)] = f[n] \o g[i - 1]
      BY <2>2
    <3>4. (f[n] \o g[i - 1]) \o tt[i] = f[n] \o (g[i - 1] \o tt[i])
      <4>1. f[n] \in Seq(T) /\ g[i - 1] \in Seq(T) /\ tt[i] \in Seq(T)
        BY <1>1, <1>6, <3>1
      <4>2. PICK a \in Seq(T), b \in Seq(T), c \in Seq(T) : a = f[n] /\ b = g[i - 1] /\ c = tt[i]
        BY ONLY <4>1
      <4>3. (a \o b) \o c = a \o (b \o c)
        <5>1. a \in Seq(T) /\ b \in Seq(T) /\ c \in Seq(T)
          OBVIOUS
        <5>2. (a \o b) \o c \in {a \o (b \o c)}
          BY ONLY <5>1, Associative, Zenon
        <5> QED  BY ONLY <5>2
      <4> QED  BY ONLY <4>2, <4>3
    <3> QED  BY <3>1, <3>2, <3>3, <3>4
  <2> HIDE DEF S
  <2>3. 0 .. m \subseteq S
    BY <1>1, <2>1, <2>2, Induction
  <2> QED  BY <2>3 DEF S
<1>8. h[n + m] = f[n] \o g[m]
  <2>1. m \in 0 .. m
    BY <1>1
  <2> QED  BY <1>7, <2>1
<1> QED  BY <1>2, <1>3, <1>4, <1>8 DEF uu

\* Where the parts of a joined sequence are: the i-th behind o[i - 1] elements.
PartsAt(ss, o) ==
    /\ o[0] = 0 /\ o[Len(ss)] = Len(FlattenSeq(ss))
    /\ \A i \in 1 .. Len(ss) :
           /\ o[i] = o[i - 1] + Len(ss[i]) /\ o[i] <= Len(FlattenSeq(ss))
           /\ \A j \in 1 .. Len(ss[i]) : FlattenSeq(ss)[o[i - 1] + j] = ss[i][j]

LEMMA JoinedParts ==
    ASSUME NEW T, NEW ss \in Seq(Seq(T))
    PROVE  \E o \in [0 .. Len(ss) -> Nat] : PartsAt(ss, o)
<1> DEFINE n == Len(ss)
           F == FlattenSeq(ss)
<1>1. n \in Nat /\ \A i \in 1 .. n : ss[i] \in Seq(T) /\ Len(ss[i]) \in Nat
  OBVIOUS
<1>2. PICK f \in [0 .. n -> Seq(T)] :
          /\ f[0] = <<>> /\ f[n] = F
          /\ \A i \in 1 .. n : f[i] = f[i - 1] \o ss[i]
  BY Joins, Zenon
<1> HIDE DEF n, F
<1>3. ASSUME NEW i \in 0 .. n PROVE f[i] \in Seq(T) /\ Len(f[i]) \in Nat
  BY <1>2
<1> DEFINE Starts(s) == Len(s) <= Len(F) /\ \A j \in 1 .. Len(s) : F[j] = s[j]
           S == {k \in 0 .. n : Starts(f[n - k])}
<1>4. 0 \in S
  <2>1. n - 0 = n /\ n \in 0 .. n /\ 0 \in 0 .. n
    BY <1>1
  <2>2. Len(f[n]) <= Len(f[n])
    BY <1>3, <2>1
  <2> QED  BY <1>2, <2>1, <2>2
<1>5. ASSUME NEW i \in 1 .. n
      PROVE  /\ Len(f[i]) = Len(f[i - 1]) + Len(ss[i])
             /\ \A j \in 1 .. Len(f[i - 1]) : f[i][j] = f[i - 1][j]
             /\ \A j \in 1 .. Len(ss[i]) : f[i][Len(f[i - 1]) + j] = ss[i][j]
  <2>1. i - 1 \in 0 .. n
    BY <1>1
  <2>2. f[i] = f[i - 1] \o ss[i] /\ f[i - 1] \in Seq(T) /\ ss[i] \in Seq(T)
    BY <1>1, <1>2, <1>3, <2>1
  <2>3. PICK s \in Seq(T), t \in Seq(T) : s = f[i - 1] /\ t = ss[i] /\ f[i] = s \o t
    BY <2>2
  <2>4. /\ Len(s \o t) = Len(s) + Len(t)
        /\ \A j \in 1 .. Len(s) : (s \o t)[j] = s[j]
        /\ \A j \in 1 .. Len(t) : (s \o t)[Len(s) + j] = t[j]
    OBVIOUS
  <2> QED  BY <2>3, <2>4
<1>6. ASSUME NEW k \in 1 .. n, k - 1 \in S
      PROVE  k \in S
  <2>1. PICK i \in 1 .. n : i = n - (k - 1) /\ i - 1 = n - k /\ k \in 0 .. n /\ i - 1 \in 0 .. n /\ i \in 0 .. n
    <3>1. n - (k - 1) \in 1 .. n /\ (n - (k - 1)) - 1 = n - k /\ k \in 0 .. n
      BY <1>1
    <3> QED  BY <1>1, <3>1
  <2>2. Starts(f[i])
    BY <1>6, <2>1
  <2>3. Len(f[i - 1]) \in Nat /\ Len(ss[i]) \in Nat /\ Len(f[i]) = Len(f[i - 1]) + Len(ss[i])
        /\ \A j \in 1 .. Len(f[i - 1]) : f[i][j] = f[i - 1][j]
    BY <1>1, <1>3, <1>5, <2>1
  <2>4. PICK p \in Nat, q \in Nat :
            p = Len(f[i - 1]) /\ q = Len(ss[i]) /\ Len(f[i]) = p + q /\ p + q <= Len(F)
    BY <2>2, <2>3
  <2>5. Len(F) \in Nat
    <3>1. n \in 0 .. n
      BY <1>1
    <3> QED  BY <1>2, <1>3, <3>1
  <2>6. p <= Len(F) /\ \A j \in 1 .. p : j \in 1 .. p + q
    <3>1. \A x, y, m \in Nat : x + y <= m => x <= m /\ \A j \in 1 .. x : j \in 1 .. x + y
      OBVIOUS
    <3> QED  BY ONLY <2>4, <2>5, <3>1
  <2>7. Starts(f[i - 1])
    BY <2>2, <2>3, <2>4, <2>6
  <2> HIDE DEF Starts
  <2> QED  BY <2>1, <2>7
<1>7. 0 .. n \subseteq S
  <2> HIDE DEF S
  <2> QED  BY <1>1, <1>4, <1>6, Induction
<1>8. ASSUME NEW i \in 0 .. n PROVE Starts(f[i])
  <2>1. n - i \in 0 .. n /\ n - (n - i) = i
    BY <1>1
  <2> HIDE DEF Starts
  <2> QED  BY <1>7, <2>1
<1> DEFINE o == [i \in 0 .. n |-> Len(f[i])]
<1>9. o \in [0 .. n -> Nat] /\ \A i \in 0 .. n : o[i] = Len(f[i])
  BY <1>3
<1>10. o[0] = 0 /\ o[n] = Len(F)
  <2>1. 0 \in 0 .. n /\ n \in 0 .. n /\ Len(<<>>) = 0
    BY <1>1
  <2> QED  BY <1>2, <1>9, <2>1
<1> HIDE DEF o
<1>11. ASSUME NEW i \in 1 .. n
       PROVE  /\ o[i] = o[i - 1] + Len(ss[i]) /\ o[i] <= Len(F)
              /\ \A j \in 1 .. Len(ss[i]) : F[o[i - 1] + j] = ss[i][j]
  <2>1. i \in 0 .. n /\ i - 1 \in 0 .. n
    BY <1>1
  <2>2. o[i] = Len(f[i]) /\ o[i - 1] = Len(f[i - 1]) /\ o[i - 1] \in Nat /\ Len(ss[i]) \in Nat
    BY <1>1, <1>9, <2>1
  <2>3. o[i] = o[i - 1] + Len(ss[i])
    BY <1>5, <2>2
  <2>4. \A j \in 1 .. Len(ss[i]) : o[i - 1] + j \in 1 .. Len(f[i])
    <3>1. \A p, q \in Nat : \A j \in 1 .. q : p + j \in 1 .. p + q
      OBVIOUS
    <3> QED  BY <2>2, <2>3, <3>1
  <2>5. Len(f[i]) <= Len(F) /\ \A j \in 1 .. Len(f[i]) : F[j] = f[i][j]
    BY <1>8, <2>1
  <2>6. ASSUME NEW j \in 1 .. Len(ss[i])
        PROVE  F[o[i - 1] + j] = ss[i][j]
    <3>1. F[o[i - 1] + j] = f[i][o[i - 1] + j]
      BY ONLY <2>4, <2>5, j \in 1 .. Len(ss[i])
    <3>2. f[i][Len(f[i - 1]) + j] = ss[i][j]
      BY <1>5
    <3> QED  BY ONLY <2>2, <3>1, <3>2
  <2> QED  BY <2>2, <2>3, <2>5, <2>6
<1>12. PartsAt(ss, o)
  BY <1>10, <1>11 DEF PartsAt, F, n
<1> QED  BY <1>9, <1>12 DEF n
=============================================================================
