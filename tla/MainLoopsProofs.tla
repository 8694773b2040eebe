--------------------------- MODULE MainLoopsProofs ---------------------------
(***************************************************************************)
(* The safety theorems about the loops of main.cpp: what is lost of a      *)
(* connection that stands, and what the server prints of any.  All that    *)
(* they say of a client is said of three sequences, what the server has    *)
(* received (r), what is on its way (w) and what is enqueued (q): the      *)
(* lemmas are about these, and every step of either loop is one of them.   *)
(***************************************************************************)
EXTENDS MainLoops, SequenceTheorems, TLAPS

Types ==
    /\ cpc \in [Clients -> {"off", "poll", "result", "ended", "killed"}]
    /\ conn \in [Clients -> {"none", "refused", "pending", "accepted", "closed"}]
    /\ gone \in [Clients -> BOOLEAN] /\ lost \in [Clients -> BOOLEAN]
    /\ revents \in [Clients -> SUBSET {"writable", "error", "disconnected"}]
    /\ holes \in [Clients -> SUBSET {"send", "limit"}]
    /\ queue \in [Clients -> Seq(Nat)] /\ wire \in [Clients -> Seq(Nat)]
    /\ buf \in [Clients -> Seq(Nat)] /\ printed \in [Clients -> Seq(Nat)]

\* Before client() runs there is nothing of it anywhere; while it runs its end is open,
\* and it sends nothing on a socket that did not connect.
Control ==
    \A c \in Clients :
        /\ cpc[c] = "off" =>
              /\ conn[c] = "none" /\ ~lost[c] /\ ~gone[c] /\ revents[c] = {}
              /\ wire[c] = <<>> /\ buf[c] = <<>> /\ printed[c] = <<>>
        /\ cpc[c] # "off" => conn[c] # "none"
        /\ cpc[c] \in {"poll", "result"} => ~gone[c]
        /\ conn[c] = "refused" => "writable" \notin revents[c]

\* Messages of the client, none twice and none before one that was enqueued earlier.
Rises(s) ==
    /\ \A i \in DOMAIN s : s[i] \in 1 .. Messages
    /\ \A i, j \in DOMAIN s : i < j => s[i] < s[j]

\* What holds of the three sequences, of a connection that stands or not and with the
\* holes h.  The second conjunct also holds after the end: the wire of a connection that
\* is lost is emptied, and nothing is sent on it any more.
Sound(r, w, q, stands, h) ==
    /\ Rises((r \o w) \o q)
    /\ "limit" \notin h => FirstMessages(r \o w)
    /\ stands /\ "limit" \notin h =>
          /\ FirstMessages((r \o w) \o q)
          /\ Len((r \o w) \o q) # Messages => "send" \in h /\ q = <<>>

SoundAt(c) == Sound(Received(c), wire[c], queue[c], Stands(c), holes[c])

IInv == Types /\ Control /\ \A c \in Clients : SoundAt(c)

-----------------------------------------------------------------------------
(* Sequences of messages. *)

LEMMA EmptyFront ==
    ASSUME NEW s \in Seq(Nat)
    PROVE  <<>> \o s = s /\ s \o <<>> = s
  OBVIOUS

LEMMA ConcatAssoc ==
    ASSUME NEW s \in Seq(Nat), NEW t \in Seq(Nat), NEW u \in Seq(Nat)
    PROVE  (s \o t) \o u = s \o (t \o u)
<1> DEFINE left == (s \o t) \o u
           right == s \o (t \o u)
<1>1. s \o t \in Seq(Nat) /\ t \o u \in Seq(Nat)
  BY ConcatProperties
<1>2. left \in Seq(Nat) /\ right \in Seq(Nat)
  BY <1>1, ConcatProperties
<1>3. Len(left) = Len(right)
  BY <1>1
<1>4. \A i \in 1 .. Len(left) : left[i] = right[i]
  BY <1>1
<1> HIDE DEF left, right
<1>5. left = right
  BY ONLY <1>2, <1>3, <1>4, SeqEqual
<1> QED  BY <1>5 DEF left, right

\* Cutting a queue in two changes nothing of what it holds.
LEMMA CutQueue ==
    ASSUME NEW q \in Seq(Nat), NEW n \in 0 .. Len(q)
    PROVE  /\ SubSeq(q, 1, n) \in Seq(Nat) /\ SubSeq(q, n + 1, Len(q)) \in Seq(Nat)
           /\ SubSeq(q, 1, n) \o SubSeq(q, n + 1, Len(q)) = q
<1>1. Len(q) \in Nat /\ n \in Nat /\ n <= Len(q) /\ \A i \in 1 .. Len(q) : q[i] \in Nat
  OBVIOUS
<1>2. SubSeq(q, 1, n) \in Seq(Nat)
  <2>1. \A i \in 1 .. n : q[i] \in Nat  BY <1>1
  <2> QED BY <1>1, <2>1, SubSeqProperties
<1>3. SubSeq(q, n + 1, Len(q)) \in Seq(Nat)
  <2>1. \A i \in n + 1 .. Len(q) : q[i] \in Nat  BY <1>1
  <2> QED BY <1>1, <2>1, SubSeqProperties
<1>4. SubSeq(q, 1, n) \o SubSeq(q, n + 1, Len(q)) = SubSeq(q, 1, Len(q))
  <2>1. 1 \in 1 .. Len(q) + 1 /\ n \in 1 - 1 .. Len(q) /\ Len(q) \in n .. Len(q)  BY <1>1
  <2> QED BY <2>1, ConcatAdjacentSubSeq
<1> QED BY <1>2, <1>3, <1>4, SubSeqFull

LEMMA MsgsType == Msgs \in Seq(Nat)
  BY SizesAssumption DEF Msgs

\* Rises and FirstMessages hold of the beginning of what they hold of.
LEMMA FrontOf ==
    ASSUME NEW s \in Seq(Nat), NEW t \in Seq(Nat)
    PROVE  /\ Rises(s \o t) => Rises(s)
           /\ FirstMessages(s \o t) => FirstMessages(s)
<1> PICK st : st = s \o t  OBVIOUS
<1>1. /\ DOMAIN s \subseteq DOMAIN st
      /\ \A i \in DOMAIN s : st[i] = s[i]
  <2>1. DOMAIN s = 1 .. Len(s) /\ DOMAIN st = 1 .. Len(s) + Len(t)
        /\ \A i \in 1 .. Len(s) : st[i] = s[i]
    BY ConcatProperties
  <2>2. Len(s) \in Nat /\ Len(t) \in Nat  OBVIOUS
  <2> QED BY ONLY <2>1, <2>2
<1>2. Rises(st) => Rises(s)  BY ONLY <1>1, Zenon DEF Rises
<1>3. FirstMessages(st) => FirstMessages(s)  BY ONLY <1>1, Zenon DEF FirstMessages
<1> QED BY <1>2, <1>3

\* Messages that are lost leave the others in order.
LEMMA MiddleLost ==
    ASSUME NEW s \in Seq(Nat), NEW t \in Seq(Nat), NEW u \in Seq(Nat),
           Rises((s \o t) \o u)
    PROVE  Rises(s \o u)
<1> PICK all : all = (s \o t) \o u  OBVIOUS
<1> PICK su : su = s \o u  OBVIOUS
<1> PICK m : m = Len(s)  OBVIOUS
<1> PICK n : n = Len(t)  OBVIOUS
<1> PICK k : k = Len(u)  OBVIOUS
<1>1. m \in Nat /\ n \in Nat /\ k \in Nat  OBVIOUS
<1> PICK st \in Seq(Nat) : st = s \o t  BY ConcatProperties
<1>2. DOMAIN all = 1 .. m + n + k /\ DOMAIN su = 1 .. m + k
  OBVIOUS
<1>a. (\A i \in 1 .. m : st[i] = s[i]) /\ Len(st) = m + n
  BY ConcatProperties
<1>b. \A i \in 1 .. m + k : su[i] = IF i <= m THEN s[i] ELSE u[i - m]
  BY ONLY <1>1, ConcatProperties, su = s \o u, s \in Seq(Nat), u \in Seq(Nat), m = Len(s), k = Len(u)
<1>c. \A i \in 1 .. m + n + k : all[i] = IF i <= m + n THEN st[i] ELSE u[i - (m + n)]
  <2> PICK l : l = m + n  OBVIOUS
  <2>1. all = st \o u /\ l = Len(st) /\ l \in Nat  BY <1>1, <1>a
  <2>2. \A i \in 1 .. l + k : all[i] = IF i <= l THEN st[i] ELSE u[i - l]
    BY ONLY <1>1, <2>1, ConcatProperties, st \in Seq(Nat), u \in Seq(Nat), k = Len(u)
  <2> QED BY ONLY <2>2, l = m + n
<1> DEFINE at(i) == IF i <= m THEN i ELSE i + n
<1>4. \A i \in 1 .. m + k : at(i) \in 1 .. m + n + k
  BY ONLY <1>1
<1>3. \A i \in 1 .. m + k : su[i] = all[at(i)]
  <2> SUFFICES ASSUME NEW i \in 1 .. m + k PROVE su[i] = all[at(i)]  OBVIOUS
  <2>1. CASE i <= m
    BY ONLY <1>1, <1>a, <1>b, <1>c, <2>1, i \in 1 .. m + k
  <2>2. CASE ~(i <= m)
    BY ONLY <1>1, <1>b, <1>c, <2>2, i \in 1 .. m + k
  <2> QED BY <2>1, <2>2
<1>5. \A i, j \in 1 .. m + k : i < j => at(i) < at(j)
  BY ONLY <1>1
<1> HIDE DEF at
<1>6. Rises(all)  OBVIOUS
<1>7. Rises(su)  BY ONLY <1>2, <1>3, <1>4, <1>5, <1>6, Zenon DEF Rises
<1> QED BY <1>7

\* (The sequences are declared without their type, so that each step sees three of them.)
LEMMA WireLost ==
    ASSUME NEW s, NEW t, NEW u, NEW v, s \in Seq(Nat), t \in Seq(Nat), u \in Seq(Nat),
           v \in Seq(Nat), Rises(((s \o t) \o u) \o v)
    PROVE  Rises((s \o u) \o v)
<1> PICK x : x = u \o v  OBVIOUS
<1> PICK y : y = s \o t  OBVIOUS
<1>1. x \in Seq(Nat)  BY ConcatProperties
<1>2. y \in Seq(Nat)  BY ConcatProperties
<1>3. (y \o u) \o v = y \o (u \o v)
  BY ONLY ConcatAssoc, <1>2, u \in Seq(Nat), v \in Seq(Nat)
<1>4. Rises((s \o t) \o x)
  <2>1. Rises((y \o u) \o v)  OBVIOUS
  <2>2. Rises(y \o (u \o v))  BY ONLY <2>1, <1>3
  <2> QED BY ONLY <2>2, x = u \o v, y = s \o t
<1>5. Rises(s \o x)
  BY ONLY <1>1, <1>4, MiddleLost, s \in Seq(Nat), t \in Seq(Nat)
<1>6. (s \o u) \o v = s \o (u \o v)
  BY ONLY ConcatAssoc, s \in Seq(Nat), u \in Seq(Nat), v \in Seq(Nat)
<1> QED BY ONLY <1>5, <1>6, x = u \o v

-----------------------------------------------------------------------------
(* What the steps do to the three sequences. *)

\* client() has enqueued everything, and nothing has happened.
LEMMA SoundAtStart ==
    ASSUME NEW stands \in BOOLEAN, NEW h
    PROVE  Sound(<<>>, <<>>, Msgs, stands, h)
<1>1. <<>> \o <<>> = <<>> /\ <<>> \o Msgs = Msgs  BY MsgsType, EmptyFront, EmptySeq
<1>2. DOMAIN Msgs = 1 .. Messages /\ (\A i \in 1 .. Messages : Msgs[i] = i) /\ Len(Msgs) = Messages
  BY SizesAssumption DEF Msgs
<1>3. Rises(Msgs) /\ FirstMessages(Msgs)  BY <1>2, SizesAssumption DEF Rises, FirstMessages
<1>4. FirstMessages(<<>>)  BY DEF FirstMessages
<1> QED BY ONLY <1>1, <1>2, <1>3, <1>4 DEF Sound

\* The connection may cease to stand; nothing else is said of one that does not.
LEMMA SoundLess ==
    ASSUME NEW r, NEW w, NEW q, NEW s \in BOOLEAN, NEW t \in BOOLEAN, NEW h,
           Sound(r, w, q, s, h), t => s
    PROVE  Sound(r, w, q, t, h)
  BY DEF Sound

\* The end of a connection: what is on its way is lost, and of what is received nothing
\* or, when the client is erased, what is not printed.
LEMMA SoundAfterEnd ==
    ASSUME NEW p \in Seq(Nat), NEW b \in Seq(Nat), NEW w \in Seq(Nat), NEW q \in Seq(Nat),
           NEW s, NEW h, Sound(p \o b, w, q, s, h)
    PROVE  Sound(p \o b, <<>>, q, FALSE, h) /\ Sound(p \o <<>>, <<>>, q, FALSE, h)
<1> PICK r \in Seq(Nat) : r = p \o b  BY ConcatProperties
<1>1. <<>> \in Seq(Nat)  OBVIOUS
<1>2. Rises((r \o w) \o q) /\ ("limit" \notin h => FirstMessages(r \o w))  BY DEF Sound
<1>3. Rises(r \o q)  BY ONLY <1>2, MiddleLost
<1>4. "limit" \notin h => FirstMessages(r) /\ FirstMessages(p)
  BY <1>2, FrontOf
<1>5. Rises(p \o q)  BY <1>3, MiddleLost
<1>6. r \o <<>> = r /\ p \o <<>> = p  BY EmptyFront
<1>7. (r \o <<>>) \o q = r \o q /\ ((p \o <<>>) \o <<>>) \o q = p \o q
      /\ (p \o <<>>) \o <<>> = p
  BY <1>6
<1>8. Sound(r, <<>>, q, FALSE, h)  BY ONLY <1>3, <1>4, <1>6, <1>7 DEF Sound
<1>9. Sound(p \o <<>>, <<>>, q, FALSE, h)  BY ONLY <1>4, <1>5, <1>6, <1>7 DEF Sound
<1> QED BY <1>8, <1>9

\* Messages move from the queue to the wire of a connection that stands.
LEMMA SoundAfterSend ==
    ASSUME NEW r, NEW w, NEW a, NEW b, NEW h,
           r \in Seq(Nat), w \in Seq(Nat), a \in Seq(Nat), b \in Seq(Nat),
           Sound(r, w, a \o b, TRUE, h)
    PROVE  Sound(r, w \o a, b, TRUE, h)
<1> PICK rw : rw = r \o w  OBVIOUS
<1>1. rw \in Seq(Nat)  BY ConcatProperties
<1>2. rw \o a \in Seq(Nat)  BY <1>1, ConcatProperties
<1>3. r \o (w \o a) = rw \o a
  <2>1. (r \o w) \o a = r \o (w \o a)
    BY ONLY ConcatAssoc, r \in Seq(Nat), w \in Seq(Nat), a \in Seq(Nat)
  <2> QED BY ONLY <2>1, rw = r \o w
<1>4. (rw \o a) \o b = rw \o (a \o b)
  BY ONLY ConcatAssoc, <1>1, a \in Seq(Nat), b \in Seq(Nat)
<1> PICK all : all = rw \o (a \o b)  OBVIOUS
<1>5. /\ Rises(all)
      /\ "limit" \notin h => FirstMessages(all)
                             /\ (Len(all) # Messages => "send" \in h /\ a \o b = <<>>)
  BY DEF Sound
<1>6. "limit" \notin h => FirstMessages(rw \o a)
  <2>1. FirstMessages((rw \o a) \o b) => FirstMessages(rw \o a)
    BY ONLY <1>2, FrontOf, b \in Seq(Nat)
  <2> QED BY ONLY <1>4, <1>5, <2>1, all = rw \o (a \o b)
<1>7. a \o b = <<>> => b = <<>>
  BY ONLY ConcatEmptySeq, a \in Seq(Nat), b \in Seq(Nat)
<1>8. r \o (w \o a) = rw \o a /\ (r \o (w \o a)) \o b = all
  BY ONLY <1>3, <1>4, all = rw \o (a \o b)
<1> QED BY ONLY <1>5, <1>6, <1>7, <1>8 DEF Sound

\* A send fails: what is enqueued is thrown away.
LEMMA SoundAfterFailure ==
    ASSUME NEW r \in Seq(Nat), NEW w \in Seq(Nat), NEW q \in Seq(Nat),
           NEW s \in BOOLEAN, NEW t \in BOOLEAN, NEW h,
           Sound(r, w, q, s, h), t => s
    PROVE  Sound(r, w, <<>>, t, h \cup {"send"})
<1> PICK rw \in Seq(Nat) : rw = r \o w  BY ConcatProperties
<1>1. Rises(rw \o q) /\ ("limit" \notin h => FirstMessages(rw))  BY DEF Sound
<1>2. Rises(rw)  BY <1>1, FrontOf
<1>3. rw \o <<>> = rw  BY EmptyFront
<1> QED BY ONLY <1>1, <1>2, <1>3, rw = r \o w DEF Sound

\* A tick receives all that is on its way.
LEMMA SoundAfterTick ==
    ASSUME NEW r \in Seq(Nat), NEW w \in Seq(Nat), NEW q, NEW s, NEW h,
           Sound(r, w, q, s, h)
    PROVE  Sound(r \o w, <<>>, q, s, h)
<1>1. (r \o w) \o <<>> = r \o w  BY ConcatProperties, EmptyFront
<1> QED BY ONLY <1>1, Sound(r, w, q, s, h) DEF Sound

\* A tick receives a, drops the chunk d and leaves z.
LEMMA SoundAfterDrop ==
    ASSUME NEW r, NEW a, NEW d, NEW z, NEW q, NEW stands, NEW h,
           r \in Seq(Nat), a \in Seq(Nat), d \in Seq(Nat), z \in Seq(Nat), q \in Seq(Nat),
           Sound(r, (a \o d) \o z, q, stands, h)
    PROVE  Sound(r \o a, z, q, stands, h \cup {"limit"})
<1> PICK ad : ad = a \o d  OBVIOUS
<1> PICK ra : ra = r \o a  OBVIOUS
<1>1. Rises((r \o (ad \o z)) \o q)  BY DEF Sound
<1>2. r \o (ad \o z) = (ra \o d) \o z
  <2>1. ad \in Seq(Nat)  BY ConcatProperties
  <2>2. (r \o ad) \o z = r \o (ad \o z)
    BY ONLY ConcatAssoc, <2>1, r \in Seq(Nat), z \in Seq(Nat)
  <2>3. (r \o a) \o d = r \o (a \o d)
    BY ONLY ConcatAssoc, r \in Seq(Nat), a \in Seq(Nat), d \in Seq(Nat)
  <2> QED BY ONLY <2>2, <2>3, ad = a \o d, ra = r \o a
<1>3. ra \in Seq(Nat)  BY ConcatProperties
<1>4. Rises(((ra \o d) \o z) \o q)  BY ONLY <1>1, <1>2
<1>5. Rises((ra \o z) \o q)
  BY ONLY <1>3, <1>4, WireLost, d \in Seq(Nat), z \in Seq(Nat), q \in Seq(Nat)
<1> QED BY ONLY <1>5, ra = r \o a DEF Sound
-----------------------------------------------------------------------------
(* The steps of the loops. *)

\* What a step does not change of a client stays sound, if the connection of that client
\* does not come to stand.
LEMMA SoundSame ==
    ASSUME NEW c, SoundAt(c), Stands(c)' => Stands(c),
           UNCHANGED <<printed[c], buf[c], wire[c], queue[c], holes[c]>>
    PROVE  SoundAt(c)'
<1> PICK r : r = Received(c)  OBVIOUS
<1>1. Received(c)' = r  BY DEF Received
<1>2. Stands(c) \in BOOLEAN /\ Stands(c)' \in BOOLEAN  BY DEF Stands
<1>3. Sound(r, wire[c], queue[c], Stands(c), holes[c])  BY DEF SoundAt
<1>4. Sound(r, wire[c], queue[c], Stands(c)', holes[c])  BY <1>2, <1>3, SoundLess
<1> QED BY <1>1, <1>4 DEF SoundAt, Sound

LEMMA TypesOf ==
    ASSUME Types, NEW c \in Clients
    PROVE  /\ printed[c] \in Seq(Nat) /\ buf[c] \in Seq(Nat)
           /\ wire[c] \in Seq(Nat) /\ queue[c] \in Seq(Nat)
           /\ Received(c) \in Seq(Nat) /\ holes[c] \subseteq {"send", "limit"}
<1>1. /\ printed[c] \in Seq(Nat) /\ buf[c] \in Seq(Nat)
      /\ wire[c] \in Seq(Nat) /\ queue[c] \in Seq(Nat) /\ holes[c] \in SUBSET {"send", "limit"}
  BY DEF Types
<1>2. Received(c) \in Seq(Nat)  BY <1>1, ConcatProperties DEF Received
<1> QED BY <1>1, <1>2

\* The steps that leave all messages where they are.
LEMMA QuietSteps ==
    ASSUME IInv,
           \/ \E c \in Clients : poll(c) \/ Break(c) \/ Kill(c)
           \/ Touch \/ AcceptClient \/ AcceptFails \/ PassEnds
    PROVE  IInv'
<1> USE DEF IInv, client, kernel, server
<1>1. UNCHANGED <<printed, buf, wire, queue, holes>>
  BY DEF poll, Break, Kill, Touch, AcceptClient, AcceptFails, PassEnds
<1>2. \A c \in Clients : Stands(c)' => Stands(c)
  <2>1. ASSUME NEW c \in Clients, NEW d \in Clients, poll(c) \/ Break(c) \/ Kill(c)
        PROVE  Stands(d)' => Stands(d)
    BY <2>1 DEF poll, Break, Kill, Ends, Types, Stands, Closed
  <2>2. ASSUME NEW d \in Clients, Touch \/ AcceptClient \/ AcceptFails \/ PassEnds
        PROVE  Stands(d)' => Stands(d)
    BY <2>2 DEF Touch, AcceptClient, AcceptFails, PassEnds, Pending, Types, Stands, Closed
  <2> QED BY <2>1, <2>2
<1>3. Types'
  <2>1. ASSUME NEW c \in Clients, poll(c) PROVE Types'
    BY <2>1 DEF poll, Events, Types
  <2>2. ASSUME NEW c \in Clients, Break(c) \/ Kill(c) PROVE Types'
    BY <2>2 DEF Break, Kill, Ends, Types
  <2>3. CASE Touch \/ AcceptClient \/ AcceptFails \/ PassEnds
    BY <2>3 DEF Touch, AcceptClient, AcceptFails, PassEnds, Pending, Types
  <2> QED BY <2>1, <2>2, <2>3
<1>4. Control'
  <2>1. ASSUME NEW c \in Clients, poll(c) PROVE Control'
    BY <2>1 DEF poll, Events, Types, Control
  <2>2. ASSUME NEW c \in Clients, Break(c) PROVE Control'
    BY <2>2 DEF Break, Ends, Types, Control
  <2>3. ASSUME NEW c \in Clients, Kill(c) PROVE Control'
    BY <2>3 DEF Kill, Ends, Types, Control
  <2>4. CASE Touch \/ AcceptClient \/ AcceptFails \/ PassEnds
    BY <2>4 DEF Touch, AcceptClient, AcceptFails, PassEnds, Pending, Types, Control
  <2> QED BY <2>1, <2>2, <2>3, <2>4
<1>5. ASSUME NEW c \in Clients PROVE SoundAt(c)'
  BY <1>1, <1>2, SoundSame
<1> QED BY <1>3, <1>4, <1>5

\* client() starts: everything is in its queue.
LEMMA StartKeeps == ASSUME IInv, NEW c \in Clients, Start(c) PROVE IInv'
<1> USE DEF IInv, server
<1>1. Types'  BY MsgsType DEF Start, Types
<1>2. Control'  BY DEF Start, Types, Control
<1>3. /\ UNCHANGED <<printed, buf, wire, holes, gone, lost>>
      /\ \A d \in Clients \ {c} : conn'[d] = conn[d] /\ queue'[d] = queue[d]
  BY DEF Start, Types
<1>4. ASSUME NEW d \in Clients, d # c PROVE SoundAt(d)'
  BY <1>3, <1>4, SoundSame DEF Stands, Closed
<1>5. SoundAt(c)'
  <2>1. Received(c)' = <<>> \o <<>> /\ wire'[c] = <<>> /\ queue'[c] = Msgs
    BY DEF Start, Types, Control, Received
  <2>2. <<>> \o <<>> = <<>>  BY EmptyFront
  <2>3. Sound(<<>>, <<>>, Msgs, Stands(c)', holes'[c])
    <3>1. Stands(c)' \in BOOLEAN  BY DEF Stands
    <3> QED BY <3>1, SoundAtStart
  <2> QED BY <2>1, <2>2, <2>3 DEF SoundAt, Sound
<1> QED BY <1>1, <1>2, <1>4, <1>5

\* A connection ends, and what is on its way with it.
Drops(c) ==
    /\ wire'[c] = <<>> /\ ~Stands(c)' /\ UNCHANGED <<printed[c], queue[c], holes[c]>>
    /\ UNCHANGED buf[c] \/ buf'[c] = <<>>

LEMMA SoundDropped ==
    ASSUME IInv, NEW c \in Clients, Drops(c)
    PROVE  SoundAt(c)'
<1> PICK p : p = printed[c]  OBVIOUS
<1> PICK b : b = buf[c]  OBVIOUS
<1>1. p \in Seq(Nat) /\ b \in Seq(Nat) /\ wire[c] \in Seq(Nat) /\ queue[c] \in Seq(Nat)
  BY TypesOf DEF IInv
<1>2. Sound(p \o b, wire[c], queue[c], Stands(c), holes[c])
  BY DEF IInv, SoundAt, Received
<1>3. /\ Sound(p \o b, <<>>, queue[c], FALSE, holes[c])
      /\ Sound(p \o <<>>, <<>>, queue[c], FALSE, holes[c])
  BY ONLY <1>1, <1>2, SoundAfterEnd
<1>4. Received(c)' = p \o b \/ Received(c)' = p \o <<>>
  BY DEF Drops, Received
<1>5. /\ wire'[c] = <<>> /\ Stands(c)' = FALSE /\ queue'[c] = queue[c] /\ holes'[c] = holes[c]
  BY DEF Drops, Stands
<1> QED BY ONLY <1>3, <1>4, <1>5, Zenon DEF SoundAt

\* The steps that end a connection.
LEMMA EndKeeps ==
    ASSUME IInv,
           StopServer \/ AcceptCloses
              \/ \E c \in Clients : Reset(c) \/ Erase(c) \/ ReceiveFails(c)
    PROVE  IInv'
<1> USE DEF client, kernel, server
<1>1. Types'
  <2>1. <<>> \in Seq(Nat)  OBVIOUS
  <2>2. CASE StopServer  BY <2>1, <2>2 DEF StopServer, IInv, Types
  <2>3. CASE AcceptCloses  BY <2>1, <2>3 DEF AcceptCloses, Pending, IInv, Types
  <2>4. ASSUME NEW c \in Clients, Reset(c) PROVE Types'
    BY <2>1, <2>4 DEF Reset, IInv, Types
  <2>5. ASSUME NEW c \in Clients, EraseClient(c) PROVE Types'
    BY <2>1, <2>5 DEF EraseClient, IInv, Types
  <2> QED BY <2>2, <2>3, <2>4, <2>5 DEF Erase, ReceiveFails
<1>2. Control'
  <2>2. CASE StopServer  BY <2>2 DEF StopServer, IInv, Types, Control
  <2>3. CASE AcceptCloses  BY <2>3 DEF AcceptCloses, Pending, IInv, Types, Control
  <2>4. ASSUME NEW c \in Clients, Reset(c) PROVE Control'
    BY <2>4 DEF Reset, IInv, Types, Control
  <2>5. ASSUME NEW c \in Clients, EraseClient(c), conn[c] # "none" PROVE Control'
    BY <2>5 DEF EraseClient, IInv, Types, Control
  <2>6. ASSUME NEW c \in Clients, Erase(c) \/ ReceiveFails(c) PROVE Control'
    <3>1. EraseClient(c) /\ conn[c] # "none"
      BY <2>6 DEF Erase, ReceiveFails, Closed, IInv, Control
    <3> QED BY <3>1, <2>5
  <2> QED BY <2>2, <2>3, <2>4, <2>6
<1>3. ASSUME NEW d \in Clients
      PROVE  \/ Drops(d)
             \/ /\ UNCHANGED <<printed[d], buf[d], wire[d], queue[d], holes[d]>>
                /\ Stands(d)' => Stands(d)
  <2>2. CASE StopServer
    BY <2>2 DEF StopServer, Drops, IInv, Types, Stands, Closed
  <2>3. CASE AcceptCloses
    BY <2>3 DEF AcceptCloses, Pending, Drops, IInv, Types, Stands, Closed
  <2>4. ASSUME NEW c \in Clients, Reset(c)
        PROVE  \/ Drops(d)
               \/ /\ UNCHANGED <<printed[d], buf[d], wire[d], queue[d], holes[d]>>
                  /\ Stands(d)' => Stands(d)
    BY <2>4 DEF Reset, Drops, IInv, Types, Stands, Closed
  <2>5. ASSUME NEW c \in Clients, EraseClient(c)
        PROVE  \/ Drops(d)
               \/ /\ UNCHANGED <<printed[d], buf[d], wire[d], queue[d], holes[d]>>
                  /\ Stands(d)' => Stands(d)
    BY <2>5 DEF EraseClient, Drops, IInv, Types, Stands, Closed
  <2> QED BY <2>2, <2>3, <2>4, <2>5 DEF Erase, ReceiveFails
<1>4. ASSUME NEW d \in Clients PROVE SoundAt(d)'
  BY <1>3, SoundDropped, SoundSame DEF IInv
<1> QED BY <1>1, <1>2, <1>4 DEF IInv

\* What a flush does: nothing, or the front of the queue moves to the wire, or the queue
\* is thrown away.
Sent(c) ==
    /\ UNCHANGED <<lost, holes>>
    /\ conn[c] = "closed" => queue[c] = <<>>
    /\ ~lost[c]
    /\ \E n \in 0 .. Len(queue[c]) :
          /\ wire'  = [wire EXCEPT ![c] = @ \o SubSeq(queue[c], 1, n)]
          /\ queue' = [queue EXCEPT ![c] = SubSeq(@, n + 1, Len(@))]

LEMMA SentKeeps ==
    ASSUME IInv, NEW c \in Clients, Sent(c), ~gone[c], conn[c] # "refused", conn[c] # "none",
           UNCHANGED <<conn, gone, printed, buf>>
    PROVE  /\ wire' \in [Clients -> Seq(Nat)] /\ queue' \in [Clients -> Seq(Nat)]
           /\ \A d \in Clients : SoundAt(d)'
<1> PICK n \in 0 .. Len(queue[c]) :
          /\ wire'  = [wire EXCEPT ![c] = @ \o SubSeq(queue[c], 1, n)]
          /\ queue' = [queue EXCEPT ![c] = SubSeq(@, n + 1, Len(@))]
  BY DEF Sent
<1> PICK q : q = queue[c]  OBVIOUS
<1> PICK w : w = wire[c]  OBVIOUS
<1> PICK r : r = Received(c)  OBVIOUS
<1> PICK a : a = SubSeq(q, 1, n)  OBVIOUS
<1> PICK b : b = SubSeq(q, n + 1, Len(q))  OBVIOUS
<1>0. wire \in [Clients -> Seq(Nat)] /\ queue \in [Clients -> Seq(Nat)]
  BY DEF IInv, Types
<1>1. q \in Seq(Nat) /\ w \in Seq(Nat) /\ r \in Seq(Nat)
  BY TypesOf DEF IInv
<1>2. n \in 0 .. Len(q)  OBVIOUS
<1>3. a \in Seq(Nat) /\ b \in Seq(Nat) /\ a \o b = q
  BY ONLY <1>1, <1>2, CutQueue, a = SubSeq(q, 1, n), b = SubSeq(q, n + 1, Len(q))
<1>4. wire' = [wire EXCEPT ![c] = w \o a] /\ queue' = [queue EXCEPT ![c] = b]
  OBVIOUS
<1>5. w \o a \in Seq(Nat)  BY ONLY <1>1, <1>3, ConcatProperties
<1>6. wire' \in [Clients -> Seq(Nat)] /\ queue' \in [Clients -> Seq(Nat)]
  BY ONLY <1>0, <1>3, <1>4, <1>5
<1>7. wire'[c] = w \o a /\ queue'[c] = b
  BY ONLY <1>0, <1>4, c \in Clients
<1>8. UNCHANGED <<lost, holes>> /\ Stands(c)' = Stands(c) /\ Received(c)' = r
  BY DEF Sent, Stands, Closed, Received
<1>9. SoundAt(c)'
  <2>1. CASE Stands(c)
    <3>1. Sound(r, w, a \o b, TRUE, holes[c])
      BY <1>3, <2>1 DEF IInv, SoundAt, Sound
    <3>2. Sound(r, w \o a, b, TRUE, holes[c])
      BY ONLY <1>1, <1>3, <3>1, SoundAfterSend
    <3> QED BY ONLY <1>7, <1>8, <2>1, <3>2 DEF SoundAt, Sound
  <2>2. CASE ~Stands(c)
    <3>1. conn[c] = "closed"
      BY <2>2 DEF IInv, Types, Stands, Closed, Sent
    <3>2. q = <<>>  BY <3>1 DEF Sent
    <3>3. a \o b = <<>>  BY ONLY <1>3, <3>2
    <3>4. a = <<>> /\ b = <<>>
      BY ONLY <1>3, <3>3, ConcatEmptySeq
    <3>5. w \o a = w /\ b = q  BY <1>1, <3>2, <3>4, EmptyFront
    <3> QED BY <1>7, <1>8, <3>5, SoundSame DEF IInv, Received, Sent
  <2> QED BY <2>1, <2>2
<1>10. ASSUME NEW d \in Clients, d # c PROVE SoundAt(d)'
  <2>1. wire'[d] = wire[d] /\ queue'[d] = queue[d]
    BY <1>0, <1>4, <1>10
  <2> QED BY <1>8, <2>1, SoundSame DEF IInv, Stands, Closed
<1> QED BY <1>6, <1>9, <1>10

LEMMA FailureKeeps ==
    ASSUME IInv, NEW c \in Clients, SendFails(c), UNCHANGED <<conn, gone, printed, buf>>
    PROVE  /\ queue' \in [Clients -> Seq(Nat)] /\ lost' \in [Clients -> BOOLEAN]
           /\ holes' \in [Clients -> SUBSET {"send", "limit"}] /\ UNCHANGED wire
           /\ \A d \in Clients : SoundAt(d)'
<1> USE DEF IInv, Types
<1>1. /\ queue' = [queue EXCEPT ![c] = <<>>] /\ UNCHANGED wire
      /\ \A d \in Clients \ {c} : lost'[d] = lost[d] /\ holes'[d] = holes[d]
      /\ lost[c] => lost'[c]
      /\ holes'[c] = holes[c] \cup {"send"} \/ (queue[c] = <<>> /\ holes'[c] = holes[c])
  BY DEF SendFails
<1>2. <<>> \in Seq(Nat)  OBVIOUS
<1>3. queue' \in [Clients -> Seq(Nat)]  BY <1>1, <1>2
<1>4. lost' \in [Clients -> BOOLEAN] /\ holes' \in [Clients -> SUBSET {"send", "limit"}]
  BY DEF SendFails
<1>5. \A d \in Clients : Stands(d)' => Stands(d)
  BY <1>1, <1>4 DEF Stands, Closed
<1>6. SoundAt(c)'
  <2>1. CASE queue[c] = <<>> /\ holes'[c] = holes[c]
    <3>1. queue'[c] = queue[c]  BY <1>1, <2>1
    <3> QED BY <1>1, <1>5, <2>1, <3>1, SoundSame
  <2>2. CASE holes'[c] = holes[c] \cup {"send"}
    <3> PICK r : r = Received(c)  OBVIOUS
    <3> PICK w : w = wire[c]  OBVIOUS
    <3> PICK q : q = queue[c]  OBVIOUS
    <3>1. r \in Seq(Nat) /\ w \in Seq(Nat) /\ q \in Seq(Nat)  BY TypesOf
    <3>2. Stands(c) \in BOOLEAN /\ Stands(c)' \in BOOLEAN  BY DEF Stands
    <3>3. Sound(r, w, q, Stands(c), holes[c])  BY DEF SoundAt
    <3>4. Stands(c)' => Stands(c)  BY <1>5
    <3>5. Sound(r, w, <<>>, Stands(c)', holes[c] \cup {"send"})
      BY ONLY <3>1, <3>2, <3>3, <3>4, SoundAfterFailure
    <3>6. Received(c)' = r /\ wire'[c] = w /\ queue'[c] = <<>>
      BY <1>1 DEF Received
    <3> QED BY ONLY <2>2, <3>5, <3>6 DEF SoundAt, Sound
  <2> QED BY <1>1, <2>1, <2>2
<1>7. ASSUME NEW d \in Clients, d # c PROVE SoundAt(d)'
  <2>1. UNCHANGED <<printed[d], buf[d], wire[d], queue[d], holes[d]>>
    BY <1>1, <1>7
  <2> QED BY <1>5, <2>1, SoundSame
<1> QED BY <1>1, <1>3, <1>4, <1>6, <1>7

\* A flush keeps the invariant: it takes place while client() runs, whose socket did
\* connect if it was reported writable.
LEMMA HandleKeeps == ASSUME IInv, NEW c \in Clients, Handle(c) PROVE IInv'
<1>1. /\ UNCHANGED <<conn, gone, revents, buf, printed>> /\ cpc[c] = "result"
      /\ cpc' = [cpc EXCEPT ![c] = "poll"]
      /\ IF "writable" \in revents[c] THEN Flush(c) ELSE UNCHANGED <<queue, lost, wire, holes>>
  BY DEF Handle, server
<1>2. ~gone[c] /\ conn[c] # "none" /\ ("writable" \in revents[c] => conn[c] # "refused")
  BY <1>1 DEF IInv, Control
<1>3. CASE UNCHANGED <<queue, lost, wire, holes>>
  <2>1. Types'  BY <1>1, <1>3 DEF IInv, Types
  <2>2. Control'  BY <1>1, <1>3 DEF IInv, Types, Control
  <2>3. ASSUME NEW d \in Clients PROVE SoundAt(d)'
    BY <1>1, <1>3, SoundSame DEF IInv, Stands, Closed
  <2> QED BY <2>1, <2>2, <2>3 DEF IInv
<1>4. CASE Sent(c) /\ conn[c] # "refused"
  <2>1. /\ wire' \in [Clients -> Seq(Nat)] /\ queue' \in [Clients -> Seq(Nat)]
        /\ \A d \in Clients : SoundAt(d)'
    BY <1>1, <1>2, <1>4, SentKeeps
  <2>2. Types'  BY <1>1, <1>4, <2>1 DEF Sent, IInv, Types
  <2>3. Control'
    <3>1. \A d \in Clients \ {c} : wire'[d] = wire[d]  BY <1>4 DEF Sent, IInv, Types
    <3>2. cpc[c] = "result" /\ cpc'[c] = "poll" /\ \A d \in Clients \ {c} : cpc'[d] = cpc[d]
      BY <1>1 DEF IInv, Types
    <3>3. Control  BY DEF IInv
    <3>4. UNCHANGED <<conn, gone, revents, buf, printed, lost>>  BY <1>1, <1>4 DEF Sent
    <3> QED BY ONLY <3>1, <3>2, <3>3, <3>4 DEF Control
  <2> QED BY <2>1, <2>2, <2>3 DEF IInv
<1>5. CASE SendFails(c)
  <2>1. /\ queue' \in [Clients -> Seq(Nat)] /\ lost' \in [Clients -> BOOLEAN]
        /\ holes' \in [Clients -> SUBSET {"send", "limit"}] /\ UNCHANGED wire
        /\ \A d \in Clients : SoundAt(d)'
    BY <1>1, <1>5, FailureKeeps
  <2>2. Types'  BY <1>1, <2>1 DEF IInv, Types
  <2>3. \A d \in Clients \ {c} : lost'[d] = lost[d]
    BY <1>5 DEF SendFails, IInv, Types
  <2>4. Control'
    <3>1. cpc[c] = "result" /\ cpc'[c] = "poll" /\ \A d \in Clients \ {c} : cpc'[d] = cpc[d]
      BY <1>1 DEF IInv, Types
    <3>2. Control  BY DEF IInv
    <3>3. UNCHANGED <<conn, gone, revents, buf, printed, wire>>  BY <1>1, <2>1
    <3> QED BY ONLY <2>3, <3>1, <3>2, <3>3 DEF Control
  <2> QED BY <2>1, <2>2, <2>4 DEF IInv
<1>6. Flush(c) => Sent(c) \/ SendFails(c)
  BY DEF Flush, Sends, Unsent, Sent
<1> QED BY <1>1, <1>2, <1>3, <1>4, <1>5, <1>6

\* Three pieces of a sequence.
LEMMA CutTwice ==
    ASSUME NEW w \in Seq(Nat), NEW g \in Nat, NEW k \in Nat, g + k <= Len(w)
    PROVE  /\ SubSeq(w, 1, g) \in Seq(Nat) /\ SubSeq(w, g + 1, g + k) \in Seq(Nat)
           /\ SubSeq(w, g + k + 1, Len(w)) \in Seq(Nat)
           /\ (SubSeq(w, 1, g) \o SubSeq(w, g + 1, g + k)) \o SubSeq(w, g + k + 1, Len(w)) = w
<1> PICK l : l = Len(w)  OBVIOUS
<1> PICK m : m = g + k  OBVIOUS
<1>1. l \in Nat /\ m \in 0 .. l /\ g \in 0 .. m  OBVIOUS
<1>2. SubSeq(w, 1, m) \in Seq(Nat) /\ SubSeq(w, m + 1, l) \in Seq(Nat)
      /\ SubSeq(w, 1, m) \o SubSeq(w, m + 1, l) = w
  BY <1>1, CutQueue
<1>3. SubSeq(w, 1, g) \in Seq(Nat)  BY <1>1, CutQueue
<1>4. SubSeq(w, g + 1, m) \in Seq(Nat)
  <2>1. \A i \in g + 1 .. m : w[i] \in Nat
    <3>1. \A i \in 1 .. l : w[i] \in Nat  OBVIOUS
    <3> QED BY ONLY <1>1, <3>1
  <2> QED BY ONLY <1>1, <2>1, SubSeqProperties, w \in Seq(Nat), l = Len(w), g \in Nat
<1>5. SubSeq(w, 1, g) \o SubSeq(w, g + 1, m) = SubSeq(w, 1, m)
  <2>1. 1 \in 1 .. l + 1 /\ g \in 1 - 1 .. l /\ m \in g .. l
    BY ONLY <1>1, g \in Nat
  <2> QED BY ONLY <2>1, ConcatAdjacentSubSeq, w \in Seq(Nat), l = Len(w)
<1> QED BY ONLY <1>2, <1>3, <1>4, <1>5, l = Len(w), m = g + k

\* A tick of the server prints what it had and what it takes from the wire.
LEMMA TickKeeps == ASSUME IInv, NEW c \in Clients, Tick(c) PROVE IInv'
<1> USE DEF client
<1> PICK take \in Takes(c) :
       /\ wire' = [wire EXCEPT ![c] = SubSeq(@, take.got + take.dropped + 1, Len(@))]
       /\ \/ /\ printed' = [printed EXCEPT
                              ![c] = @ \o (buf[c] \o SubSeq(wire[c], 1, take.got))]
             /\ buf' = [buf EXCEPT ![c] = <<>>]
          \/ /\ buf' = [buf EXCEPT ![c] = buf[c] \o SubSeq(wire[c], 1, take.got)]
             /\ UNCHANGED printed
       /\ holes' = IF take.dropped = 0 THEN holes
                   ELSE [holes EXCEPT ![c] = @ \cup {"limit"}]
  BY DEF Tick, BufAfterPrinting
<1> PICK g : g = take.got  OBVIOUS
<1> PICK k : k = take.dropped  OBVIOUS
<1> PICK w : w = wire[c]  OBVIOUS
<1> PICK p : p = printed[c]  OBVIOUS
<1> PICK u : u = buf[c]  OBVIOUS
<1> PICK a : a = SubSeq(w, 1, g)  OBVIOUS
<1> PICK d : d = SubSeq(w, g + 1, g + k)  OBVIOUS
<1> PICK z : z = SubSeq(w, g + k + 1, Len(w))  OBVIOUS
<1>1. g \in Nat /\ k \in Nat /\ g + k <= Len(w) /\ (k = 0 => g = Len(w))
  <2>1. take.got \in 1 .. 2 * ByteLimit - 1 /\ take.dropped \in 0 .. ByteLimit
        /\ take.got + take.dropped <= Len(wire[c])
        /\ (take.dropped = 0 => take.got = Len(wire[c]))
    BY DEF Takes
  <2> QED BY ONLY <2>1, SizesAssumption, g = take.got, k = take.dropped, w = wire[c]
<1>2. w \in Seq(Nat) /\ p \in Seq(Nat) /\ u \in Seq(Nat) /\ queue[c] \in Seq(Nat)
      /\ p \o u \in Seq(Nat)
  BY TypesOf DEF IInv, Received
<1>3. a \in Seq(Nat) /\ d \in Seq(Nat) /\ z \in Seq(Nat) /\ (a \o d) \o z = w
  BY ONLY <1>1, <1>2, CutTwice, a = SubSeq(w, 1, g), d = SubSeq(w, g + 1, g + k),
          z = SubSeq(w, g + k + 1, Len(w))
<1>4. u \o a \in Seq(Nat)  BY ONLY <1>2, <1>3, ConcatProperties
<1>5. p \o (u \o a) \in Seq(Nat)  BY ONLY <1>2, <1>4, ConcatProperties
<1>6. /\ wire' = [wire EXCEPT ![c] = z]
      /\ \/ printed' = [printed EXCEPT ![c] = p \o (u \o a)] /\ buf' = [buf EXCEPT ![c] = <<>>]
         \/ buf' = [buf EXCEPT ![c] = u \o a] /\ UNCHANGED printed
      /\ holes' = IF k = 0 THEN holes ELSE [holes EXCEPT ![c] = @ \cup {"limit"}]
  OBVIOUS
<1>7. UNCHANGED <<cpc, queue, revents, conn, gone, lost>>
  BY DEF Tick
<1>8. <<>> \in Seq(Nat)  BY ONLY EmptySeq
<1>9. /\ wire \in [Clients -> Seq(Nat)] /\ buf \in [Clients -> Seq(Nat)]
      /\ printed \in [Clients -> Seq(Nat)] /\ holes \in [Clients -> SUBSET {"send", "limit"}]
  BY DEF IInv, Types
<1>10. Types'
  <2>1. wire' \in [Clients -> Seq(Nat)]  BY ONLY <1>3, <1>6, <1>9
  <2>2. buf' \in [Clients -> Seq(Nat)] /\ printed' \in [Clients -> Seq(Nat)]
    BY ONLY <1>4, <1>5, <1>6, <1>8, <1>9
  <2>3. holes' \in [Clients -> SUBSET {"send", "limit"}]
    BY ONLY <1>6, <1>9
  <2> QED BY <1>7, <2>1, <2>2, <2>3 DEF IInv, Types
<1>11. \A x \in Clients \ {c} :
          UNCHANGED <<printed[x], buf[x], wire[x], queue[x], holes[x]>>
  BY ONLY <1>6, <1>7, <1>9
<1>12. cpc[c] # "off"
  <2>1. CASE cpc[c] = "off"
    <3>1. wire[c] = <<>>  BY <2>1 DEF IInv, Control
    <3>2. Len(w) = 0  BY <3>1
    <3>3. take.got = 0  BY ONLY <1>1, <3>2, g = take.got
    <3>4. take.got \in 1 .. 2 * ByteLimit - 1  BY DEF Takes
    <3> QED BY ONLY <3>3, <3>4, SizesAssumption
  <2> QED BY <2>1
<1>13. Control'
  BY <1>7, <1>11, <1>12 DEF IInv, Control
<1>14. Received(c)' = (p \o u) \o a
  <2>0. p \in Seq(Nat) /\ u \in Seq(Nat) /\ a \in Seq(Nat)  BY ONLY <1>2, <1>3
  <2>1. (p \o u) \o a = p \o (u \o a)  BY ONLY <2>0, ConcatAssoc
  <2>2. (p \o (u \o a)) \o <<>> = p \o (u \o a)  BY ONLY <1>5, EmptyFront
  <2>3. \/ printed'[c] = p \o (u \o a) /\ buf'[c] = <<>>
        \/ printed'[c] = p /\ buf'[c] = u \o a
    BY ONLY <1>6, <1>9, c \in Clients, p = printed[c]
  <2> QED BY ONLY <2>1, <2>2, <2>3 DEF Received
<1>15. wire'[c] = z /\ queue'[c] = queue[c] /\ Stands(c)' = Stands(c)
       /\ holes'[c] = IF k = 0 THEN holes[c] ELSE holes[c] \cup {"limit"}
  <2>1. wire'[c] = z /\ queue'[c] = queue[c]  BY ONLY <1>6, <1>7, <1>9, c \in Clients
  <2>2. Stands(c)' = Stands(c)  BY ONLY <1>7 DEF Stands, Closed
  <2>3. holes'[c] = IF k = 0 THEN holes[c] ELSE holes[c] \cup {"limit"}
    BY ONLY <1>6, <1>9, c \in Clients
  <2> QED BY ONLY <2>1, <2>2, <2>3
<1>16. Sound(p \o u, w, queue[c], Stands(c), holes[c])
  BY DEF IInv, SoundAt, Received
<1>17. SoundAt(c)'
  <2>1. CASE k = 0
    <3>1. Sound((p \o u) \o w, <<>>, queue[c], Stands(c), holes[c])
      BY ONLY <1>2, <1>16, SoundAfterTick
    <3>2. a = w /\ z = <<>>
      <4>1. g = Len(w) /\ g + k + 1 = Len(w) + 1
        <5>1. g = Len(w) /\ g \in Nat  BY ONLY <1>1, <2>1
        <5>2. g + k + 1 = g + 1  BY ONLY <5>1, <2>1
        <5> QED BY ONLY <5>1, <5>2
      <4>2. a = SubSeq(w, 1, Len(w))  BY ONLY <4>1, a = SubSeq(w, 1, g)
      <4>3. z = SubSeq(w, Len(w) + 1, Len(w))
        BY ONLY <4>1, z = SubSeq(w, g + k + 1, Len(w))
      <4>4. a = w  BY ONLY <1>2, <4>2, SubSeqFull
      <4>5. z = <<>>
        <5>1. Len(w) + 1 \in Int /\ Len(w) \in Int /\ Len(w) < Len(w) + 1  BY ONLY <1>2
        <5>2. SubSeq(w, Len(w) + 1, Len(w)) = <<>>  BY ONLY <5>1, SubSeqEmpty
        <5> QED BY ONLY <4>3, <5>2
      <4> QED BY <4>4, <4>5
    <3> QED BY ONLY <1>14, <1>15, <2>1, <3>1, <3>2 DEF SoundAt
  <2>2. CASE k # 0
    <3>1. Sound(p \o u, (a \o d) \o z, queue[c], Stands(c), holes[c])
      BY ONLY <1>3, <1>16
    <3>2. Sound((p \o u) \o a, z, queue[c], Stands(c), holes[c] \cup {"limit"})
      BY ONLY <1>2, <1>3, <3>1, SoundAfterDrop
    <3> QED BY ONLY <1>14, <1>15, <2>2, <3>2 DEF SoundAt
  <2> QED BY <2>1, <2>2
<1>18. ASSUME NEW x \in Clients, x # c PROVE SoundAt(x)'
  BY <1>7, <1>11, <1>18, SoundSame DEF IInv, Stands, Closed
<1> QED BY <1>10, <1>13, <1>17, <1>18 DEF IInv

\* The invariant holds in every reachable state, with or without fairness.
LEMMA Invariance == Spec => []IInv
<1>1. Init => IInv
  <2> SUFFICES ASSUME Init PROVE IInv  OBVIOUS
  <2>1. Types  BY EmptySeq DEF Init, Types
  <2>2. Control  BY DEF Init, Control
  <2>3. ASSUME NEW c \in Clients PROVE SoundAt(c)
    <3>1. Received(c) = <<>> \o <<>> /\ wire[c] = <<>> /\ queue[c] = <<>> /\ Stands(c) = FALSE
      BY DEF Init, Received, Stands
    <3>2. <<>> \o <<>> = <<>>  BY EmptyFront
    <3> QED BY ONLY <3>1, <3>2 DEF SoundAt, Sound, Rises, FirstMessages
  <2> QED BY <2>1, <2>2, <2>3 DEF IInv
<1>2. IInv /\ [Next]_vars => IInv'
  <2> SUFFICES ASSUME IInv, [Next]_vars PROVE IInv'  OBVIOUS
  <2>1. CASE Next
    <3>1. CASE ServerRuns
      BY <3>1, QuietSteps, EndKeeps, TickKeeps DEF ServerRuns, Accepting
    <3>2. CASE StopServer  BY <3>2, EndKeeps
    <3>3. ASSUME NEW c \in Clients,
                 Start(c) \/ ClientRuns(c) \/ Reset(c) \/ ReceiveFails(c) \/ Kill(c)
          PROVE  IInv'
      BY <3>3, QuietSteps, StartKeeps, HandleKeeps, EndKeeps DEF ClientRuns
    <3> QED BY <2>1, <3>1, <3>2, <3>3 DEF Next
  <2>2. CASE UNCHANGED vars
    <3> USE <2>2 DEF vars, client, kernel, server
    <3>1. Types'  BY DEF IInv, Types
    <3>2. Control'  BY DEF IInv, Control
    <3>3. ASSUME NEW c \in Clients PROVE SoundAt(c)'
      BY SoundSame DEF IInv, Stands, Closed
    <3> QED BY <3>1, <3>2, <3>3 DEF IInv
  <2> QED BY <2>1, <2>2
<1> QED BY <1>1, <1>2, PTL DEF Spec

\* While a connection stands, every message of the client is printed, buffered, on its
\* way or queued, once and in order, but for the queue that a failed send threw away and
\* for what a tick has read past its limit: for any number of clients and messages, any
\* room and any limit.
THEOREM NothingIsLost == Spec => []StandingLosesNothing
<1>1. IInv => StandingLosesNothing
  BY Zenon DEF IInv, SoundAt, Sound, StandingLosesNothing, Flow
<1> QED BY <1>1, Invariance, PTL

\* Whatever fails, what the server prints of a client are messages of it, none twice and
\* in order, and the first ones without a gap unless a tick went past its limit.
THEOREM PrintsInOrder == Spec => []PrintedInOrder
<1>1. IInv => PrintedInOrder
  <2> SUFFICES ASSUME IInv, NEW c \in Clients
               PROVE  /\ Rises(printed[c])
                      /\ "limit" \notin holes[c] => FirstMessages(printed[c])
    BY DEF PrintedInOrder, Rises
  <2> PICK p : p = printed[c]  OBVIOUS
  <2> PICK u : u = buf[c]  OBVIOUS
  <2> PICK w : w = wire[c]  OBVIOUS
  <2> PICK q : q = queue[c]  OBVIOUS
  <2>1. p \in Seq(Nat) /\ u \in Seq(Nat) /\ w \in Seq(Nat) /\ q \in Seq(Nat)
    BY TypesOf DEF IInv
  <2>2. /\ Rises(((p \o u) \o w) \o q)
        /\ "limit" \notin holes[c] => FirstMessages((p \o u) \o w)
    BY DEF IInv, SoundAt, Sound, Received
  <2>3. p \o u \in Seq(Nat)  BY ONLY <2>1, ConcatProperties
  <2>4. (p \o u) \o w \in Seq(Nat)  BY ONLY <2>1, <2>3, ConcatProperties
  <2>5. Rises((p \o u) \o w)  BY ONLY <2>1, <2>2, <2>4, FrontOf
  <2>6. Rises(p \o u) /\ ("limit" \notin holes[c] => FirstMessages(p \o u))
    BY ONLY <2>1, <2>2, <2>3, <2>5, FrontOf
  <2>7. Rises(p) /\ ("limit" \notin holes[c] => FirstMessages(p))
    BY ONLY <2>1, <2>6, FrontOf
  <2> QED BY <2>7
<1> QED BY <1>1, Invariance, PTL
=============================================================================
