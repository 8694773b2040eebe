--------------------------- MODULE HttpServerProofs ---------------------------
(***************************************************************************)
(* Theorems about the loop of http_server().  The responses a client gets  *)
(* are those to its first requests: requests, pieces and responses are     *)
(* numbered without gaps from the client's last byte to the last response  *)
(* sent, unless a flush failed, and then the client is erased before       *)
(* anything else of it is sent.  And a pass ticks each client once: those  *)
(* before the iterator are the ones ticked and not erased.                 *)
(***************************************************************************)
EXTENDS HttpServer, SequenceTheorems, TLAPS

\* s holds the numbers that follow from.
Run(s, from) == \A i \in 1 .. Len(s) : s[i] = from + i

InTick == pc \in {"receive", "flush", "handle", "advance"}

Types ==
    /\ clients \in Seq(Clients) /\ backlog \in Seq(Clients) /\ it \in Nat \ {0}
    /\ conn \in [Clients -> {"none", "waiting", "open", "closed"}]
    /\ peer \in [Clients -> {"open", "fin", "rst"}]
    /\ sent \in [Clients -> Nat] /\ read \in [Clients -> Nat]
    /\ buf \in [Clients -> Seq(Nat)] /\ out \in [Clients -> Seq(Nat)]
    /\ arrived \in [Clients -> Seq(Nat)] /\ delivered \in [Clients -> Seq(Nat)]

\* A client's socket holds no more than it has room for.
Windows ==
    \A c \in Clients : read[c] <= Len(delivered[c]) /\ Len(delivered[c]) - read[c] <= Room

\* The list and the backlog hold a connection once, and know how far it is.
Lists ==
    /\ \A i \in 1 .. Len(clients) : conn[clients[i]] = "open"
    /\ \A i, j \in 1 .. Len(clients) : clients[i] = clients[j] => i = j
    /\ \A i \in 1 .. Len(backlog) : conn[backlog[i]] = "waiting"
    /\ \A i, j \in 1 .. Len(backlog) : backlog[i] = backlog[j] => i = j
    /\ InTick => it <= Len(clients)

\* For one client: what is queued, buffered and arrived follows what was sent, without a
\* gap.  d, o, b, a are the sequences delivered, out, buf and arrived.
Follows(d, o, b, a, pieces, end) ==
    /\ Run(o, Len(d))
    /\ Run(b, 2 * (Len(d) + Len(o))) /\ Run(a, 2 * (Len(d) + Len(o)) + Len(b))
    /\ end # "rst" => pieces = 2 * (Len(d) + Len(o)) + Len(b) + Len(a)

Numbered(c) == Follows(delivered[c], out[c], buf[c], arrived[c], sent[c], peer[c])

\* The tick of c has failed, and c is about to be erased.
Failed(c) == pc \in {"handle", "advance"} /\ c = Current /\ result = "error"

Answers ==
    \A c \in Clients :
        /\ Run(delivered[c], 0)
        /\ conn[c] # "open" => out[c] = <<>>
        /\ conn[c] # "closed" /\ ~Failed(c) => Numbered(c)

IInv == Types /\ Windows /\ Lists /\ Answers

-----------------------------------------------------------------------------
LEMMA LenNat == ASSUME NEW s \in Seq(Nat) PROVE Len(s) \in Nat
  OBVIOUS

\* Two runs, one after the other.
LEMMA JoinRuns ==
    ASSUME NEW s \in Seq(Nat), NEW t \in Seq(Nat), NEW from \in Nat,
           Run(s, from), Run(t, from + Len(s))
    PROVE  s \o t \in Seq(Nat) /\ Len(s \o t) = Len(s) + Len(t) /\ Run(s \o t, from)
<1>1. Len(s) \in Nat /\ Len(t) \in Nat /\ s \o t \in Seq(Nat) /\ Len(s \o t) = Len(s) + Len(t)
  OBVIOUS
<1>2. ASSUME NEW i \in 1 .. Len(s \o t) PROVE (s \o t)[i] = from + i
  <2>1. CASE i <= Len(s)  BY <1>1, <2>1 DEF Run
  <2>2. CASE i > Len(s)
    <3>1. i - Len(s) \in 1 .. Len(t)  BY <1>1, <2>2
    <3>2. (s \o t)[i] = t[i - Len(s)]  BY <1>1, <2>2
    <3> QED BY <1>1, <3>1, <3>2 DEF Run
  <2> QED BY <1>1, <2>1, <2>2
<1> QED BY <1>1, <1>2 DEF Run

\* A run, cut in two.
LEMMA CutRun ==
    ASSUME NEW s \in Seq(Nat), NEW from \in Nat, Run(s, from), NEW n \in 0 .. Len(s)
    PROVE  /\ SubSeq(s, 1, n) \in Seq(Nat) /\ Len(SubSeq(s, 1, n)) = n
           /\ Run(SubSeq(s, 1, n), from)
           /\ SubSeq(s, n + 1, Len(s)) \in Seq(Nat)
           /\ Len(SubSeq(s, n + 1, Len(s))) = Len(s) - n
           /\ Run(SubSeq(s, n + 1, Len(s)), from + n)
<1>1. Len(s) \in Nat /\ n \in Nat /\ n <= Len(s) /\ \A i \in 1 .. Len(s) : s[i] \in Nat
  OBVIOUS
<1>2. /\ SubSeq(s, 1, n) \in Seq(Nat) /\ Len(SubSeq(s, 1, n)) = n
      /\ \A i \in 1 .. n : SubSeq(s, 1, n)[i] = s[i]
  <2>1. \A i \in 1 .. n : s[i] \in Nat  BY <1>1
  <2>2. /\ SubSeq(s, 1, n) \in Seq(Nat)
        /\ Len(SubSeq(s, 1, n)) = IF 1 <= n THEN n - 1 + 1 ELSE 0
        /\ \A i \in 1 .. n - 1 + 1 : SubSeq(s, 1, n)[i] = s[1 + i - 1]
    BY <1>1, <2>1, SubSeqProperties
  <2> QED BY <1>1, <2>2
<1>3. /\ SubSeq(s, n + 1, Len(s)) \in Seq(Nat)
      /\ Len(SubSeq(s, n + 1, Len(s))) = Len(s) - n
      /\ \A i \in 1 .. Len(s) - n : SubSeq(s, n + 1, Len(s))[i] = s[n + i]
  <2>1. \A i \in n + 1 .. Len(s) : s[i] \in Nat  BY <1>1
  <2>2. /\ SubSeq(s, n + 1, Len(s)) \in Seq(Nat)
        /\ Len(SubSeq(s, n + 1, Len(s))) =
              IF n + 1 <= Len(s) THEN Len(s) - (n + 1) + 1 ELSE 0
        /\ \A i \in 1 .. Len(s) - (n + 1) + 1 :
              SubSeq(s, n + 1, Len(s))[i] = s[n + 1 + i - 1]
    BY <1>1, <2>1, SubSeqProperties
  <2> QED BY <1>1, <2>2
<1>4. \A i \in 1 .. n : SubSeq(s, 1, n)[i] = from + i  BY <1>1, <1>2 DEF Run
<1>5. \A i \in 1 .. Len(s) - n : SubSeq(s, n + 1, Len(s))[i] = from + n + i
  BY <1>1, <1>3 DEF Run
<1> QED BY <1>2, <1>3, <1>4, <1>5 DEF Run

\* One more number.
LEMMA ExtendRun ==
    ASSUME NEW s \in Seq(Nat), NEW from \in Nat, Run(s, from)
    PROVE  /\ Append(s, from + Len(s) + 1) \in Seq(Nat)
           /\ Len(Append(s, from + Len(s) + 1)) = Len(s) + 1
           /\ Run(Append(s, from + Len(s) + 1), from)
<1>1. Len(s) \in Nat /\ from + Len(s) + 1 \in Nat  OBVIOUS
<1>2. /\ Append(s, from + Len(s) + 1) \in Seq(Nat)
      /\ Len(Append(s, from + Len(s) + 1)) = Len(s) + 1
  BY <1>1
<1>3. ASSUME NEW i \in 1 .. Len(s) + 1
      PROVE  Append(s, from + Len(s) + 1)[i] = from + i
  <2>1. CASE i <= Len(s)
    <3>1. i \in 1 .. Len(s) /\ Append(s, from + Len(s) + 1)[i] = s[i]  BY <1>1, <2>1
    <3> QED BY <3>1 DEF Run
  <2>2. CASE i = Len(s) + 1  BY <1>1, <2>2
  <2> QED BY <1>1, <2>1, <2>2
<1> QED BY <1>2, <1>3 DEF Run

\* A list without its i-th entry.
LEMMA RemoveAtKeeps ==
    ASSUME NEW S, NEW s \in Seq(S), NEW i \in 1 .. Len(s)
    PROVE  /\ RemoveAt(s, i) \in Seq(S) /\ Len(RemoveAt(s, i)) = Len(s) - 1
           /\ \A j \in 1 .. Len(s) - 1 :
                 RemoveAt(s, i)[j] = IF j < i THEN s[j] ELSE s[j + 1]
<1> DEFINE a == SubSeq(s, 1, i - 1)
           b == SubSeq(s, i + 1, Len(s))
<1>1. Len(s) \in Nat /\ i \in Nat \ {0} /\ i <= Len(s) /\ \A j \in 1 .. Len(s) : s[j] \in S
  OBVIOUS
<1>2. a \in Seq(S) /\ Len(a) = i - 1 /\ \A j \in 1 .. i - 1 : a[j] = s[j]
  <2>1. \A j \in 1 .. i - 1 : s[j] \in S  BY <1>1
  <2>2. /\ a \in Seq(S) /\ Len(a) = (IF 1 <= i - 1 THEN i - 1 - 1 + 1 ELSE 0)
        /\ \A j \in 1 .. i - 1 - 1 + 1 : a[j] = s[1 + j - 1]
    BY <1>1, <2>1, SubSeqProperties
  <2> HIDE DEF a
  <2> QED BY <1>1, <2>2
<1>3. b \in Seq(S) /\ Len(b) = Len(s) - i /\ \A j \in 1 .. Len(s) - i : b[j] = s[i + j]
  <2>1. \A j \in i + 1 .. Len(s) : s[j] \in S  BY <1>1
  <2>2. /\ b \in Seq(S) /\ Len(b) = (IF i + 1 <= Len(s) THEN Len(s) - (i + 1) + 1 ELSE 0)
        /\ \A j \in 1 .. Len(s) - (i + 1) + 1 : b[j] = s[i + 1 + j - 1]
    BY <1>1, <2>1, SubSeqProperties
  <2> HIDE DEF b
  <2> QED BY <1>1, <2>2
<1>4. a \o b \in Seq(S) /\ Len(a \o b) = Len(s) - 1
      /\ \A j \in 1 .. Len(s) - 1 : (a \o b)[j] = IF j < i THEN s[j] ELSE s[j + 1]
  <2> HIDE DEF a, b
  <2>1. /\ a \o b \in Seq(S) /\ Len(a \o b) = Len(a) + Len(b)
        /\ \A j \in 1 .. Len(a) + Len(b) : (a \o b)[j] = IF j <= Len(a) THEN a[j] ELSE b[j - Len(a)]
    <3>1. a \in Seq(S) /\ b \in Seq(S)  BY <1>2, <1>3
    <3> QED BY ONLY <3>1, ConcatProperties
  <2>2. Len(a) + Len(b) = Len(s) - 1  BY <1>1, <1>2, <1>3
  <2>3. ASSUME NEW j \in 1 .. Len(s) - 1
        PROVE  (a \o b)[j] = IF j < i THEN s[j] ELSE s[j + 1]
    <3>1. CASE j < i
      <4>1. j \in 1 .. i - 1 /\ j <= Len(a)  BY <1>1, <1>2, <3>1
      <4> QED BY <1>2, <2>1, <2>2, <3>1, <4>1
    <3>2. CASE j >= i
      <4>1. ~(j <= Len(a)) /\ ~(j < i)  BY <1>1, <1>2, <3>2
      <4>2. (a \o b)[j] = b[j - Len(a)]  BY <2>1, <2>2, <4>1
      <4>3. j - Len(a) \in 1 .. Len(s) - i /\ i + (j - Len(a)) = j + 1
        BY <1>1, <1>2, <3>2
      <4>4. b[j - Len(a)] = s[i + (j - Len(a))]  BY <1>3, <4>3
      <4> QED BY <4>1, <4>2, <4>3, <4>4
    <3>3. j < i \/ j >= i  BY <1>1
    <3> QED BY <3>1, <3>2, <3>3, Zenon
  <2> QED BY <2>1, <2>2, <2>3
<1> QED BY <1>4 DEF RemoveAt

-----------------------------------------------------------------------------
\* recv(): what arrived goes behind what is buffered.
LEMMA ReceiveFollows ==
    ASSUME NEW d \in Seq(Nat), NEW o \in Seq(Nat), NEW b \in Seq(Nat), NEW a \in Seq(Nat),
           NEW pieces, NEW end, Follows(d, o, b, a, pieces, end)
    PROVE  b \o a \in Seq(Nat) /\ Follows(d, o, b \o a, <<>>, pieces, end)
<1>1. PICK ld \in Nat, lo \in Nat, lb \in Nat, la \in Nat :
         ld = Len(d) /\ lo = Len(o) /\ lb = Len(b) /\ la = Len(a)
  BY LenNat
<1>2. /\ Run(o, ld) /\ Run(b, 2 * (ld + lo)) /\ Run(a, 2 * (ld + lo) + lb)
      /\ end # "rst" => pieces = 2 * (ld + lo) + lb + la
  BY <1>1 DEF Follows
<1>3. 2 * (ld + lo) \in Nat /\ lb + la \in Nat  OBVIOUS
<1>4. b \o a \in Seq(Nat) /\ Len(b \o a) = lb + la /\ Run(b \o a, 2 * (ld + lo))
  BY <1>1, <1>2, <1>3, JoinRuns
<1>5. <<>> \in Seq(Nat) /\ Len(<<>>) = 0 /\ Run(<<>>, 2 * (ld + lo) + (lb + la))  BY DEF Run
<1>6. end # "rst" => pieces = 2 * (ld + lo) + (lb + la) + 0  BY <1>2, <1>3
<1> QED BY <1>1, <1>2, <1>3, <1>4, <1>5, <1>6 DEF Follows

\* send(): the first m responses of the queue go behind those sent.
LEMMA FlushFollows ==
    ASSUME NEW d \in Seq(Nat), NEW o \in Seq(Nat), NEW b \in Seq(Nat), NEW a \in Seq(Nat),
           NEW pieces, NEW end, Follows(d, o, b, a, pieces, end), Run(d, 0),
           NEW m \in 0 .. Len(o)
    PROVE  LET front == SubSeq(o, 1, m)
               rest  == SubSeq(o, m + 1, Len(o))
           IN  /\ d \o front \in Seq(Nat) /\ Len(d \o front) = Len(d) + m /\ Run(d \o front, 0)
               /\ rest \in Seq(Nat) /\ Follows(d \o front, rest, b, a, pieces, end)
<1> DEFINE front == SubSeq(o, 1, m)
           rest  == SubSeq(o, m + 1, Len(o))
<1>1. PICK ld \in Nat, lo \in Nat, lb \in Nat, la \in Nat :
         ld = Len(d) /\ lo = Len(o) /\ lb = Len(b) /\ la = Len(a)
  BY LenNat
<1>2. /\ Run(o, ld) /\ Run(b, 2 * (ld + lo)) /\ Run(a, 2 * (ld + lo) + lb)
      /\ end # "rst" => pieces = 2 * (ld + lo) + lb + la
  BY <1>1 DEF Follows
<1>3. m \in 0 .. lo /\ m \in Nat /\ ld + m \in Nat /\ lo - m \in Nat /\ (ld + m) + (lo - m) = ld + lo
  <2>1. m \in 0 .. lo  BY <1>1
  <2> QED BY <2>1
<1>4. /\ front \in Seq(Nat) /\ Len(front) = m /\ Run(front, ld)
      /\ rest \in Seq(Nat) /\ Len(rest) = lo - m /\ Run(rest, ld + m)
  <2>1. Run(o, ld) /\ lo = Len(o)  BY <1>1, <1>2
  <2>2. m \in 0 .. Len(o)  BY <1>3, <2>1
  <2>3. /\ front \in Seq(Nat) /\ Len(front) = m /\ Run(front, ld)
        /\ rest \in Seq(Nat) /\ Len(rest) = Len(o) - m /\ Run(rest, ld + m)
    BY ONLY <2>1, <2>2, CutRun
  <2> QED BY <2>1, <2>3
<1> HIDE DEF front, rest
<1>5. d \o front \in Seq(Nat) /\ Len(d \o front) = ld + m /\ Run(d \o front, 0)
  <2>1. 0 + ld = ld  OBVIOUS
  <2> QED BY <1>1, <1>4, <2>1, JoinRuns
<1>6. Follows(d \o front, rest, b, a, pieces, end)
  BY <1>1, <1>2, <1>3, <1>4, <1>5 DEF Follows
<1> QED BY <1>1, <1>4, <1>5, <1>6 DEF front, rest

\* A request is taken out of the buffer, and its number goes into the queue.
LEMMA HandleFollows ==
    ASSUME NEW d \in Seq(Nat), NEW o \in Seq(Nat), NEW b \in Seq(Nat), NEW a \in Seq(Nat),
           NEW pieces, NEW end, Follows(d, o, b, a, pieces, end), Len(b) >= 2
    PROVE  Follows(d, Append(o, b[2] \div 2), SubSeq(b, 3, Len(b)), a, pieces, end)
<1>1. PICK ld \in Nat, lo \in Nat, lb \in Nat, la \in Nat :
         ld = Len(d) /\ lo = Len(o) /\ lb = Len(b) /\ la = Len(a)
  BY LenNat
<1>2. /\ Run(o, ld) /\ Run(b, 2 * (ld + lo)) /\ Run(a, 2 * (ld + lo) + lb)
      /\ end # "rst" => pieces = 2 * (ld + lo) + lb + la
  BY <1>1 DEF Follows
<1>3. lb >= 2 /\ 2 \in 0 .. lb /\ 2 \in 1 .. lb /\ lb - 2 \in Nat  BY <1>1
<1>4. b[2] = 2 * (ld + lo) + 2  BY <1>1, <1>2, <1>3 DEF Run
<1>5. b[2] \div 2 = ld + lo + 1  BY <1>4
<1>6. /\ Append(o, b[2] \div 2) \in Seq(Nat) /\ Len(Append(o, b[2] \div 2)) = lo + 1
      /\ Run(Append(o, b[2] \div 2), ld)
  <2>1. Run(o, ld) /\ lo = Len(o) /\ b[2] \div 2 = ld + Len(o) + 1  BY <1>1, <1>2, <1>5
  <2>2. /\ Append(o, ld + Len(o) + 1) \in Seq(Nat)
        /\ Len(Append(o, ld + Len(o) + 1)) = Len(o) + 1
        /\ Run(Append(o, ld + Len(o) + 1), ld)
    BY ONLY <2>1, ExtendRun
  <2> QED BY ONLY <2>1, <2>2
<1>7. /\ SubSeq(b, 3, Len(b)) \in Seq(Nat) /\ Len(SubSeq(b, 3, Len(b))) = lb - 2
      /\ Run(SubSeq(b, 3, Len(b)), 2 * (ld + lo) + 2)
  <2>1. 2 * (ld + lo) \in Nat /\ 2 + 1 = 3  OBVIOUS
  <2>2. 2 \in 0 .. Len(b)  BY <1>1, <1>3
  <2>3. /\ SubSeq(b, 2 + 1, Len(b)) \in Seq(Nat) /\ Len(SubSeq(b, 2 + 1, Len(b))) = Len(b) - 2
        /\ Run(SubSeq(b, 2 + 1, Len(b)), 2 * (ld + lo) + 2)
    BY <1>2, <2>1, <2>2, CutRun
  <2> QED BY <1>1, <2>1, <2>3
<1>8. /\ 2 * (ld + (lo + 1)) = 2 * (ld + lo) + 2
      /\ 2 * (ld + (lo + 1)) + (lb - 2) = 2 * (ld + lo) + lb
      /\ 2 * (ld + (lo + 1)) + (lb - 2) + la = 2 * (ld + lo) + lb + la
      /\ lo + 1 \in Nat
  OBVIOUS
<1> QED BY <1>1, <1>2, <1>3, <1>6, <1>7, <1>8 DEF Follows

\* One more piece arrives.
LEMMA SendFollows ==
    ASSUME NEW d \in Seq(Nat), NEW o \in Seq(Nat), NEW b \in Seq(Nat), NEW a \in Seq(Nat),
           NEW pieces \in Nat, NEW end, Follows(d, o, b, a, pieces, end), end # "rst"
    PROVE  Follows(d, o, b, Append(a, pieces + 1), pieces + 1, end)
<1>1. PICK ld \in Nat, lo \in Nat, lb \in Nat, la \in Nat :
         ld = Len(d) /\ lo = Len(o) /\ lb = Len(b) /\ la = Len(a)
  BY LenNat
<1>2. /\ Run(o, ld) /\ Run(b, 2 * (ld + lo)) /\ Run(a, 2 * (ld + lo) + lb)
      /\ pieces = 2 * (ld + lo) + lb + la
  BY <1>1 DEF Follows
<1>3. 2 * (ld + lo) + lb \in Nat /\ la + 1 \in Nat
      /\ pieces + 1 = 2 * (ld + lo) + lb + (la + 1)
      /\ pieces + 1 = 2 * (ld + lo) + lb + la + 1
  BY <1>2
<1>4. /\ Append(a, pieces + 1) \in Seq(Nat) /\ Len(Append(a, pieces + 1)) = la + 1
      /\ Run(Append(a, pieces + 1), 2 * (ld + lo) + lb)
  BY <1>1, <1>2, <1>3, ExtendRun
<1> QED BY <1>1, <1>2, <1>3, <1>4 DEF Follows

-----------------------------------------------------------------------------
\* During a tick the current client is in the list, and so open.
LEMMA CurrentIsOpen ==
    ASSUME IInv, InTick
    PROVE  /\ it \in 1 .. Len(clients) /\ Current \in Clients /\ conn[Current] = "open"
           /\ \A i \in 1 .. Len(clients) : clients[i] = Current => i = it
<1>1. clients \in Seq(Clients) /\ it \in 1 .. Len(clients)  BY DEF IInv, Types, Lists
<1>2. Current \in Clients  BY <1>1, ElementOfSeq DEF Current
<1>3. /\ \A i \in 1 .. Len(clients) : conn[clients[i]] = "open"
      /\ \A i, j \in 1 .. Len(clients) : clients[i] = clients[j] => i = j
  BY DEF IInv, Lists
<1> QED BY <1>1, <1>2, <1>3 DEF Current

\* What Numbered says of a client depends on that client alone.
LEMMA NumberedStays ==
    ASSUME NEW d, Numbered(d), delivered'[d] = delivered[d], out'[d] = out[d],
           buf'[d] = buf[d], arrived'[d] = arrived[d],
           sent'[d] = sent[d], peer'[d] = peer[d]
    PROVE  Numbered(d)'
  BY DEF Numbered

\* The steps that move no piece and no response.
LEMMA ControlKeeps ==
    ASSUME IInv, Touch \/ AcceptFails \/ Visit \/ PassEnds \/ KeepClient
    PROVE  IInv'
<1> USE DEF IInv
<1>1. UNCHANGED <<clients, backlog, conn, peer, sent, read, buf, out, arrived, delivered>>
  BY DEF Touch, AcceptFails, Visit, PassEnds, KeepClient, streamVars, kernVars
<1>2. it' \in Nat \ {0} /\ (InTick' => it' <= Len(clients))
  <2>1. it \in Nat \ {0}  BY DEF Types
  <2>2. CASE Touch  BY <2>1, <2>2 DEF Touch, InTick
  <2>3. CASE AcceptFails  BY <2>1, <2>3 DEF AcceptFails, InTick
  <2>4. CASE Visit  BY <2>1, <2>4 DEF Visit, InTick
  <2>5. CASE PassEnds  BY <2>5 DEF PassEnds, InTick
  <2>6. CASE KeepClient  BY <2>1, <2>6 DEF KeepClient, InTick
  <2> QED BY <2>2, <2>3, <2>4, <2>5, <2>6
<1>3. Types'  BY <1>1, <1>2 DEF Types
<1>4. Windows' /\ Lists'  BY <1>1, <1>2 DEF Windows, Lists
<1>5. \A c \in Clients : ~Failed(c)
  BY DEF Failed, Touch, AcceptFails, Visit, PassEnds, KeepClient, Disconnected
<1>6. \A c \in Clients : Numbered(c) => Numbered(c)'  BY <1>1, NumberedStays
<1>7. Answers'
  <2> SUFFICES ASSUME NEW c \in Clients
               PROVE  /\ Run(delivered[c], 0)'
                      /\ (conn[c] # "open" => out[c] = <<>>)'
                      /\ conn'[c] # "closed" => Numbered(c)'
    BY DEF Answers
  <2>1. /\ Run(delivered[c], 0) /\ (conn[c] # "open" => out[c] = <<>>)
        /\ conn[c] # "closed" => Numbered(c)
    BY <1>5 DEF Answers
  <2> QED BY <1>1, <1>6, <2>1 DEF Run
<1> QED BY <1>3, <1>4, <1>7

\* accept(): the first connection of the backlog becomes the last client.
LEMMA AcceptKeeps == ASSUME IInv, AcceptClient PROVE IInv'
<1> USE DEF IInv
<1> DEFINE h == Head(backlog)
<1>1. /\ h \in Clients /\ h = backlog[1] /\ conn[h] = "waiting" /\ Len(backlog) \in Nat \ {0}
      /\ Tail(backlog) \in Seq(Clients) /\ Len(Tail(backlog)) = Len(backlog) - 1
      /\ \A i \in 1 .. Len(backlog) - 1 : Tail(backlog)[i] = backlog[i + 1]
  <2>1. backlog \in Seq(Clients) /\ backlog # <<>>  BY DEF AcceptClient, Types
  <2>2. Len(backlog) \in Nat \ {0} /\ Head(backlog) = backlog[1]  BY <2>1
  <2>3. 1 \in 1 .. Len(backlog)  BY <2>2
  <2>4. backlog[1] \in Clients  BY <2>1, <2>3, ElementOfSeq
  <2>5. conn[backlog[1]] = "waiting"  BY <2>3 DEF Lists
  <2>6. /\ Tail(backlog) \in Seq(Clients) /\ Len(Tail(backlog)) = Len(backlog) - 1
        /\ \A i \in 1 .. Len(backlog) - 1 : Tail(backlog)[i] = backlog[i + 1]
    BY <2>1
  <2> QED BY <2>2, <2>4, <2>5, <2>6
<1> HIDE DEF h
<1>2. /\ clients' = Append(clients, h) /\ backlog' = Tail(backlog)
      /\ conn' = [conn EXCEPT ![h] = "open"] /\ pc = "accept" /\ pc' = "touch"
      /\ UNCHANGED <<it, peer, sent, read, buf, out, arrived, delivered>>
  BY DEF AcceptClient, h, streamVars
<1>3. /\ clients' \in Seq(Clients) /\ Len(clients') = Len(clients) + 1
      /\ Len(clients) \in Nat /\ clients'[Len(clients) + 1] = h
      /\ \A i \in 1 .. Len(clients) : clients'[i] = clients[i] /\ clients[i] \in Clients
  <2>1. clients \in Seq(Clients)  BY DEF Types
  <2>2. /\ clients' \in Seq(Clients) /\ Len(clients') = Len(clients) + 1
        /\ clients'[Len(clients) + 1] = h
        /\ \A i \in 1 .. Len(clients) : clients'[i] = clients[i]
    BY <1>1, <1>2, <2>1, AppendProperties
  <2>3. Len(clients) \in Nat  BY <2>1, LenProperties
  <2>4. \A i \in 1 .. Len(clients) : clients[i] \in Clients  BY <2>1, ElementOfSeq
  <2> QED BY <2>2, <2>3, <2>4
<1>4. Types'  BY <1>1, <1>2, <1>3 DEF Types
<1>5. Windows'  BY <1>2 DEF Windows
<1>6. Lists'
  <2>1. \A i \in 1 .. Len(clients') : conn'[clients'[i]] = "open"
    <3> TAKE i \in 1 .. Len(clients')
    <3>1. CASE i = Len(clients) + 1  BY <1>1, <1>2, <1>3, <3>1 DEF Types
    <3>2. CASE i # Len(clients) + 1
      <4>1. i \in 1 .. Len(clients)  BY <1>3, <3>2
      <4>2. clients'[i] = clients[i] /\ clients[i] \in Clients /\ conn[clients[i]] = "open"
        BY <1>3, <4>1 DEF Lists
      <4> QED BY <1>2, <4>2 DEF Types
    <3> QED BY <3>1, <3>2
  <2>2. ASSUME NEW i \in 1 .. Len(clients'), NEW j \in 1 .. Len(clients'),
               clients'[i] = clients'[j]
        PROVE  i = j
    <3>1. \A k \in 1 .. Len(clients) : clients[k] # h  BY <1>1 DEF Lists
    <3>2. i \in 1 .. Len(clients) \/ i = Len(clients) + 1  BY <1>3
    <3>3. j \in 1 .. Len(clients) \/ j = Len(clients) + 1  BY <1>3
    <3> QED BY <1>3, <2>2, <3>1, <3>2, <3>3 DEF Lists
  <2>3. \A i \in 1 .. Len(backlog') : i + 1 \in 1 .. Len(backlog) /\ i + 1 # 1
                                      /\ backlog'[i] = backlog[i + 1]
    BY <1>1, <1>2
  <2>4. \A i \in 1 .. Len(backlog') : conn'[backlog'[i]] = "waiting"
    <3> TAKE i \in 1 .. Len(backlog')
    <3>1. backlog[i + 1] \in Clients /\ conn[backlog[i + 1]] = "waiting"
      <4>1. i + 1 \in 1 .. Len(backlog)  BY <2>3
      <4>2. \A k \in 1 .. Len(backlog) : backlog[k] \in Clients
        <5>1. backlog \in Seq(Clients)  BY DEF Types
        <5> QED BY <5>1, ElementOfSeq
      <4>3. \A k \in 1 .. Len(backlog) : conn[backlog[k]] = "waiting"  BY DEF Lists
      <4> QED BY <4>1, <4>2, <4>3, Zenon
    <3>2. backlog[i + 1] # h
      <4>1. 1 \in 1 .. Len(backlog)  BY <1>1
      <4> QED BY <1>1, <2>3, <4>1 DEF Lists
    <3> QED BY <1>2, <2>3, <3>1, <3>2 DEF Types
  <2>5. \A i, j \in 1 .. Len(backlog') : backlog'[i] = backlog'[j] => i = j
    <3> TAKE i, j \in 1 .. Len(backlog')
    <3>1. backlog[i + 1] = backlog[j + 1] => i + 1 = j + 1  BY <2>3 DEF Lists
    <3>2. i \in Nat /\ j \in Nat  OBVIOUS
    <3>3. backlog'[i] = backlog[i + 1] /\ backlog'[j] = backlog[j + 1]  BY <2>3
    <3> QED BY <3>1, <3>2, <3>3
  <2>6. ~InTick'  BY <1>2 DEF InTick
  <2> QED BY <2>1, <2>2, <2>4, <2>5, <2>6 DEF Lists
<1>7. Answers'
  <2> SUFFICES ASSUME NEW c \in Clients
               PROVE  /\ Run(delivered[c], 0)'
                      /\ (conn[c] # "open" => out[c] = <<>>)'
                      /\ conn'[c] # "closed" => Numbered(c)'
    BY DEF Answers
  <2>1. /\ conn'[c] = "closed" <=> conn[c] = "closed"
        /\ conn'[c] # "open" => conn[c] # "open"
    BY <1>1, <1>2 DEF Types
  <2>2. /\ Run(delivered[c], 0) /\ (conn[c] # "open" => out[c] = <<>>)
        /\ conn[c] # "closed" => Numbered(c)
    BY <1>2 DEF Answers, Failed
  <2>3. Numbered(c) => Numbered(c)'  BY <1>2, NumberedStays
  <2> QED BY <1>2, <2>1, <2>2, <2>3 DEF Run
<1> QED BY <1>4, <1>5, <1>6, <1>7

\* What a step of the tick has to show: it leaves the lists alone and the other clients.
LEMMA TickFrame ==
    ASSUME IInv, InTick, InTick', NEW c \in Clients, c = Current,
           UNCHANGED <<clients, it, backlog, conn, peer, sent, read>>,
           NEW b \in Seq(Nat), NEW o \in Seq(Nat), NEW a \in Seq(Nat), NEW s \in Seq(Nat),
           buf' = [buf EXCEPT ![c] = b], out' = [out EXCEPT ![c] = o],
           arrived' = [arrived EXCEPT ![c] = a],
           delivered' = [delivered EXCEPT ![c] = s],
           Run(s, 0), read[c] <= Len(s), Len(s) - read[c] <= Room,
           ~Failed(c)' => Numbered(c)'
    PROVE  IInv'
<1> USE DEF IInv
<1>1. conn[c] = "open"  BY CurrentIsOpen
<1>2. Types'  BY <1>1 DEF Types
<1>3. Windows'  BY <1>1 DEF Windows, Types
<1>4. Lists'  BY DEF Lists, Types
<1>5. Answers'
  <2> SUFFICES ASSUME NEW d \in Clients
               PROVE  /\ Run(delivered'[d], 0)
                      /\ conn'[d] # "open" => out'[d] = <<>>
                      /\ conn'[d] # "closed" /\ ~Failed(d)' => Numbered(d)'
    BY DEF Answers, Run
  <2>1. CASE d = c
    <3>1. delivered'[c] = s /\ conn'[c] = "open"  BY <1>1 DEF Types
    <3> QED BY <2>1, <3>1
  <2>2. CASE d # c
    <3>1. /\ delivered'[d] = delivered[d] /\ out'[d] = out[d] /\ buf'[d] = buf[d]
          /\ arrived'[d] = arrived[d] /\ sent'[d] = sent[d] /\ peer'[d] = peer[d]
      BY <2>2 DEF Types
    <3>2. ~Failed(d)  BY <2>2 DEF Failed
    <3>3. /\ Run(delivered[d], 0) /\ (conn[d] # "open" => out[d] = <<>>)
          /\ conn[d] # "closed" => Numbered(d)
      BY <3>2 DEF Answers
    <3>4. Numbered(d) => Numbered(d)'  BY <3>1, NumberedStays
    <3> QED BY <3>1, <3>3, <3>4
  <2> QED BY <2>1, <2>2
<1> QED BY <1>2, <1>3, <1>4, <1>5

\* The sequences of a client, for the lemmas about Follows.
LEMMA ClientTypes ==
    ASSUME IInv, NEW c \in Clients
    PROVE  /\ buf[c] \in Seq(Nat) /\ out[c] \in Seq(Nat) /\ arrived[c] \in Seq(Nat)
           /\ delivered[c] \in Seq(Nat) /\ sent[c] \in Nat /\ read[c] \in Nat
           /\ Run(delivered[c], 0)
           /\ read[c] <= Len(delivered[c]) /\ Len(delivered[c]) - read[c] <= Room
  BY DEF IInv, Types, Windows, Answers

LEMMA ReceiveKeeps == ASSUME IInv, TickReceives PROVE IInv'
<1>0. PICK c : c = Current  OBVIOUS
<1>1. InTick /\ InTick' /\ ~Failed(c)  BY <1>0 DEF TickReceives, InTick, Failed
<1>2. c \in Clients /\ conn[c] = "open"  BY <1>0, <1>1, CurrentIsOpen
<1>3. Numbered(c)  BY <1>1, <1>2 DEF IInv, Answers
<1>4. /\ UNCHANGED <<clients, it, backlog, conn, peer, sent, read>>
      /\ buf' = [buf EXCEPT ![c] = buf[c] \o arrived[c]]
      /\ arrived' = [arrived EXCEPT ![c] = <<>>]
      /\ out' = [out EXCEPT ![c] = out[c]] /\ delivered' = [delivered EXCEPT ![c] = delivered[c]]
  BY <1>0 DEF TickReceives, IInv, Types
<1>5. /\ buf[c] \o arrived[c] \in Seq(Nat) /\ <<>> \in Seq(Nat)
      /\ Follows(delivered[c], out[c], buf[c] \o arrived[c], <<>>, sent[c], peer[c])
  BY <1>2, <1>3, ClientTypes, ReceiveFollows DEF Numbered
<1>6. Numbered(c)'
  <2>1. /\ buf'[c] = buf[c] \o arrived[c] /\ arrived'[c] = <<>> /\ out'[c] = out[c]
        /\ delivered'[c] = delivered[c] /\ sent'[c] = sent[c] /\ peer'[c] = peer[c]
    BY <1>2, <1>4 DEF IInv, Types
  <2> QED BY <1>5, <2>1 DEF Numbered
<1> QED BY <1>0, <1>1, <1>2, <1>4, <1>5, <1>6, ClientTypes, TickFrame

LEMMA FlushKeeps == ASSUME IInv, TickFlushes PROVE IInv'
<1>0. PICK c : c = Current  OBVIOUS
<1> DEFINE m == Fits(c)
           front == SubSeq(out[c], 1, m)
           rest  == SubSeq(out[c], m + 1, Len(out[c]))
<1>1. InTick /\ InTick' /\ ~Failed(c)  BY <1>0 DEF TickFlushes, InTick, Failed
<1>2. c \in Clients /\ conn[c] = "open"  BY <1>0, <1>1, CurrentIsOpen
<1>3. Numbered(c)  BY <1>1, <1>2 DEF IInv, Answers
<1>4. /\ UNCHANGED <<clients, it, backlog, conn, peer, sent, read>>
      /\ buf' = [buf EXCEPT ![c] = buf[c]] /\ arrived' = [arrived EXCEPT ![c] = arrived[c]]
      /\ out' = [out EXCEPT ![c] = rest]
      /\ delivered' = [delivered EXCEPT ![c] = delivered[c] \o front]
  BY <1>0 DEF TickFlushes, IInv, Types
<1>5. PICK d \in Nat, o \in Nat : d = Len(delivered[c]) /\ o = Len(out[c])
  BY <1>2, ClientTypes, LenNat
<1>6. m \in 0 .. o /\ m <= Room - (d - read[c])
  <2>1. m = IF o <= Room - (d - read[c]) THEN o ELSE Room - (d - read[c])  BY <1>5 DEF Fits
  <2>2. Room \in Nat /\ read[c] \in Nat /\ read[c] <= d /\ d - read[c] <= Room
    BY <1>2, <1>5, ClientTypes, LimitsAssumption
  <2> HIDE DEF m
  <2> QED BY <2>1, <2>2
<1> HIDE DEF m
<1>7. /\ delivered[c] \o front \in Seq(Nat) /\ Len(delivered[c] \o front) = d + m
      /\ Run(delivered[c] \o front, 0) /\ rest \in Seq(Nat)
      /\ Follows(delivered[c] \o front, rest, buf[c], arrived[c], sent[c], peer[c])
  <2>1. /\ buf[c] \in Seq(Nat) /\ out[c] \in Seq(Nat) /\ arrived[c] \in Seq(Nat)
        /\ delivered[c] \in Seq(Nat) /\ Run(delivered[c], 0)
    BY <1>2, ClientTypes
  <2>2. PICK D \in Seq(Nat), O \in Seq(Nat), B \in Seq(Nat), A \in Seq(Nat) :
           D = delivered[c] /\ O = out[c] /\ B = buf[c] /\ A = arrived[c]
    BY ONLY <2>1
  <2>3. Follows(D, O, B, A, sent[c], peer[c]) /\ Run(D, 0)
    BY <1>3, <2>1, <2>2 DEF Numbered
  <2>4. m \in 0 .. Len(O)  BY <1>5, <1>6, <2>2
  <2>5. /\ D \o SubSeq(O, 1, m) \in Seq(Nat) /\ Len(D \o SubSeq(O, 1, m)) = Len(D) + m
        /\ Run(D \o SubSeq(O, 1, m), 0) /\ SubSeq(O, m + 1, Len(O)) \in Seq(Nat)
        /\ Follows(D \o SubSeq(O, 1, m), SubSeq(O, m + 1, Len(O)), B, A, sent[c], peer[c])
    BY <2>3, <2>4, FlushFollows
  <2> QED BY ONLY <1>5, <2>2, <2>5
<1> HIDE DEF front, rest
<1>8. Numbered(c)'
  <2>1. /\ buf'[c] = buf[c] /\ arrived'[c] = arrived[c] /\ out'[c] = rest
        /\ delivered'[c] = delivered[c] \o front /\ sent'[c] = sent[c] /\ peer'[c] = peer[c]
    BY <1>2, <1>4 DEF IInv, Types
  <2> QED BY <1>7, <2>1 DEF Numbered
<1>9. read[c] <= Len(delivered[c] \o front) /\ Len(delivered[c] \o front) - read[c] <= Room
  <2>1. read[c] \in Nat /\ Room \in Nat /\ read[c] <= d
    BY <1>2, <1>5, ClientTypes, LimitsAssumption
  <2>2. read[c] <= d + m /\ (d + m) - read[c] <= Room  BY <1>6, <2>1
  <2> QED BY <1>7, <2>2
<1> QED BY <1>0, <1>1, <1>2, <1>4, <1>7, <1>8, <1>9, ClientTypes, TickFrame

\* A send fails: the client is not looked at again but to be erased.
LEMMA FailKeeps == ASSUME IInv, TickFails PROVE IInv'
<1>0. PICK c : c = Current  OBVIOUS
<1>1. InTick /\ InTick' /\ ~Failed(c)  BY <1>0 DEF TickFails, InTick, Failed
<1>2. c \in Clients /\ conn[c] = "open"  BY <1>0, <1>1, CurrentIsOpen
<1>3. /\ UNCHANGED <<clients, it, backlog, conn, peer, sent, read>>
      /\ buf' = [buf EXCEPT ![c] = buf[c]] /\ arrived' = [arrived EXCEPT ![c] = arrived[c]]
      /\ out' = [out EXCEPT ![c] = <<>>] /\ delivered' = [delivered EXCEPT ![c] = delivered[c]]
  BY <1>0 DEF TickFails, kernVars, IInv, Types
<1>4. Failed(c)'  BY <1>0 DEF TickFails, Failed, Current
<1>5. <<>> \in Seq(Nat)  OBVIOUS
<1> QED BY <1>0, <1>1, <1>2, <1>3, <1>4, <1>5, ClientTypes, TickFrame

LEMMA HandleKeeps == ASSUME IInv, Handle PROVE IInv'
<1>0. PICK c : c = Current  OBVIOUS
<1>1. InTick /\ InTick'  BY DEF Handle, InTick
<1>2. c \in Clients /\ conn[c] = "open"  BY <1>0, <1>1, CurrentIsOpen
<1>3. ~Failed(c) => Numbered(c)  BY <1>2 DEF IInv, Answers
<1>4. /\ UNCHANGED <<clients, it, backlog, conn, peer, sent, read, result>>
      /\ arrived' = [arrived EXCEPT ![c] = arrived[c]]
      /\ delivered' = [delivered EXCEPT ![c] = delivered[c]]
  BY <1>0 DEF Handle, kernVars, IInv, Types
<1>5. Failed(c)' <=> Failed(c)  BY <1>4 DEF Handle, Failed, Current
<1>6. CASE ~FoundRequest(Current)
  <2>1. buf' = [buf EXCEPT ![c] = buf[c]] /\ out' = [out EXCEPT ![c] = out[c]]
    BY <1>6 DEF Handle, streamVars, IInv, Types
  <2>2. Numbered(c) => Numbered(c)'
    BY <1>2, <1>4, <2>1, NumberedStays DEF IInv, Types
  <2> QED BY <1>0, <1>1, <1>2, <1>3, <1>4, <1>5, <2>1, <2>2, ClientTypes, TickFrame
<1>7. CASE FoundRequest(Current)
  <2> DEFINE r == buf[c][2] \div 2
             rest == SubSeq(buf[c], 3, Len(buf[c]))
  <2>1. buf' = [buf EXCEPT ![c] = rest] /\ out' = [out EXCEPT ![c] = Append(out[c], r)]
    BY <1>0, <1>7 DEF Handle, BufAfterRequest
  <2>2. Len(buf[c]) >= 2  BY <1>0, <1>7 DEF FoundRequest
  <2>3. PICK b \in Nat : b = Len(buf[c])  BY <1>2, ClientTypes, LenNat
  <2>4. \A i \in 1 .. b : buf[c][i] \in Nat
    BY <1>2, <2>3, ClientTypes, ElementOfSeq
  <2>5. r \in Nat /\ Append(out[c], r) \in Seq(Nat)
    <3>1. buf[c][2] \in Nat  BY <2>2, <2>3, <2>4
    <3>2. r \in Nat  BY <3>1
    <3> QED BY <1>2, <3>2, ClientTypes
  <2>6. rest \in Seq(Nat)
    <3>1. \A i \in 3 .. b : buf[c][i] \in Nat  BY <2>4
    <3> QED BY <2>3, <3>1, SubSeqProperties
  <2>7. ASSUME ~Failed(c) PROVE Numbered(c)'
    <3>1. Follows(delivered[c], Append(out[c], r), rest, arrived[c], sent[c], peer[c])
      BY <1>2, <1>3, <2>2, <2>7, ClientTypes, HandleFollows DEF Numbered
    <3>2. /\ buf'[c] = rest /\ arrived'[c] = arrived[c] /\ out'[c] = Append(out[c], r)
          /\ delivered'[c] = delivered[c] /\ sent'[c] = sent[c] /\ peer'[c] = peer[c]
      BY <1>2, <1>4, <2>1 DEF IInv, Types
    <3> QED BY <3>1, <3>2 DEF Numbered
  <2> HIDE DEF r, rest
  <2> QED BY <1>0, <1>1, <1>2, <1>4, <1>5, <2>1, <2>5, <2>6, <2>7, ClientTypes, TickFrame
<1> QED BY <1>6, <1>7

\* erase(): the current client leaves the list, whatever is left of it.
LEMMA EraseKeeps == ASSUME IInv, EraseClient PROVE IInv'
<1>0. PICK c : c = Current  OBVIOUS
<1>1. InTick /\ ~InTick'  BY DEF EraseClient, InTick
<1>2. /\ c \in Clients /\ conn[c] = "open" /\ it \in 1 .. Len(clients)
      /\ \A i \in 1 .. Len(clients) : clients[i] = c => i = it
  BY <1>0, <1>1, CurrentIsOpen
<1>3. /\ UNCHANGED <<backlog, peer, sent, delivered, read>>
      /\ clients' = RemoveAt(clients, it) /\ it' = it /\ pc' = "scan"
      /\ conn' = [conn EXCEPT ![c] = "closed"]
      /\ buf' = [buf EXCEPT ![c] = <<>>] /\ out' = [out EXCEPT ![c] = <<>>]
      /\ arrived' = [arrived EXCEPT ![c] = <<>>]
  BY <1>0 DEF EraseClient, AfterErase
<1>4. /\ clients' \in Seq(Clients) /\ Len(clients') = Len(clients) - 1
      /\ \A j \in 1 .. Len(clients) - 1 :
            clients'[j] = IF j < it THEN clients[j] ELSE clients[j + 1]
  <2>1. clients \in Seq(Clients)  BY DEF IInv, Types
  <2> QED BY <1>2, <1>3, <2>1, RemoveAtKeeps
<1>5. Types'
  <2>1. <<>> \in Seq(Nat)  OBVIOUS
  <2> QED BY <1>2, <1>3, <1>4, <2>1 DEF IInv, Types
<1>6. Windows'  BY <1>3 DEF IInv, Windows
<1>7. Lists'
  <2> DEFINE old(j) == IF j < it THEN j ELSE j + 1
  <2>0. PICK n \in Nat : n = Len(clients)  BY DEF IInv, Types
  <2>1. \A j \in 1 .. n - 1 : old(j) \in 1 .. n /\ old(j) # it /\ clients'[j] = clients[old(j)]
    BY <1>2, <1>4, <2>0
  <2>2. \A i, j \in 1 .. n - 1 : old(i) = old(j) => i = j  BY <1>2, <2>0
  <2> HIDE DEF old
  <2>3. \A i \in 1 .. Len(clients') : conn'[clients'[i]] = "open"
    <3> TAKE i \in 1 .. Len(clients')
    <3>1. i \in 1 .. n - 1  BY <1>4, <2>0
    <3>2. conn[clients[old(i)]] = "open" /\ clients[old(i)] # c /\ clients[old(i)] \in Clients
      BY <1>2, <2>0, <2>1, <3>1, ElementOfSeq DEF IInv, Types, Lists
    <3> QED BY <1>2, <1>3, <2>1, <3>1, <3>2 DEF IInv, Types
  <2>4. \A i, j \in 1 .. Len(clients') : clients'[i] = clients'[j] => i = j
    <3> TAKE i, j \in 1 .. Len(clients')
    <3>1. i \in 1 .. n - 1 /\ j \in 1 .. n - 1  BY <1>4, <2>0
    <3>2. clients[old(i)] = clients[old(j)] => old(i) = old(j)
      BY <2>0, <2>1, <3>1 DEF IInv, Lists
    <3> QED BY <2>1, <2>2, <3>1, <3>2
  <2>5. \A i \in 1 .. Len(backlog) : backlog[i] # c
    BY <1>2 DEF IInv, Lists
  <2>6. \A i \in 1 .. Len(backlog') : conn'[backlog'[i]] = "waiting"
    <3>1. \A i \in 1 .. Len(backlog) : backlog[i] \in Clients
      <4>1. backlog \in Seq(Clients)  BY DEF IInv, Types
      <4> QED BY <4>1, ElementOfSeq
    <3>2. \A i \in 1 .. Len(backlog) : conn[backlog[i]] = "waiting"  BY DEF IInv, Lists
    <3>3. \A d \in Clients : d # c => conn'[d] = conn[d]  BY <1>3 DEF IInv, Types
    <3> QED BY <1>3, <2>5, <3>1, <3>2, <3>3
  <2>7. \A i, j \in 1 .. Len(backlog') : backlog'[i] = backlog'[j] => i = j
    BY <1>3 DEF IInv, Lists
  <2> QED BY <1>1, <2>3, <2>4, <2>6, <2>7 DEF Lists
<1>8. Answers'
  <2> SUFFICES ASSUME NEW d \in Clients
               PROVE  /\ Run(delivered'[d], 0)
                      /\ conn'[d] # "open" => out'[d] = <<>>
                      /\ conn'[d] # "closed" => Numbered(d)'
    BY DEF Answers, Run
  <2>1. CASE d = c
    BY <1>2, <1>3, <2>1, ClientTypes DEF IInv, Types
  <2>2. CASE d # c
    <3>1. /\ delivered'[d] = delivered[d] /\ out'[d] = out[d] /\ buf'[d] = buf[d]
          /\ arrived'[d] = arrived[d] /\ sent'[d] = sent[d] /\ peer'[d] = peer[d]
          /\ conn'[d] = conn[d]
      BY <1>3, <2>2 DEF IInv, Types
    <3>2. ~Failed(d)  BY <1>0, <2>2 DEF Failed
    <3>3. /\ Run(delivered[d], 0) /\ (conn[d] # "open" => out[d] = <<>>)
          /\ conn[d] # "closed" => Numbered(d)
      BY <3>2 DEF IInv, Answers
    <3>4. Numbered(d) => Numbered(d)'  BY <3>1, NumberedStays
    <3> QED BY <3>1, <3>3, <3>4
  <2> QED BY <2>1, <2>2
<1> QED BY <1>5, <1>6, <1>7, <1>8 DEF IInv

-----------------------------------------------------------------------------
\* What a step of client c has to show about the answers: it leaves the other clients.
LEMMA ClientFrame ==
    ASSUME IInv, NEW c \in Clients, conn[c] # "closed",
           UNCHANGED <<loopVars, streamVars, delivered>>,
           \A d \in Clients : d # c => arrived'[d] = arrived[d] /\ sent'[d] = sent[d]
                                       /\ peer'[d] = peer[d] /\ conn'[d] = conn[d],
           conn'[c] = "open" <=> conn[c] = "open",
           Numbered(c) => Numbered(c)'
    PROVE  Answers'
<1> SUFFICES ASSUME NEW d \in Clients
             PROVE  /\ Run(delivered'[d], 0)
                    /\ conn'[d] # "open" => out'[d] = <<>>
                    /\ conn'[d] # "closed" /\ ~Failed(d)' => Numbered(d)'
  BY DEF Answers, Run
<1>1. UNCHANGED <<pc, clients, it, result, buf, out, delivered>>
  BY DEF loopVars, streamVars
<1>2. Failed(d)' <=> Failed(d)  BY <1>1 DEF Failed, Current
<1>3. /\ Run(delivered[d], 0) /\ (conn[d] # "open" => out[d] = <<>>)
      /\ conn[d] # "closed" /\ ~Failed(d) => Numbered(d)
  BY DEF IInv, Answers
<1>4. CASE d = c  BY <1>1, <1>2, <1>3, <1>4
<1>5. CASE d # c
  <2>1. Numbered(d) => Numbered(d)'  BY <1>1, <1>5, NumberedStays
  <2> QED BY <1>1, <1>2, <1>3, <1>5, <2>1
<1> QED BY <1>4, <1>5

\* A new connection waits at the end of the backlog.
LEMMA ConnectKeeps == ASSUME IInv, NEW c \in Clients, Connect(c) PROVE IInv'
<1>1. /\ UNCHANGED <<pc, clients, it, result, buf, out>>
      /\ UNCHANGED <<peer, sent, arrived, delivered, read>>
      /\ conn[c] = "none" /\ conn' = [conn EXCEPT ![c] = "waiting"]
      /\ backlog' = Append(backlog, c)
  BY DEF Connect, loopVars, streamVars
<1>2. /\ backlog' \in Seq(Clients) /\ Len(backlog') = Len(backlog) + 1
      /\ Len(backlog) \in Nat /\ backlog'[Len(backlog) + 1] = c
      /\ \A i \in 1 .. Len(backlog) : backlog'[i] = backlog[i] /\ backlog[i] \in Clients
  BY <1>1 DEF IInv, Types
<1>3. Types'  BY <1>1, <1>2 DEF IInv, Types
<1>4. Windows'  BY <1>1 DEF IInv, Windows
<1>5. Lists'
  <2>1. PICK n \in Nat : n = Len(backlog)  BY <1>2
  <2>2. \A i \in 1 .. n : backlog[i] # c  BY <1>1, <2>1 DEF IInv, Lists
  <2>3. \A i \in 1 .. Len(backlog') : i \in 1 .. n \/ i = n + 1  BY <1>2, <2>1
  <2>4. \A i \in 1 .. Len(backlog') : conn'[backlog'[i]] = "waiting"
    <3> TAKE i \in 1 .. Len(backlog')
    <3>1. CASE i = n + 1  BY <1>1, <1>2, <2>1, <3>1 DEF IInv, Types
    <3>2. CASE i \in 1 .. n
      <4>1. conn[backlog[i]] = "waiting" /\ backlog'[i] = backlog[i]
            /\ backlog[i] \in Clients
        BY <1>2, <2>1, <3>2 DEF IInv, Lists
      <4> QED BY <1>1, <2>2, <3>2, <4>1 DEF IInv, Types
    <3> QED BY <2>3, <3>1, <3>2
  <2>5. ASSUME NEW i \in 1 .. Len(backlog'), NEW j \in 1 .. Len(backlog'),
               backlog'[i] = backlog'[j]
        PROVE  i = j
    BY <1>2, <2>1, <2>2, <2>3, <2>5 DEF IInv, Lists
  <2>6. \A i \in 1 .. Len(clients) : clients[i] # c /\ clients[i] \in Clients
    <3>1. clients \in Seq(Clients)  BY DEF IInv, Types
    <3>2. \A i \in 1 .. Len(clients) : conn[clients[i]] = "open"  BY DEF IInv, Lists
    <3> QED BY <1>1, <3>1, <3>2, ElementOfSeq
  <2>7. \A i \in 1 .. Len(clients') : conn'[clients'[i]] = "open"
    <3>1. \A d \in Clients : d # c => conn'[d] = conn[d]  BY <1>1 DEF IInv, Types
    <3>2. \A i \in 1 .. Len(clients) : conn[clients[i]] = "open"  BY DEF IInv, Lists
    <3> QED BY <1>1, <2>6, <3>1, <3>2
  <2>8. /\ \A i, j \in 1 .. Len(clients') : clients'[i] = clients'[j] => i = j
        /\ InTick' => it' <= Len(clients')
    BY <1>1 DEF IInv, Lists, InTick
  <2> QED BY <2>4, <2>5, <2>7, <2>8 DEF Lists
<1>6. Answers'
  <2>1. Numbered(c) => Numbered(c)'  BY <1>1, NumberedStays
  <2> QED BY <1>1, <2>1, ClientFrame DEF IInv, Types, loopVars, streamVars
<1> QED BY <1>3, <1>4, <1>5, <1>6 DEF IInv

\* A client sends a piece.
LEMMA SendKeeps == ASSUME IInv, NEW c \in Clients, Send(c) PROVE IInv'
<1>1. /\ UNCHANGED <<pc, clients, it, result, buf, out>>
      /\ UNCHANGED <<backlog, conn, peer, delivered, read>>
      /\ conn[c] # "closed" /\ peer[c] = "open"
      /\ sent' = [sent EXCEPT ![c] = sent[c] + 1]
      /\ arrived' = [arrived EXCEPT ![c] = Append(arrived[c], sent[c] + 1)]
  BY DEF Send, Alive, loopVars, streamVars, IInv, Types
<1>2. sent[c] + 1 \in Nat /\ Append(arrived[c], sent[c] + 1) \in Seq(Nat)
  <2>1. sent[c] + 1 \in Nat /\ arrived[c] \in Seq(Nat)  BY ClientTypes
  <2> QED BY <2>1
<1>3. Types'  BY <1>1, <1>2 DEF IInv, Types
<1>4. Windows' /\ Lists'  BY <1>1 DEF IInv, Windows, Lists, InTick
<1>5. ASSUME Numbered(c) PROVE Numbered(c)'
  <2>1. /\ buf'[c] = buf[c] /\ arrived'[c] = Append(arrived[c], sent[c] + 1)
        /\ out'[c] = out[c] /\ delivered'[c] = delivered[c]
        /\ sent'[c] = sent[c] + 1 /\ peer'[c] = peer[c]
    BY <1>1 DEF IInv, Types
  <2>2. Follows(delivered[c], out[c], buf[c], Append(arrived[c], sent[c] + 1),
                sent[c] + 1, peer[c])
    BY <1>1, <1>5, ClientTypes, SendFollows DEF Numbered
  <2> QED BY <2>1, <2>2 DEF Numbered
<1>6. \A d \in Clients : d # c => arrived'[d] = arrived[d] /\ sent'[d] = sent[d]
  BY <1>1 DEF IInv, Types
<1>7. Answers'  BY <1>1, <1>5, <1>6, ClientFrame DEF loopVars, streamVars
<1> QED BY <1>3, <1>4, <1>7 DEF IInv

\* A client reads a response, or closes its side.
LEMMA ReadKeeps == ASSUME IInv, NEW c \in Clients, Read(c) \/ Shutdown(c) PROVE IInv'
<1>1. /\ UNCHANGED <<pc, clients, it, result, buf, out>>
      /\ UNCHANGED <<backlog, conn, sent, arrived, delivered>> /\ conn[c] # "closed"
  BY DEF Read, Shutdown, Alive, loopVars, streamVars
<1>2. /\ read' \in [Clients -> Nat] /\ peer' \in [Clients -> {"open", "fin", "rst"}]
      /\ \A d \in Clients : d # c => peer'[d] = peer[d]
      /\ peer'[c] # "rst" => peer[c] # "rst"
  <2>1. CASE Read(c)
    <3>1. read \in [Clients -> Nat] /\ peer \in [Clients -> {"open", "fin", "rst"}]
      BY DEF IInv, Types
    <3>2. read' = [read EXCEPT ![c] = @ + 1] /\ peer' = peer
      BY <2>1 DEF Read
    <3>3. read[c] + 1 \in Nat  BY <3>1
    <3> QED BY <3>1, <3>2, <3>3, Zenon
  <2>2. CASE Shutdown(c)  BY <2>2 DEF Shutdown, IInv, Types
  <2> QED BY <2>1, <2>2
<1>3. Types'  BY <1>1, <1>2 DEF IInv, Types
<1>4. Windows'
  <2>1. CASE Shutdown(c)  BY <1>1, <2>1 DEF Shutdown, IInv, Windows
  <2>2. CASE Read(c)
    <3> SUFFICES ASSUME NEW d \in Clients
                 PROVE  read'[d] <= Len(delivered[d]) /\ Len(delivered[d]) - read'[d] <= Room
      BY <1>1 DEF Windows
    <3>1. PICK n \in Nat : n = Len(delivered[d])  BY ClientTypes, LenNat
    <3>2. read[d] \in Nat /\ read[d] <= n /\ n - read[d] <= Room /\ Room \in Nat
      BY <3>1, ClientTypes, LimitsAssumption
    <3>3. read'[d] = read[d] \/ (read'[d] = read[d] + 1 /\ read[d] < n)
      BY <2>2, <3>1 DEF Read, IInv, Types
    <3>4. read'[d] <= n /\ n - read'[d] <= Room  BY <3>2, <3>3
    <3> QED BY <3>1, <3>4
  <2> QED BY <2>1, <2>2
<1>5. Lists'  BY <1>1 DEF IInv, Lists, InTick
<1>6. Numbered(c) => Numbered(c)'  BY <1>1, <1>2 DEF Numbered, Follows
<1>7. Answers'  BY <1>1, <1>2, <1>6, ClientFrame DEF loopVars, streamVars
<1> QED BY <1>3, <1>4, <1>5, <1>7 DEF IInv

\* A client resets the connection, which may be dropped from the backlog.
LEMMA ResetKeeps == ASSUME IInv, NEW c \in Clients, Reset(c) PROVE IInv'
<1>1. /\ UNCHANGED <<pc, clients, it, result, buf, out>>
      /\ UNCHANGED <<sent, delivered, read>> /\ conn[c] # "closed"
      /\ peer' = [peer EXCEPT ![c] = "rst"] /\ arrived' = [arrived EXCEPT ![c] = <<>>]
  BY DEF Reset, Alive, loopVars, streamVars
<1>2. <<>> \in Seq(Nat)  OBVIOUS
<1>3. Windows'  BY <1>1 DEF IInv, Windows
<1>4. ASSUME Numbered(c) PROVE Numbered(c)'
  <2>1. arrived'[c] = <<>> /\ peer'[c] = "rst"  BY <1>1 DEF IInv, Types
  <2>2. \A k : Run(<<>>, k)  BY DEF Run
  <2> QED BY <1>1, <1>4, <2>1, <2>2 DEF Numbered, Follows
<1>5. \A d \in Clients : d # c => arrived'[d] = arrived[d] /\ peer'[d] = peer[d]
  BY <1>1 DEF IInv, Types
<1>6. CASE UNCHANGED <<backlog, conn>>
  <2>1. Types'  BY <1>1, <1>2, <1>6 DEF IInv, Types
  <2>2. Lists'  BY <1>1, <1>6 DEF IInv, Lists, InTick
  <2>3. Answers'  BY <1>1, <1>4, <1>5, <1>6, ClientFrame DEF loopVars, streamVars
  <2> QED BY <1>3, <2>1, <2>2, <2>3 DEF IInv
<1>7. ASSUME NEW k \in 1 .. Len(backlog), backlog[k] = c, backlog' = RemoveAt(backlog, k),
             conn' = [conn EXCEPT ![c] = "closed"]
      PROVE  IInv'
  <2>1. /\ backlog' \in Seq(Clients) /\ Len(backlog') = Len(backlog) - 1
        /\ \A j \in 1 .. Len(backlog) - 1 :
              backlog'[j] = IF j < k THEN backlog[j] ELSE backlog[j + 1]
    <3>1. backlog \in Seq(Clients)  BY DEF IInv, Types
    <3> QED BY <1>7, <3>1, RemoveAtKeeps
  <2>2. conn[c] = "waiting"  BY <1>7 DEF IInv, Lists
  <2>3. Types'  BY <1>1, <1>2, <1>7, <2>1 DEF IInv, Types
  <2>4. \A d \in Clients : d # c => conn'[d] = conn[d]  BY <1>7 DEF IInv, Types
  <2>5. Lists'
    <3> DEFINE old(j) == IF j < k THEN j ELSE j + 1
    <3>0. PICK n \in Nat : n = Len(backlog)  BY DEF IInv, Types
    <3>1. \A j \in 1 .. n - 1 : old(j) \in 1 .. n /\ old(j) # k /\ backlog'[j] = backlog[old(j)]
      BY <2>1, <3>0
    <3>2. \A i, j \in 1 .. n - 1 : old(i) = old(j) => i = j  BY <3>0
    <3> HIDE DEF old
    <3>3. \A i \in 1 .. Len(backlog') : conn'[backlog'[i]] = "waiting"
      <4> TAKE i \in 1 .. Len(backlog')
      <4>1. i \in 1 .. n - 1  BY <2>1, <3>0
      <4>2. backlog[old(i)] \in Clients
        <5>1. backlog \in Seq(Clients)  BY DEF IInv, Types
        <5> QED BY <3>0, <3>1, <4>1, <5>1, ElementOfSeq
      <4>3. conn[backlog[old(i)]] = "waiting" /\ backlog[old(i)] # c
        BY <1>7, <3>0, <3>1, <4>1 DEF IInv, Lists
      <4> QED BY <2>4, <3>1, <4>1, <4>2, <4>3
    <3>4. \A i, j \in 1 .. Len(backlog') : backlog'[i] = backlog'[j] => i = j
      <4> TAKE i, j \in 1 .. Len(backlog')
      <4>1. i \in 1 .. n - 1 /\ j \in 1 .. n - 1  BY <2>1, <3>0
      <4>2. backlog[old(i)] = backlog[old(j)] => old(i) = old(j)
        BY <3>0, <3>1, <4>1 DEF IInv, Lists
      <4> QED BY <3>1, <3>2, <4>1, <4>2
    <3>5. \A i \in 1 .. Len(clients') : conn'[clients'[i]] = "open"
      <4>1. \A i \in 1 .. Len(clients) : clients[i] \in Clients
        <5>1. clients \in Seq(Clients)  BY DEF IInv, Types
        <5> QED BY <5>1, ElementOfSeq
      <4>2. \A i \in 1 .. Len(clients) : conn[clients[i]] = "open"  BY DEF IInv, Lists
      <4> QED BY <1>1, <2>2, <2>4, <4>1, <4>2
    <3>6. /\ \A i, j \in 1 .. Len(clients') : clients'[i] = clients'[j] => i = j
          /\ InTick' => it' <= Len(clients')
      BY <1>1 DEF IInv, Lists, InTick
    <3> QED BY <3>3, <3>4, <3>5, <3>6 DEF Lists
  <2>6. conn'[c] = "closed"  BY <1>7 DEF IInv, Types
  <2>7. Answers'
    BY <1>1, <1>4, <1>5, <2>2, <2>4, <2>6, ClientFrame DEF loopVars, streamVars
  <2> QED BY <1>3, <2>3, <2>5, <2>7 DEF IInv
<1> QED BY <1>6, <1>7 DEF Reset

-----------------------------------------------------------------------------
LEMMA InitInv == Init => IInv
<1> SUFFICES ASSUME Init PROVE IInv  OBVIOUS
<1>1. <<>> \in Seq(Nat) /\ <<>> \in Seq(Clients) /\ Len(<<>>) = 0  OBVIOUS
<1>2. Types  BY <1>1 DEF Init, Types
<1>3. Windows  BY <1>1, LimitsAssumption DEF Init, Windows
<1>4. Lists  BY <1>1 DEF Init, Lists, InTick
<1>5. Answers
  <2>1. \A k : Run(<<>>, k)  BY <1>1 DEF Run
  <2>2. Follows(<<>>, <<>>, <<>>, <<>>, 0, "open")  BY <1>1, <2>1 DEF Follows
  <2> QED BY <2>1, <2>2 DEF Init, Answers, Numbered
<1> QED BY <1>2, <1>3, <1>4, <1>5 DEF IInv

LEMMA NextInv == IInv /\ [Next]_vars => IInv'
<1> SUFFICES ASSUME IInv, [Next]_vars PROVE IInv'  OBVIOUS
<1>1. CASE Accepting  BY <1>1, ControlKeeps, AcceptKeeps DEF Accepting
<1>2. CASE Serving
  BY <1>2, ControlKeeps, ReceiveKeeps, FlushKeeps, FailKeeps, HandleKeeps, EraseKeeps DEF Serving
<1>3. CASE ClientSteps
  BY <1>3, ConnectKeeps, SendKeeps, ReadKeeps, ResetKeeps DEF ClientSteps
<1>4. CASE UNCHANGED vars
  <2>1. /\ UNCHANGED <<pc, clients, it, result, buf, out, backlog>>
        /\ UNCHANGED <<conn, peer, sent, arrived, delivered, read>>
    BY <1>4 DEF vars, loopVars, streamVars, kernVars
  <2>2. Types' /\ Windows'  BY <2>1 DEF IInv, Types, Windows
  <2>3. Lists'  BY <2>1 DEF IInv, Lists, InTick
  <2>4. \A c \in Clients : Failed(c)' = Failed(c) /\ Numbered(c)' = Numbered(c)
    BY <2>1 DEF Failed, Current, Numbered
  <2>5. Answers'  BY <2>1, <2>4 DEF IInv, Answers
  <2> QED BY <2>2, <2>3, <2>5 DEF IInv
<1> QED BY <1>1, <1>2, <1>3, <1>4 DEF Next, Server

\* The responses sent to a client, and between its ticks those that are queued behind
\* them, are the responses to its first requests, in order and each once: for any number
\* of clients, requests and open connections, and any room in the sockets.
THEOREM AnswersStayInOrder == Spec => []AnswersInOrder
<1>1. IInv => AnswersInOrder
  <2> SUFFICES ASSUME IInv, NEW c \in Clients
               PROVE  LET answers == delivered[c] \o (IF pc = "scan" THEN out[c] ELSE <<>>)
                      IN  answers = [i \in 1 .. Len(answers) |-> i]
    BY DEF AnswersInOrder
  <2> DEFINE queued == IF pc = "scan" THEN out[c] ELSE <<>>
             answers == delivered[c] \o queued
  <2>1. PICK n \in Nat : n = Len(delivered[c])  BY ClientTypes, LenNat
  <2>2. queued \in Seq(Nat) /\ Run(queued, 0 + n)
    <3>1. CASE pc # "scan"
      BY <3>1 DEF Run
    <3>2. CASE pc = "scan" /\ conn[c] = "open"
      <4>1. Numbered(c)  BY <3>2 DEF IInv, Answers, Failed
      <4>2. Run(out[c], n) /\ 0 + n = n  BY <2>1, <4>1 DEF Numbered, Follows
      <4> QED BY <3>2, <4>2, ClientTypes
    <3>3. CASE pc = "scan" /\ conn[c] # "open"
      <4>1. queued = <<>>  BY <3>3 DEF IInv, Answers
      <4>2. <<>> \in Seq(Nat) /\ \A k : Run(<<>>, k)  BY DEF Run
      <4> HIDE DEF queued
      <4> QED BY <4>1, <4>2
    <3> QED BY <3>1, <3>2, <3>3
  <2> HIDE DEF queued
  <2>3. answers \in Seq(Nat) /\ Run(answers, 0)  BY <2>1, <2>2, ClientTypes, JoinRuns
  <2> HIDE DEF answers
  <2>4. answers = [i \in 1 .. Len(answers) |-> i]
    <3>1. \A i \in 1 .. Len(answers) : answers[i] = i
      <4>1. \A i \in 1 .. Len(answers) : answers[i] = 0 + i  BY <2>3 DEF Run
      <4> QED BY <4>1
    <3>2. answers = [i \in 1 .. Len(answers) |-> answers[i]]  BY <2>3
    <3> QED BY <3>1, <3>2
  <2> QED BY <2>4 DEF answers, queued
<1> QED BY <1>1, InitInv, NextInv, PTL DEF Spec

-----------------------------------------------------------------------------
(* The iterator and the clients it has passed. *)

\* How many clients of the list were ticked in this pass.
Done == IF InTick THEN it ELSE it - 1

TickTypes ==
    /\ pc \in {"touch", "accept", "scan", "receive", "flush", "handle", "advance"}
    /\ ticked \in Seq(Clients)
    /\ Done <= Len(clients)
    /\ pc \in {"touch", "accept"} => ticked = <<>> /\ it = 1

\* A client that was ticked is open or gone, and in the second case for good.
TickedOnce ==
    /\ \A m \in 1 .. Len(ticked) : conn[ticked[m]] \in {"open", "closed"}
    /\ \A m, n \in 1 .. Len(ticked) : ticked[m] = ticked[n] => m = n

\* The clients before the iterator are those ticked and still open, in order.
StillListed ==
    \A m \in 1 .. Len(ticked) :
        conn[ticked[m]] = "open" => \E i \in 1 .. Done : clients[i] = ticked[m]
AllTicked == \A i \in 1 .. Done : \E m \in 1 .. Len(ticked) : ticked[m] = clients[i]
InListOrder ==
    \A i, j \in 1 .. Done, m, n \in 1 .. Len(ticked) :
        i < j /\ ticked[m] = clients[i] /\ ticked[n] = clients[j] => m < n

Passed == StillListed /\ AllTicked /\ InListOrder

TickInv == TickTypes /\ TickedOnce /\ Passed

\* Steps that neither tick nor move the clients before the iterator, and open no client.
LEMMA PassStays ==
    ASSUME IInv, TickInv, UNCHANGED <<clients, ticked, Done>>,
           pc' \in {"touch", "accept", "scan", "receive", "flush", "handle", "advance"},
           pc' \in {"touch", "accept"} => pc \in {"touch", "accept"} /\ it' = it,
           \A c \in Clients : conn[c] \in {"open", "closed"} => conn'[c] = conn[c]
    PROVE  TickInv'
<1>1. \A m \in 1 .. Len(ticked) : ticked[m] \in Clients
  BY ElementOfSeq DEF TickInv, TickTypes
<1>2. \A m \in 1 .. Len(ticked) : conn'[ticked[m]] = conn[ticked[m]]
  BY <1>1 DEF TickInv, TickedOnce
<1>3. TickTypes'  BY DEF TickInv, TickTypes
<1>4. TickedOnce'  BY <1>2 DEF TickInv, TickedOnce
<1>5. StillListed /\ AllTicked /\ InListOrder  BY DEF TickInv, Passed
<1>6. StillListed'  BY <1>2, <1>5 DEF StillListed
<1>7. AllTicked' /\ InListOrder'  BY <1>5 DEF AllTicked, InListOrder
<1>8. Passed'  BY <1>6, <1>7 DEF Passed
<1> QED BY <1>3, <1>4, <1>8 DEF TickInv

\* The tick of the client at the iterator.
LEMMA VisitPasses == ASSUME IInv, TickInv, Visit PROVE TickInv'
<1> DEFINE n == Len(ticked)
<1>0. StillListed /\ AllTicked /\ InListOrder /\ TickedOnce  BY DEF TickInv, Passed
<1>1. /\ ticked \in Seq(Clients) /\ n \in Nat /\ clients \in Seq(Clients)
      /\ it \in 1 .. Len(clients) /\ Done = it - 1 /\ Done' = it /\ pc' = "receive"
      /\ UNCHANGED <<clients, it, conn>>
  BY DEF IInv, Types, TickInv, TickTypes, Visit, Done, InTick, streamVars, kernVars
<1>2. Current \in Clients /\ conn[Current] = "open" /\ Current = clients[it]
  BY <1>1, ElementOfSeq DEF Current, IInv, Lists
<1>3. /\ ticked' \in Seq(Clients) /\ Len(ticked') = n + 1 /\ ticked'[n + 1] = Current
      /\ \A m \in 1 .. n : ticked'[m] = ticked[m]
  BY <1>1, <1>2 DEF Visit
<1>4. \A m \in 1 .. n : ticked[m] # Current
  <2> SUFFICES ASSUME NEW m \in 1 .. n, ticked[m] = Current PROVE FALSE  OBVIOUS
  <2>1. PICK i \in 1 .. it - 1 : clients[i] = Current
    BY <1>0, <1>1, <1>2 DEF StillListed
  <2>2. it \in 1 .. Len(clients) /\ i \in 1 .. Len(clients) /\ i # it  BY <1>1, <2>1
  <2> QED BY <1>2, <2>1, <2>2 DEF IInv, Lists
<1>5. TickTypes'  BY <1>1, <1>3 DEF TickTypes
<1>6. TickedOnce'
  <2>1. ASSUME NEW m \in 1 .. n + 1 PROVE conn[ticked'[m]] \in {"open", "closed"}
    <3>1. CASE m \in 1 .. n  BY <1>3, <3>1 DEF TickInv, TickedOnce
    <3>2. CASE m = n + 1  BY <1>2, <1>3, <3>2
    <3> QED BY <1>1, <3>1, <3>2
  <2>2. ASSUME NEW l \in 1 .. n + 1, NEW m \in 1 .. n + 1, ticked'[l] = ticked'[m]
        PROVE  l = m
    <3>1. (l \in 1 .. n \/ l = n + 1) /\ (m \in 1 .. n \/ m = n + 1)  BY <1>1
    <3> QED BY <1>3, <1>4, <2>2, <3>1 DEF TickInv, TickedOnce
  <2> QED BY <1>1, <1>3, <2>1, <2>2 DEF TickedOnce
<1>7. Passed'
  <2>0. \A m \in 1 .. n + 1 : m \in 1 .. n \/ m = n + 1  BY <1>1
  <2>1. \A i \in 1 .. it : i \in 1 .. it - 1 \/ i = it  BY <1>1
  <2>2. ASSUME NEW m \in 1 .. n + 1, conn[ticked'[m]] = "open"
        PROVE  \E i \in 1 .. it : clients[i] = ticked'[m]
    <3>1. CASE m \in 1 .. n
      <4>1. PICK i \in 1 .. it - 1 : clients[i] = ticked[m]
        BY <1>0, <1>1, <1>3, <2>2, <3>1 DEF StillListed
      <4> QED BY <1>1, <1>3, <3>1, <4>1
    <3>2. CASE m = n + 1  BY <1>1, <1>2, <1>3, <3>2
    <3> QED BY <2>0, <3>1, <3>2
  <2>3. ASSUME NEW i \in 1 .. it PROVE \E m \in 1 .. n + 1 : ticked'[m] = clients[i]
    <3>1. CASE i \in 1 .. it - 1
      <4>1. PICK m \in 1 .. n : ticked[m] = clients[i]
        BY <1>0, <1>1, <3>1 DEF AllTicked
      <4> QED BY <1>1, <1>3, <4>1
    <3>2. CASE i = it  BY <1>1, <1>2, <1>3, <3>2
    <3> QED BY <2>1, <3>1, <3>2
  <2>4. ASSUME NEW i \in 1 .. it, NEW j \in 1 .. it, NEW l \in 1 .. n + 1,
               NEW m \in 1 .. n + 1,
               i < j, ticked'[l] = clients[i], ticked'[m] = clients[j]
        PROVE  l < m
    <3>1. i \in 1 .. it - 1 /\ i # it  BY <1>1, <2>4
    <3>2. l \in 1 .. n
      <4>1. clients[i] # Current  BY <1>1, <1>2, <3>1 DEF IInv, Lists
      <4> QED BY <1>3, <2>0, <2>4, <4>1
    <3>3. CASE m = n + 1  BY <1>1, <3>2, <3>3
    <3>4. CASE m \in 1 .. n
      <4>1. j \in 1 .. it - 1
        <5>1. clients[j] # Current  BY <1>3, <1>4, <2>4, <3>4
        <5> QED BY <1>2, <2>1, <5>1
      <4>2. ticked[l] = clients[i] /\ ticked[m] = clients[j]
        BY <1>3, <2>4, <3>2, <3>4
      <4>3. i \in 1 .. Done /\ j \in 1 .. Done  BY <1>1, <3>1, <4>1
      <4>4. InListOrder  BY <1>0
      <4> QED BY ONLY <2>4, <3>2, <3>4, <4>2, <4>3, <4>4 DEF InListOrder
    <3> QED BY <2>0, <3>3, <3>4
  <2>5. Done' = it /\ Len(ticked') = n + 1 /\ clients' = clients /\ conn' = conn
    BY <1>1, <1>3 DEF Visit, kernVars
  <2>6. StillListed'  BY ONLY <2>2, <2>5 DEF StillListed
  <2>7. AllTicked'  BY ONLY <2>3, <2>5 DEF AllTicked
  <2>8. InListOrder'  BY ONLY <2>4, <2>5 DEF InListOrder
  <2> QED BY <2>6, <2>7, <2>8 DEF Passed
<1> QED BY <1>5, <1>6, <1>7 DEF TickInv

\* Erasing the client at the iterator: those before it stay where they are, and those
\* ticked and still open are one less.
LEMMA ErasePasses == ASSUME IInv, TickInv, EraseClient PROVE TickInv'
<1>1. /\ clients \in Seq(Clients) /\ it \in 1 .. Len(clients) /\ Len(clients) \in Nat
      /\ Done = it /\ Done' = it - 1 /\ pc' = "scan" /\ it' = it /\ ticked' = ticked
      /\ clients' = RemoveAt(clients, it) /\ Current \in Clients
      /\ conn' = [conn EXCEPT ![Current] = "closed"]
      /\ ticked \in Seq(Clients) /\ \A i \in 1 .. Len(clients) : clients[i] = Current => i = it
  <2>1. pc = "advance" /\ InTick /\ clients \in Seq(Clients) /\ ticked \in Seq(Clients)
    BY DEF IInv, Types, TickInv, TickTypes, EraseClient, InTick
  <2>2. /\ it \in 1 .. Len(clients) /\ Current \in Clients
        /\ \A i \in 1 .. Len(clients) : clients[i] = Current => i = it
    BY <2>1, CurrentIsOpen
  <2>3. /\ pc' = "scan" /\ it' = it /\ ticked' = ticked /\ clients' = RemoveAt(clients, it)
        /\ conn' = [conn EXCEPT ![Current] = "closed"]
    BY DEF EraseClient, AfterErase, passVars
  <2>4. Done = it /\ Done' = it - 1  BY <2>1, <2>3 DEF Done, InTick
  <2> QED BY <2>1, <2>2, <2>3, <2>4
<1>2. /\ Len(clients') = Len(clients) - 1
      /\ \A i \in 1 .. it - 1 : clients'[i] = clients[i] /\ clients[i] # Current
  <2>1. /\ Len(clients') = Len(clients) - 1
        /\ \A i \in 1 .. Len(clients) - 1 :
              clients'[i] = IF i < it THEN clients[i] ELSE clients[i + 1]
    BY <1>1, RemoveAtKeeps
  <2>2. \A i \in 1 .. it - 1 : i \in 1 .. Len(clients) - 1 /\ i < it /\ i # it
    BY <1>1
  <2>3. ASSUME NEW i \in 1 .. it - 1
        PROVE  clients'[i] = clients[i] /\ clients[i] # Current
    <3>1. i \in 1 .. Len(clients) - 1 /\ i < it /\ i # it  BY <2>2
    <3>2. i \in 1 .. Len(clients)  BY <1>1, <3>1
    <3>3. clients'[i] = clients[i]  BY ONLY <2>1, <3>1
    <3>4. clients[i] # Current  BY <1>1, <3>1, <3>2
    <3> QED BY <3>3, <3>4
  <2> QED BY <2>1, <2>3
<1>3. /\ \A m \in 1 .. Len(ticked) : ticked[m] \in Clients
      /\ \A c \in Clients : conn'[c] = IF c = Current THEN "closed" ELSE conn[c]
  BY <1>1, ElementOfSeq DEF IInv, Types
<1>4. TickTypes'  BY <1>1, <1>2 DEF TickTypes
<1>5. TickedOnce'  BY <1>1, <1>3 DEF TickInv, TickedOnce
<1>6. Passed'
  <2>1. ASSUME NEW m \in 1 .. Len(ticked), conn'[ticked[m]] = "open"
        PROVE  \E i \in 1 .. it - 1 : clients'[i] = ticked[m]
    <3>1. ticked[m] # Current /\ conn[ticked[m]] = "open"  BY <1>3, <2>1
    <3>2. PICK i \in 1 .. it : clients[i] = ticked[m]
      BY <1>1, <3>1 DEF TickInv, Passed, StillListed
    <3>3. i \in 1 .. it - 1  BY <1>1, <3>1, <3>2 DEF Current
    <3> QED BY <1>2, <3>2, <3>3
  <2>2. \A i \in 1 .. it - 1 : i \in 1 .. it  BY <1>1
  <2>3. Done = it /\ Done' = it - 1 /\ ticked' = ticked  BY <1>1
  <2>4. AllTicked /\ InListOrder  BY DEF TickInv, Passed
  <2>5. StillListed'  BY ONLY <2>1, <2>3 DEF StillListed
  <2>6. AllTicked'  BY ONLY <1>2, <2>2, <2>3, <2>4 DEF AllTicked
  <2>7. InListOrder'
    <3>1. ASSUME NEW i \in 1 .. it - 1, NEW j \in 1 .. it - 1, NEW m \in 1 .. Len(ticked),
                 NEW n \in 1 .. Len(ticked), i < j,
                 ticked[m] = clients'[i], ticked[n] = clients'[j]
          PROVE  m < n
      <4>1. ticked[m] = clients[i] /\ ticked[n] = clients[j]  BY <1>2, <3>1
      <4>2. i \in 1 .. Done /\ j \in 1 .. Done  BY <2>2, <2>3
      <4> QED BY ONLY <2>4, <3>1, <4>1, <4>2 DEF InListOrder
    <3> QED BY ONLY <2>3, <3>1 DEF InListOrder
  <2> QED BY <2>5, <2>6, <2>7 DEF Passed
<1> QED BY <1>4, <1>5, <1>6 DEF TickInv

\* A pass begins and ends with nothing ticked.
LEMMA PassBegins == ASSUME IInv, TickInv, AcceptClient \/ PassEnds PROVE TickInv'
<1>1. /\ ticked' = <<>> /\ it' = 1 /\ Done' = 0 /\ pc' = "touch"
  BY DEF AcceptClient, PassEnds, TickInv, TickTypes, Done, InTick, passVars
<1>2. Len(clients') \in Nat
  <2>1. clients' \in Seq(Clients)  BY NextInv DEF Next, Server, Accepting, Serving, IInv, Types
  <2> QED BY <2>1
<1>3. <<>> \in Seq(Clients) /\ Len(<<>>) = 0  OBVIOUS
<1>4. 1 .. 0 = {}  OBVIOUS
<1>5. TickTypes'  BY <1>1, <1>2, <1>3 DEF TickTypes
<1>6. TickedOnce' /\ Passed'
  BY <1>1, <1>3, <1>4 DEF TickedOnce, Passed, StillListed, AllTicked, InListOrder
<1> QED BY <1>5, <1>6 DEF TickInv

LEMMA TickStep == IInv /\ TickInv /\ [Next]_vars => TickInv'
<1> SUFFICES ASSUME IInv, TickInv, [Next]_vars PROVE TickInv'  OBVIOUS
<1>1. CASE Touch \/ AcceptFails \/ TickReceives \/ TickFlushes \/ TickFails \/ Handle \/ KeepClient
  <2>1. /\ UNCHANGED <<clients, ticked, conn>>
        /\ pc' \in {"touch", "accept", "scan", "receive", "flush", "handle", "advance"}
        /\ pc' \in {"touch", "accept"} => pc \in {"touch", "accept"} /\ it' = it
    BY <1>1 DEF Touch, AcceptFails, TickReceives, TickFlushes, TickFails, Handle, KeepClient,
                streamVars, kernVars, passVars
  <2>2. Done' = Done
    <3>1. it \in Nat  BY DEF IInv, Types
    <3>2. CASE KeepClient  BY <3>1, <3>2 DEF KeepClient, Done, InTick
    <3>3. CASE TickReceives  BY <3>3 DEF TickReceives, Done, InTick
    <3>4. CASE Touch \/ AcceptFails  BY <3>4 DEF Touch, AcceptFails, Done, InTick
    <3>5. CASE TickFlushes \/ TickFails \/ Handle
      BY <3>5 DEF TickFlushes, TickFails, Handle, Done, InTick
    <3> QED BY <1>1, <3>2, <3>3, <3>4, <3>5
  <2> QED BY <2>1, <2>2, PassStays
<1>2. CASE ClientSteps
  <2>1. UNCHANGED <<loopVars, passVars>>
    BY <1>2 DEF ClientSteps, Connect, Send, Read, Shutdown, Reset
  <2>2. \A c \in Clients : conn[c] \in {"open", "closed"} => conn'[c] = conn[c]
    <3>1. PICK d \in Clients : Connect(d) \/ Send(d) \/ Read(d) \/ Shutdown(d) \/ Reset(d)
      BY <1>2 DEF ClientSteps
    <3>2. conn \in [Clients -> {"none", "waiting", "open", "closed"}]  BY DEF IInv, Types
    <3>3. CASE Connect(d)  BY <3>2, <3>3 DEF Connect
    <3>4. CASE Send(d) \/ Read(d) \/ Shutdown(d)  BY <3>4 DEF Send, Read, Shutdown
    <3>5. CASE Reset(d)
      <4>1. \/ conn' = conn
            \/ conn[d] = "waiting" /\ conn' = [conn EXCEPT ![d] = "closed"]
        BY <3>5 DEF Reset, IInv, Lists
      <4> QED BY <3>2, <4>1
    <3> QED BY <3>1, <3>3, <3>4, <3>5
  <2> QED BY <2>1, <2>2, PassStays DEF loopVars, passVars, Done, InTick, TickInv, TickTypes
<1>3. CASE UNCHANGED vars
  BY <1>3, PassStays DEF vars, loopVars, kernVars, passVars, Done, InTick, TickInv, TickTypes
<1>4. CASE Visit \/ EraseClient \/ AcceptClient \/ PassEnds
  BY <1>4, VisitPasses, ErasePasses, PassBegins
<1> QED BY <1>1, <1>2, <1>3, <1>4 DEF Next, Server, Accepting, Serving

\* One pass of the loop ticks each client of the list once and in order, though clients
\* are erased under the iterator and new ones are accepted between the passes: for any
\* number of clients and any order of their ends.
THEOREM PassesTickOnce == Spec => []TicksEachOnce
<1>1. Init => TickInv
  <2> SUFFICES ASSUME Init PROVE TickInv  OBVIOUS
  <2>1. <<>> \in Seq(Clients) /\ Len(<<>>) = 0 /\ 1 .. 0 = {}  OBVIOUS
  <2> QED BY <2>1 DEF Init, TickInv, TickTypes, TickedOnce, Passed, StillListed,
                     AllTicked, InListOrder, Done, InTick
<1>2. IInv /\ TickInv => TicksEachOnce
  <2> SUFFICES ASSUME IInv, TickInv, pc = "scan"
               PROVE  /\ it <= Len(clients) + 1
                      /\ IsInjective(ticked)
                      /\ {clients[i] : i \in 1 .. it - 1} = {c \in Range(ticked) : conn[c] = "open"}
                      /\ \A i, j \in 1 .. it - 1, m, n \in DOMAIN ticked :
                            i < j /\ ticked[m] = clients[i] /\ ticked[n] = clients[j] => m < n
    BY DEF TicksEachOnce
  <2>1. /\ Done = it - 1 /\ it \in Nat \ {0} /\ Len(clients) \in Nat /\ it - 1 <= Len(clients)
        /\ DOMAIN ticked = 1 .. Len(ticked)
    BY DEF Done, InTick, IInv, Types, TickInv, TickTypes
  <2>2. IsInjective(ticked)  BY <2>1 DEF IsInjective, TickInv, TickedOnce
  <2>3. \A i \in 1 .. it - 1 : clients[i] \in Range(ticked) /\ conn[clients[i]] = "open"
    <3> TAKE i \in 1 .. it - 1
    <3>1. i \in 1 .. Done /\ i \in 1 .. Len(clients)  BY <2>1
    <3>2. \E m \in DOMAIN ticked : ticked[m] = clients[i]
      BY <2>1, <3>1 DEF TickInv, Passed, AllTicked
    <3>3. conn[clients[i]] = "open"  BY <3>1 DEF IInv, Lists
    <3> QED BY <3>2, <3>3 DEF Range
  <2>4. \A c \in Range(ticked) : conn[c] = "open" => \E i \in 1 .. it - 1 : clients[i] = c
    <3> TAKE c \in Range(ticked)
    <3>1. PICK m \in 1 .. Len(ticked) : ticked[m] = c  BY <2>1 DEF Range
    <3> QED BY <2>1, <3>1 DEF TickInv, Passed, StillListed
  <2>5. {clients[i] : i \in 1 .. it - 1} = {c \in Range(ticked) : conn[c] = "open"}
    BY ONLY <2>3, <2>4
  <2>6. InListOrder  BY DEF TickInv, Passed
  <2>7. \A i, j \in 1 .. it - 1, m, n \in DOMAIN ticked :
            i < j /\ ticked[m] = clients[i] /\ ticked[n] = clients[j] => m < n
    BY ONLY <2>1, <2>6 DEF InListOrder
  <2>8. it <= Len(clients) + 1  BY <2>1
  <2> QED BY <2>2, <2>5, <2>7, <2>8
<1> QED BY <1>1, <1>2, InitInv, NextInv, TickStep, PTL DEF Spec
=============================================================================
