-------------------------- MODULE HttpProcessProofs --------------------------
(***************************************************************************)
(* Theorems about http_process().  An answer is made of what was true:     *)
(* every look goes into the history seen, so the proof is a bookkeeping of *)
(* which look each step of the function relies on.  The padding of a       *)
(* listing wraps for an escaped name only: a name that is shown as it is   *)
(* is no longer than the longest one.  A link leads back because decoding  *)
(* undoes encoding and what is encoded has no question mark in it.         *)
(***************************************************************************)
EXTENDS HttpProcess, Joining, FiniteSetTheorems

Kinds == Contents \cup {"none", "dir"}
Looking == {"exists", "is_directory", "list", "open", "read", "status", "download", "disposition"}
Bodies == {"file", "failed", "empty", "listing", "404"}

\* Between requests there is nothing; a request is looked at while it is a GET.
Phases ==
    /\ nodes \in [Paths -> Kinds] /\ seen \subseteq Kinds /\ attachment \in BOOLEAN
    /\ pc \in {"idle", "done", "threw", "overflow"} \cup Looking
    /\ pc = "idle" => body = NoBody /\ seen = {} /\ status = 0
    /\ pc \in Looking => request.get
    /\ pc \in {"exists", "is_directory", "list", "open"} => body = NoBody
    /\ pc \in {"status", "download", "disposition"} => body.kind \in Bodies
    /\ pc = "done" /\ request.get => body.kind \in Bodies
    /\ pc \in Looking \ {"download", "disposition"} => status = 0
    /\ pc \in {"idle"} \cup Looking => ~attachment

\* The path has been what it is now, and what the branches taken so far saw.
Branches ==
    /\ pc \in Looking => Now \in seen
    /\ pc \in {"is_directory", "list", "open", "disposition"} => \E x \in seen : x # "none"
    /\ pc = "list" => "dir" \in seen
    /\ pc = "open" => \E x \in seen : x # "dir"
    /\ pc \in {"download", "disposition"} => is_download(request.target)

\* The stream that is open is one of a file, which the path has been.
Stream ==
    pc = "read" =>
        /\ file \in seen \cap Contents
        /\ path # <<".">> /\ ~EndsWithSlash(path)
        /\ body.kind = "part" /\ body.of \subseteq seen \cap Contents

\* The parts of the answer that are there.
Parts ==
    /\ body.kind \in {"file", "failed"} => body.of \subseteq seen \cap Contents
    /\ body.kind = "file"    => body.of # {}
    /\ body.kind = "listing" => "dir" \in seen
    /\ body.kind = "404"     => "none" \in seen
    /\ body.kind = "empty"   => seen \cap {"none", "dir"} # {} /\ \E x, y \in seen : x # y
    /\ status = 200          => \E x \in seen : x # "none"
    /\ status = 404          => "none" \in seen
    /\ attachment => /\ is_download(request.target)
                     /\ \E x \in seen : x # "none"
                     /\ \E x \in seen : x # "dir"
    /\ pc = "done" /\ request.get /\ seen \subseteq Contents =>
            (attachment <=> is_download(request.target))

IInv == Phases /\ Branches /\ Stream /\ Parts

LEMMA LookType ==
    ASSUME NEW tree \in [Paths -> Kinds], NEW p
    PROVE  Look(tree, p) \in Kinds
  BY DEF Look, Kinds

LEMMA NowType == Phases => Now \in Kinds
  BY LookType DEF Phases, Now

\* A look: it changes neither the file system nor the request nor the history.
LEMMA LooksStay ==
    ASSUME UNCHANGED <<nodes, request, seen>>
    PROVE  Now' = Now
  BY DEF Now, path

LEMMA AcceptKeeps == ASSUME IInv, NEW r \in Requests, Accept(r) PROVE IInv'
<1> USE DEF IInv
<1>1. CASE r.get
  <2>1. /\ pc' = "exists" /\ seen' = {Look(nodes, Path(r.target))} /\ request' = r
        /\ UNCHANGED <<body, status, nodes, attachment>> /\ pc = "idle"
    BY <1>1 DEF Accept
  <2>2. Now' = Look(nodes, Path(r.target)) /\ Look(nodes, Path(r.target)) \in Kinds
    BY <2>1, LookType DEF Now, path, Phases
  <2>3. Phases'  BY <1>1, <2>1, <2>2 DEF Phases, Looking
  <2>4. Branches'  BY <2>1, <2>2 DEF Branches, Looking
  <2>5. Stream'  BY <2>1 DEF Stream
  <2>6. Parts'  BY <2>1 DEF Parts, Phases, NoBody
  <2> QED BY <2>3, <2>4, <2>5, <2>6
<1>2. CASE ~r.get
  <2>1. /\ pc' = "done" /\ seen' = {} /\ request' = r /\ status' = 400
        /\ body' = [kind |-> "400", of |-> {}] /\ UNCHANGED <<nodes, attachment>>
        /\ pc = "idle"
    BY <1>2 DEF Accept, Phases
  <2>2. Phases'  BY <1>2, <2>1 DEF Phases, Looking
  <2>3. Branches'  BY <2>1 DEF Branches, Looking
  <2>4. Stream'  BY <2>1 DEF Stream
  <2>5. Parts'  BY <1>2, <2>1 DEF Parts, Phases
  <2> QED BY <2>2, <2>3, <2>4, <2>5
<1> QED BY <1>1, <1>2

LEMMA ChangeKeeps ==
    ASSUME IInv, NEW p \in Paths, NEW node \in Contents \cup {"none", "dir"}, Change(p, node)
    PROVE  IInv'
<1> USE DEF IInv
<1>1. nodes' \in [Paths -> Kinds]  BY DEF Change, Phases, Kinds
<1>2. Now' = Look(nodes', path) /\ Now' \in Kinds
  BY <1>1, LookType DEF Change, Now, path
<1>3. seen' = IF seen = {} THEN {} ELSE seen \cup {Now'}
  BY <1>2 DEF Change
<1>4. seen \subseteq seen' /\ seen' \subseteq Kinds /\ (seen = {} => seen' = {})
  BY <1>2, <1>3 DEF Phases
<1>5. UNCHANGED <<pc, request, body, status, attachment>>  BY DEF Change
<1>6. Phases'  BY <1>1, <1>4, <1>5 DEF Phases
<1>7. Branches'
  <2>1. pc \in Looking => Now' \in seen'  BY <1>3 DEF Branches
  <2> QED BY <1>4, <1>5, <2>1 DEF Branches
<1>8. Stream'
  <2> SUFFICES ASSUME pc = "read" PROVE Stream'  BY <1>5 DEF Stream
  <2>1. file \in seen \cap Contents /\ path # <<".">> /\ ~EndsWithSlash(path)
        /\ body.kind = "part" /\ body.of \subseteq seen \cap Contents
    BY DEF Stream
  <2>2. path' = path  BY <1>5 DEF path
  <2>3. file' \in seen' \cap Contents
    <3>1. CASE UNCHANGED file  BY <1>4, <2>1, <3>1
    <3>2. CASE p = Node(path) /\ node \in Contents /\ file' = node
      <4>1. nodes'[p] = node  BY <1>1 DEF Change, Phases
      <4>2. Look(nodes', path) = node  BY <2>1, <3>2, <4>1 DEF Look
      <4>3. seen # {}  BY <2>1
      <4> QED BY <1>2, <1>3, <3>2, <4>2, <4>3
    <3> QED BY <3>1, <3>2 DEF Change
  <2> QED BY <1>4, <1>5, <2>1, <2>2, <2>3 DEF Stream
<1>9. Parts'  BY <1>4, <1>5 DEF Parts
<1> QED BY <1>6, <1>7, <1>8, <1>9

\* The steps from the opening of the stream to its end.
LEMMA StreamKeeps == ASSUME IInv, Open \/ ReadPiece \/ ReadEnds PROVE IInv'
<1> USE DEF IInv
<1>1. Now' = Now /\ UNCHANGED <<nodes, request, status, attachment, seen>>
  BY LooksStay DEF Open, ReadPiece, ReadEnds
<1>2. path' = path  BY <1>1 DEF path
<1>3. CASE Open
  <2>1. pc = "open" /\ pc' \in {"read", "status"}  BY <1>3 DEF Open
  <2>2. Now \in seen /\ Now \in Kinds  BY <2>1, NowType DEF Branches, Looking
  <2>3. CASE pc' = "read"
    <3>1. Now \in Contents /\ file' = Now /\ body' = [kind |-> "part", of |-> {}]
      BY <1>3, <2>3 DEF Open
    <3>2. path # <<".">> /\ ~EndsWithSlash(path)
      BY <3>1, ContentsAssumption DEF Now, Look
    <3>3. Phases'  BY <1>1, <2>1, <2>3 DEF Phases, Looking
    <3>4. Branches'  BY <1>1, <2>1, <2>3 DEF Branches, Looking
    <3>5. Stream'  BY <1>1, <1>2, <2>2, <3>1, <3>2 DEF Stream
    <3>6. Parts'  BY <1>1, <2>1, <2>3, <3>1 DEF Parts
    <3> QED BY <3>3, <3>4, <3>5, <3>6
  <2>4. CASE pc' = "status"
    <3>1. body' = [kind |-> IF Now \in Contents THEN "failed" ELSE "empty", of |-> {}]
      BY <1>3, <2>4 DEF Open
    <3>2. Phases'  BY <1>1, <2>1, <2>4, <3>1 DEF Phases, Looking, Bodies
    <3>3. Branches'  BY <1>1, <2>1, <2>4 DEF Branches, Looking
    <3>4. Stream'  BY <2>4 DEF Stream
    <3>5. Parts'
      <4>1. CASE Now \in Contents
        BY <1>1, <2>1, <2>4, <3>1, <4>1 DEF Parts
      <4>2. CASE Now \notin Contents
        <5>1. Now \in seen \cap {"none", "dir"}  BY <2>2, <4>2 DEF Kinds
        <5>2. \E x, y \in seen : x # y  BY <2>1, <2>2, <5>1 DEF Branches
        <5> QED BY <1>1, <2>1, <2>4, <3>1, <4>2, <5>1, <5>2 DEF Parts
      <4> QED BY <4>1, <4>2
    <3> QED BY <3>2, <3>3, <3>4, <3>5
  <2> QED BY <2>1, <2>3, <2>4
<1>4. CASE ReadPiece
  <2>1. /\ pc = "read" /\ pc' = "read" /\ file' = file
        /\ body' = [kind |-> "part", of |-> body.of \cup {file}]
    BY <1>4 DEF ReadPiece
  <2>2. /\ file \in seen \cap Contents /\ path # <<".">> /\ ~EndsWithSlash(path)
        /\ body.kind = "part" /\ body.of \subseteq seen \cap Contents
    BY <2>1 DEF Stream
  <2>3. body'.kind = "part" /\ body'.of = body.of \cup {file}
    BY <2>1
  <2>4. Phases'  BY <1>1, <2>1 DEF Phases, Looking
  <2>5. Branches'  BY <1>1, <2>1 DEF Branches, Looking
  <2>6. Stream'  BY <1>1, <1>2, <2>1, <2>2, <2>3 DEF Stream
  <2>7. Parts'  BY <1>1, <2>1, <2>2, <2>3 DEF Parts
  <2> QED BY <2>4, <2>5, <2>6, <2>7
<1>5. CASE ReadEnds
  <2>1. /\ pc = "read" /\ pc' = "status"
        /\ \/ body.of # {} /\ body' = [kind |-> "file", of |-> body.of]
           \/ body' = [kind |-> "failed", of |-> body.of]
    BY <1>5 DEF ReadEnds
  <2>2. body.kind = "part" /\ body.of \subseteq seen \cap Contents
    BY <2>1 DEF Stream
  <2>3. /\ body'.kind \in {"file", "failed"} /\ body'.of = body.of
        /\ body'.kind = "file" => body.of # {}
    BY <2>1
  <2>4. Phases'  BY <1>1, <2>1, <2>3 DEF Phases, Looking, Bodies
  <2>5. Branches'  BY <1>1, <2>1 DEF Branches, Looking
  <2>6. Stream'  BY <2>1 DEF Stream
  <2>7. Parts'  BY <1>1, <2>1, <2>2, <2>3 DEF Parts
  <2> QED BY <2>4, <2>5, <2>6, <2>7
<1> QED BY <1>3, <1>4, <1>5

\* The looks of the function, and the ends of a request.
LEMMA ProcessKeeps ==
    ASSUME IInv, Process, ~(Open \/ ReadPiece \/ ReadEnds)
    PROVE  IInv'
<1> USE DEF IInv
<1>0. Stream'
  BY DEF Stream, Process, Exists, Is_directory, List, Listed, Status, Download, Disposition,
         Answered, LookThrows
<1>1. ASSUME Exists PROVE IInv'
  <2>1. Now' = Now  BY <1>1, LooksStay DEF Exists
  <2>2. Phases'  BY <1>1 DEF Exists, Phases, Looking, Bodies
  <2>3. Branches'  BY <1>1, <2>1 DEF Exists, Branches, Looking
  <2>4. Parts'  BY <1>1 DEF Exists, Parts, Branches, Looking
  <2> QED BY <1>0, <2>2, <2>3, <2>4
<1>2. ASSUME Is_directory PROVE IInv'
  <2>1. Now' = Now  BY <1>2, LooksStay DEF Is_directory
  <2>2. Phases'  BY <1>2 DEF Is_directory, Phases, Looking
  <2>3. Branches'  BY <1>2, <2>1 DEF Is_directory, Branches, Looking
  <2>4. Parts'  BY <1>2 DEF Is_directory, Parts
  <2> QED BY <1>0, <2>2, <2>3, <2>4
<1>3. ASSUME List PROVE IInv'
  <2>1. Now' = Now /\ pc = "list" /\ UNCHANGED <<nodes, request, status, attachment, seen>>
    BY <1>3, LooksStay DEF List
  <2>2. \/ pc' = "overflow" /\ body'.kind = "unfinished"
        \/ pc' = "status" /\ body'.kind = "listing"
    BY <1>3 DEF List, Listed
  <2>3. Phases'  BY <2>1, <2>2 DEF Phases, Looking, Bodies
  <2>4. Branches'  BY <2>1, <2>2 DEF Branches, Looking
  <2>5. Parts'  BY <2>1, <2>2 DEF Parts, Branches
  <2> QED BY <1>0, <2>3, <2>4, <2>5
<1>5. ASSUME Status PROVE IInv'
  <2>1. /\ Now' = Now /\ pc = "status"
        /\ UNCHANGED <<nodes, request, body, attachment, seen>>
        /\ pc' = IF is_download(request.target) THEN "download" ELSE "done"
        /\ status' = IF Now # "none" THEN 200 ELSE 404
    BY <1>5, LooksStay DEF Status, StatusNow
  <2>2. Phases'  BY <2>1 DEF Phases, Looking
  <2>3. Branches'  BY <2>1 DEF Branches, Looking
  <2>4. Parts'  BY <2>1 DEF Parts, Branches, Phases, Looking
  <2> QED BY <1>0, <2>2, <2>3, <2>4
<1>6. ASSUME Download PROVE IInv'
  <2>1. /\ Now' = Now /\ pc = "download"
        /\ UNCHANGED <<nodes, request, body, status, attachment, seen>>
        /\ pc' = IF Now # "none" THEN "disposition" ELSE "done"
    BY <1>6, LooksStay DEF Download, OffersNow
  <2>2. Phases'  BY <2>1 DEF Phases, Looking
  <2>3. Branches'  BY <2>1 DEF Branches, Looking
  <2>4. Parts'  BY <2>1, ContentsAssumption DEF Parts, Branches, Looking
  <2> QED BY <1>0, <2>2, <2>3, <2>4
<1>7. ASSUME Disposition PROVE IInv'
  <2>1. /\ Now' = Now /\ pc = "disposition" /\ pc' = "done"
        /\ UNCHANGED <<nodes, request, body, status, seen>>
        /\ attachment' \in BOOLEAN /\ (attachment' <=> Now # "dir")
    BY <1>7, LooksStay DEF Disposition
  <2>2. Phases'  BY <2>1 DEF Phases, Looking
  <2>3. Branches'  BY <2>1 DEF Branches, Looking
  <2>4. Parts'  BY <2>1, ContentsAssumption DEF Parts, Branches, Looking
  <2> QED BY <1>0, <2>2, <2>3, <2>4
<1>8. ASSUME Answered PROVE IInv'
  <2>1. Phases'  BY <1>8 DEF Answered, Phases, Looking
  <2>2. Branches'  BY <1>8 DEF Answered, Branches, Looking
  <2>3. Parts'  BY <1>8 DEF Answered, Parts, NoBody
  <2> QED BY <1>0, <2>1, <2>2, <2>3
<1>9. ASSUME LookThrows PROVE IInv'
  <2>1. Phases'  BY <1>9 DEF LookThrows, Phases, Looking
  <2>2. Branches'  BY <1>9 DEF LookThrows, Branches, Looking
  <2>3. Parts'  BY <1>9 DEF LookThrows, Parts
  <2> QED BY <1>0, <2>1, <2>2, <2>3
<1> QED BY <1>1, <1>2, <1>3, <1>5, <1>6, <1>7, <1>8, <1>9 DEF Process

\* The bookkeeping is kept by every step.
LEMMA Invariance == Spec => []IInv
<1>1. Init => IInv
  <2> SUFFICES ASSUME Init PROVE IInv  OBVIOUS
  <2>1. Phases  BY DEF Init, Trees, Phases, Kinds, Looking
  <2>2. Branches  BY DEF Init, Branches, Looking
  <2>3. Stream  BY DEF Init, Stream
  <2>4. Parts  BY DEF Init, Parts, NoBody
  <2> QED BY <2>1, <2>2, <2>3, <2>4 DEF IInv
<1>2. IInv /\ [Next]_vars => IInv'
  <2> SUFFICES ASSUME IInv, [Next]_vars PROVE IInv'  OBVIOUS
  <2>1. CASE Next  BY <2>1, AcceptKeeps, StreamKeeps, ProcessKeeps, ChangeKeeps DEF Next
  <2>2. CASE UNCHANGED vars
    <3>1. Now' = Now /\ path' = path  BY <2>2, LooksStay DEF vars, path
    <3> QED BY <2>2, <3>1 DEF vars, IInv, Phases, Branches, Stream, Parts
  <2> QED BY <2>1, <2>2
<1> QED BY <1>1, <1>2, PTL DEF Spec

\* Whatever other programs do to the file system while http_process() looks, and whatever
\* of its unchecked opening and reading of a file fails, each part of the answer was true
\* of the path at some moment of the request.
THEOREM AnswersAreTrue == Spec => []AnswerWasTrue
<1>1. IInv => AnswerWasTrue  BY DEF IInv, Phases, Bodies, Parts, AnswerWasTrue
<1> QED BY <1>1, Invariance, PTL

-----------------------------------------------------------------------------
(* The longest name, and the padding of a listing. *)

\* Max of the values of a function on a finite set, and 0, is one of them and the largest.
LEMMA MaxOfFinite ==
    ASSUME NEW S, IsFiniteSet(S), NEW f \in [S -> Nat]
    PROVE  LET values == {f[x] : x \in S} \cup {0}
           IN  Max(values) \in values /\ \A v \in values : Max(values) >= v
<1> DEFINE values == {f[x] : x \in S} \cup {0}
<1>1. PICK n \in Nat : ExistsBijection(1 .. n, S)  BY FS_NatBijection
<1>2. PICK e \in Bijection(1 .. n, S) : TRUE  BY <1>1 DEF ExistsBijection
<1>3. (\A i \in 1 .. n : e[i] \in S) /\ \A x \in S : \E i \in 1 .. n : e[i] = x
  BY <1>2 DEF Bijection, Injection, Surjection
<1> DEFINE unbounded == {k \in 0 .. n :
               ~ \E b \in values : \A i \in 1 .. k : f[e[i]] <= b}
<1>4. unbounded = {}
  <2> SUFFICES ASSUME unbounded # {} PROVE FALSE  OBVIOUS
  <2>1. unbounded \in SUBSET Nat  OBVIOUS
  <2>2. PICK k \in unbounded : \A j \in unbounded : k <= j
    <3> HIDE DEF unbounded
    <3> QED BY <2>1, LeastElement
  <2>3. k # 0
    <3>1. 0 \in values /\ 1 .. 0 = {}  OBVIOUS
    <3> QED BY <3>1
  <2>4. k \in 1 .. n /\ k - 1 \in 0 .. n /\ k - 1 \notin unbounded
    <3>1. k \in 0 .. n  OBVIOUS
    <3>2. k \in 1 .. n /\ k - 1 \in 0 .. n /\ ~(k <= k - 1)  BY <2>3, <3>1
    <3> HIDE DEF unbounded
    <3> QED BY <2>2, <3>2
  <2>5. PICK b \in values : \A i \in 1 .. k - 1 : f[e[i]] <= b  BY <2>4
  <2>6. e[k] \in S /\ f[e[k]] \in values /\ f[e[k]] \in Nat /\ b \in Nat
    BY <1>3, <2>4, <2>5
  <2>7. \A i \in 1 .. k : (i \in 1 .. k - 1 \/ i = k) /\ f[e[i]] \in Nat
    BY <1>3, <2>4
  <2>8. \E c \in values : \A i \in 1 .. k : f[e[i]] <= c
    <3> HIDE DEF values, unbounded
    <3>1. CASE f[e[k]] <= b
      <4>1. \A i \in 1 .. k : f[e[i]] <= b  BY <2>5, <2>7, <3>1
      <4> QED BY <4>1
    <3>2. CASE b < f[e[k]]
      <4>1. ASSUME NEW i \in 1 .. k - 1 PROVE f[e[i]] <= f[e[k]]
        <5>1. f[e[i]] \in Nat /\ f[e[i]] <= b  BY <2>4, <2>5, <2>7
        <5> QED BY <2>6, <3>2, <5>1
      <4>2. \A i \in 1 .. k : f[e[i]] <= f[e[k]]  BY <2>6, <2>7, <4>1
      <4> QED BY <2>6, <4>2
    <3> QED BY <2>6, <3>1, <3>2
  <2> QED BY <2>8
<1>5. n \in 0 .. n  OBVIOUS
<1>6. PICK m \in values : \A i \in 1 .. n : f[e[i]] <= m  BY <1>4, <1>5
<1>7. \A v \in values : m >= v
  <2>1. m \in Nat  BY <1>6
  <2>2. ASSUME NEW x \in S PROVE m >= f[x]
    <3>1. PICK i \in 1 .. n : e[i] = x  BY <1>3
    <3> QED BY <1>6, <2>1, <3>1
  <2> QED BY <2>1, <2>2
<1> HIDE DEF values
<1> QED BY <1>6, <1>7 DEF Max, values

\* A name is text, and to escape it adds to its length.
LEMMA NameLengths ==
    ASSUME NEW p \in Paths
    PROVE  /\ Len(Name(p)) \in Nat /\ NameLength(p) \in Nat
           /\ EscapedLength(Name(p)) \in Nat
<1>1. p \in Seq(Chars) /\ Len(p) \in Nat  BY PathsAssumption
<1> DEFINE f == [i \in Slashes(p) |-> i]
           start == Max(Slashes(p) \cup {0}) + 1
<1>2. start \in Nat \ {0}
  <2>1. Slashes(p) \subseteq 1 .. Len(p)  BY <1>1 DEF Slashes
  <2>2. IsFiniteSet(1 .. Len(p))  BY <1>1, FS_Interval
  <2>3. IsFiniteSet(Slashes(p)) /\ f \in [Slashes(p) -> Nat]  BY <1>1, <2>1, <2>2, FS_Subset
  <2>4. {f[i] : i \in Slashes(p)} \cup {0} = Slashes(p) \cup {0}  OBVIOUS
  <2> HIDE DEF f
  <2>5. Max(Slashes(p) \cup {0}) \in Slashes(p) \cup {0}  BY <2>3, <2>4, MaxOfFinite
  <2> QED BY <1>1, <2>1, <2>5
<1>3. Name(p) \in Seq(Chars)
  <2> HIDE DEF start
  <2>1. \A i \in start .. Len(p) : p[i] \in Chars  BY <1>1, <1>2
  <2>2. SubSeq(p, start, Len(p)) \in Seq(Chars)  BY <1>1, <1>2, <2>1, SubSeqProperties
  <2> QED BY <2>2 DEF start, Name
<1>4. Len(Name(p)) \in Nat /\ DOMAIN Name(p) = 1 .. Len(Name(p))  BY <1>3
<1>5. Cardinality({i \in DOMAIN Name(p) : Name(p)[i] = "&"}) \in Nat
  <2>1. IsFiniteSet(DOMAIN Name(p))  BY <1>4, FS_Interval
  <2>2. IsFiniteSet({i \in DOMAIN Name(p) : Name(p)[i] = "&"})  BY <2>1, FS_Subset
  <2> QED BY <2>2, FS_CardinalityType
<1>6. EscapedLength(Name(p)) \in Nat
  <2> DEFINE n == Cardinality({i \in DOMAIN Name(p) : Name(p)[i] = "&"})
  <2>1. EscapedLength(Name(p)) = Len(Name(p)) + 4 * n  BY DEF EscapedLength
  <2>2. n \in Nat  BY <1>5
  <2> HIDE DEF n
  <2> QED BY <1>4, <2>1, <2>2
<1> QED BY <1>4, <1>6 DEF NameLength

\* An entry whose padding wraps is shown longer than it is.
LEMMA PaddingWraps ==
    ASSUME NEW entries \in SUBSET Paths, NEW p \in entries, Padding(p, entries) < 0
    PROVE  EscapedLength(Name(p)) > Len(Name(p))
<1> DEFINE f == [q \in entries |-> NameLength(q)]
           longest == get_max_name_length(entries)
           slash == IF IsDirectory(p) THEN 1 ELSE 0
<1>1. IsFiniteSet(entries)  BY PathsAssumption, FS_Subset
<1>2. f \in [entries -> Nat]  BY NameLengths
<1>3. longest \in Nat /\ longest >= NameLength(p)
  <2>1. {f[q] : q \in entries} \cup {0} = {NameLength(q) : q \in entries} \cup {0}
    OBVIOUS
  <2>2. f[p] = NameLength(p) /\ f[p] \in {f[q] : q \in entries} \cup {0}  OBVIOUS
  <2>3. {f[q] : q \in entries} \cup {0} \subseteq Nat  BY <1>2
  <2> HIDE DEF f
  <2>4. LET values == {f[x] : x \in entries} \cup {0}
        IN  Max(values) \in values /\ \A v \in values : Max(values) >= v
    BY <1>1, <1>2, MaxOfFinite
  <2>5. longest = Max({f[q] : q \in entries} \cup {0})
    BY <2>1 DEF get_max_name_length
  <2> HIDE DEF longest
  <2> QED BY <2>2, <2>3, <2>4, <2>5
<1>4. /\ NameLength(p) = Len(Name(p)) + slash /\ DisplayLength(p) = EscapedLength(Name(p)) + slash
      /\ Padding(p, entries) = longest - DisplayLength(p) + (1 - slash) /\ slash \in {0, 1}
  BY DEF NameLength, DisplayLength, Padding
<1>5. Len(Name(p)) \in Nat /\ EscapedLength(Name(p)) \in Nat  BY NameLengths
<1> HIDE DEF slash, longest
<1> QED BY <1>3, <1>4, <1>5

\* A listing ends the server only for a name that grows when it is escaped: whatever the
\* names and the entries that the listing gets to see.
THEOREM EscapesOverflow == Spec => []OnlyEscapesOverflow
<1>1. Init => OnlyEscapesOverflow  BY DEF Init, OnlyEscapesOverflow
<1>2. OnlyEscapesOverflow /\ [Next]_vars => OnlyEscapesOverflow'
  <2> SUFFICES ASSUME OnlyEscapesOverflow, [Next]_vars, pc' = "overflow"
               PROVE  \E p \in body'.of : EscapedLength(Name(p)) > Len(Name(p))
    BY DEF OnlyEscapesOverflow
  <2>1. CASE List
    <3>1. PICK entries \in SUBSET Children(nodes, Node(path)) : Listed(entries)
      BY <2>1 DEF List
    <3>2. entries \in SUBSET Paths  BY DEF Children
    <3>3. body'.of = entries /\ \E p \in entries : Padding(p, entries) < 0
      BY <3>1 DEF Listed
    <3> QED BY <3>2, <3>3, PaddingWraps
  <2>2. CASE \/ UNCHANGED vars
             \/ \E p \in Paths, node \in Contents \cup {"none", "dir"} : Change(p, node)
    BY <2>2 DEF vars, Change, OnlyEscapesOverflow
  <2>3. CASE (\E r \in Requests : Accept(r)) \/ (Process /\ ~List)
    BY <2>3 DEF Accept, Process, Exists, Is_directory, Open, ReadPiece, ReadEnds, Status,
                Download, Disposition, Answered, LookThrows
  <2> QED BY <2>1, <2>2, <2>3 DEF Next
<1> QED BY <1>1, <1>2, PTL DEF Spec

-----------------------------------------------------------------------------
(* url_encode and url_decode. *)

Text == Seq(Chars)

\* The escapes of the characters that mean something in a URL: two hexadecimal digits,
\* a different pair for each.
LEMMA Escapes ==
    /\ Special = {"%", "+", "?", "&", " "} /\ Special \subseteq Chars
    /\ \A c \in Special : /\ Hex[c] \in Text /\ Len(Hex[c]) = 2 /\ Hex[c][1] \in HexDigits
                          /\ Hex[c][1] # "?" /\ Hex[c][2] # "?"
                          /\ Hex[c] = <<Hex[c][1], Hex[c][2]>>
    /\ \A c, d \in Special : Hex[c] = Hex[d] => c = d
<1>1. Special = {"%", "+", "?", "&", " "}
  BY DEF Special, Hex
<1>2. /\ Hex["%"] = <<"2","5">> /\ Hex["+"] = <<"2","b">> /\ Hex["?"] = <<"3","f">>
      /\ Hex["&"] = <<"2","6">> /\ Hex[" "] = <<"2","0">>
  <2>1. /\ "%" \in Special /\ "+" \in Special /\ "?" \in Special /\ "&" \in Special
        /\ " " \in Special
    BY <1>1
  <2>2. \A c \in Special :
            Hex[c] = CASE c = "%" -> <<"2", "5">> [] c = "+" -> <<"2", "b">>
                       [] c = "?" -> <<"3", "f">> [] c = "&" -> <<"2", "6">>
                       [] c = " " -> <<"2", "0">>
    BY DEF Hex
  <2> QED  BY <2>1, <2>2
<1>3. \A a, b \in Chars : <<a, b>> \in Text /\ Len(<<a, b>>) = 2
                           /\ <<a, b>>[1] = a /\ <<a, b>>[2] = b
  BY DEF Text
<1>4. \A c \in Special : \E a \in {"2", "3"}, b \in {"0", "5", "6", "b", "f"} : Hex[c] = <<a, b>>
  BY <1>1, <1>2
<1>5. ASSUME NEW c \in Special
      PROVE  /\ Hex[c] \in Text /\ Len(Hex[c]) = 2 /\ Hex[c][1] \in HexDigits
             /\ Hex[c][1] # "?" /\ Hex[c][2] # "?"
             /\ Hex[c] = <<Hex[c][1], Hex[c][2]>>
  <2>1. PICK a \in {"2", "3"}, b \in {"0", "5", "6", "b", "f"} : Hex[c] = <<a, b>>
    BY <1>4
  <2>2. a \in HexDigits /\ b \in HexDigits /\ a # "?" /\ b # "?"
    BY DEF HexDigits
  <2>3. a \in Chars /\ b \in Chars
    BY <2>2, CharsAssumption
  <2> QED  BY <1>3, <2>1, <2>2, <2>3
<1>6. \A c, d \in Special : Hex[c] = Hex[d] => c = d
  <2>1. /\ Hex["%"][2] = "5" /\ Hex["+"][2] = "b" /\ Hex["?"][2] = "f"
        /\ Hex["&"][2] = "6" /\ Hex[" "][2] = "0"
    <3>1. \A c, a, b : Hex[c] = <<a, b>> => Hex[c][2] = b
      OBVIOUS
    <3> QED  BY ONLY <1>2, <3>1
  <2> DEFINE Of(digit) == IF digit = "5" THEN "%" ELSE IF digit = "b" THEN "+"
                          ELSE IF digit = "f" THEN "?" ELSE IF digit = "6" THEN "&" ELSE " "
  <2>2. ASSUME NEW c \in Special
        PROVE  c = Of(Hex[c][2])
    <3>1. CASE c = "%"  BY ONLY <2>1, <3>1
    <3>2. CASE c = "+"  BY ONLY <2>1, <3>2
    <3>3. CASE c = "?"  BY ONLY <2>1, <3>3
    <3>4. CASE c = "&"  BY ONLY <2>1, <3>4
    <3>5. CASE c = " "  BY ONLY <2>1, <3>5
    <3> QED  BY <1>1, <3>1, <3>2, <3>3, <3>4, <3>5
  <2> HIDE DEF Of
  <2> SUFFICES ASSUME NEW c \in Special, NEW d \in Special, Hex[c] = Hex[d]
               PROVE  c = d
    OBVIOUS
  <2>3. Hex[c][2] = Hex[d][2] /\ c = Of(Hex[c][2]) /\ d = Of(Hex[d][2])
    BY <2>2
  <2> QED  BY ONLY <2>3
<1>7. Special \subseteq Chars
  BY CharsAssumption
<1> QED  BY <1>1, <1>5, <1>6, <1>7

LEMMA DecodedIs ==
    /\ \A c \in Special : Decoded(Hex[c][1], Hex[c][2]) = c
    /\ \A a, b : Decoded(a, b) \in Chars
<1>1. ASSUME NEW c \in Special
      PROVE  Decoded(Hex[c][1], Hex[c][2]) = c
  <2>1. {d \in Special : Hex[d] = <<Hex[c][1], Hex[c][2]>>} = {c}
    <3>1. c \in Special /\ Hex[c] = <<Hex[c][1], Hex[c][2]>> /\ \A d \in Special : Hex[d] = Hex[c] => d = c
      BY Escapes
    <3> QED  BY ONLY <3>1
  <2> QED  BY <2>1 DEF Decoded
<1>2. ASSUME NEW a, NEW b
      PROVE  Decoded(a, b) \in Chars
  <2> DEFINE of == {d \in Special : Hex[d] = <<a, b>>}
  <2>1. CASE of # {}
    <3>1. Decoded(a, b) \in of
      BY <2>1 DEF Decoded
    <3> QED  BY <3>1, Escapes
  <2>2. CASE of = {}
    <3>1. Decoded(a, b) = "other"
      BY <2>2 DEF Decoded
    <3> QED  BY <3>1, CharsAssumption
  <2> QED  BY <2>1, <2>2
<1> QED  BY <1>1, <1>2

\* What url_encode joins, one part for each character.
Coded(str) ==
    [i \in DOMAIN str |-> IF str[i] \in Special THEN <<"%">> \o Hex[str[i]] ELSE <<str[i]>>]

LEMMA EncodeIs == \A str : url_encode(str) = FlattenSeq(Coded(str))
BY DEF url_encode, Coded

LEMMA CodedIs ==
    ASSUME NEW x \in Text
    PROVE  /\ Coded(x) \in Seq(Text) /\ Len(Coded(x)) = Len(x)
           /\ \A i \in 1 .. Len(x) :
                  IF x[i] \in Special
                  THEN /\ Len(Coded(x)[i]) = 3 /\ Coded(x)[i][1] = "%"
                       /\ Coded(x)[i][2] = Hex[x[i]][1] /\ Coded(x)[i][3] = Hex[x[i]][2]
                  ELSE Coded(x)[i] = <<x[i]>>
           /\ \A i \in 1 .. Len(x) : Coded(x)[i] \in Text
<1>1. Len(x) \in Nat /\ DOMAIN x = 1 .. Len(x) /\ \A i \in 1 .. Len(x) : x[i] \in Chars
  BY DEF Text
<1>2. ASSUME NEW c \in Special
      PROVE  /\ <<"%">> \o Hex[c] \in Text /\ Len(<<"%">> \o Hex[c]) = 3
             /\ (<<"%">> \o Hex[c])[1] = "%" /\ (<<"%">> \o Hex[c])[2] = Hex[c][1]
             /\ (<<"%">> \o Hex[c])[3] = Hex[c][2]
  <2>1. PICK h \in Text : h = Hex[c] /\ Len(h) = 2
    BY Escapes
  <2>2. <<"%">> \in Text
    <3>1. "%" \in Chars
      BY Escapes
    <3> QED  BY <3>1 DEF Text
  <2>3. /\ <<"%">> \o h \in Text /\ Len(<<"%">> \o h) = 3
        /\ (<<"%">> \o h)[1] = "%" /\ (<<"%">> \o h)[2] = h[1] /\ (<<"%">> \o h)[3] = h[2]
    <3>1. <<"%">> \o h \in Text
      BY <2>1, <2>2 DEF Text
    <3>2. Len(<<"%">> \o h) = 1 + Len(h)
      <4>1. \A a \in Chars, t \in Seq(Chars) : Len(<<a>> \o t) = 1 + Len(t)
        OBVIOUS
      <4>2. "%" \in Chars /\ h \in Seq(Chars)
        BY <2>1, Escapes DEF Text
      <4> QED  BY <4>1, <4>2
    <3>3. (<<"%">> \o h)[1] = "%"
      BY <2>1, <2>2 DEF Text
    <3>4. \A i \in 1 .. Len(h) : (<<"%">> \o h)[i + 1] = h[i]
      <4>1. \A a, t : a \in Chars /\ t \in Seq(Chars) =>
                \A i \in 1 .. Len(t) : (<<a>> \o t)[i + 1] = t[i]
        OBVIOUS
      <4>2. "%" \in Chars /\ h \in Seq(Chars)
        BY <2>1, Escapes DEF Text
      <4> QED  BY ONLY <4>1, <4>2
    <3>5. 1 \in 1 .. Len(h) /\ 2 \in 1 .. Len(h) /\ 1 + 1 = 2 /\ 2 + 1 = 3 /\ 1 + Len(h) = 3
      BY <2>1
    <3>6. (<<"%">> \o h)[1 + 1] = h[1] /\ (<<"%">> \o h)[2 + 1] = h[2]
      BY <3>4, <3>5
    <3> QED  BY <3>1, <3>2, <3>3, <3>5, <3>6
  <2> QED  BY <2>1, <2>3
<1>3. \A c \in Chars : <<c>> \in Text
  BY DEF Text
<1>4. \A i \in 1 .. Len(x) :
          Coded(x)[i] = IF x[i] \in Special THEN <<"%">> \o Hex[x[i]] ELSE <<x[i]>>
  BY <1>1 DEF Coded
<1>5. \A i \in 1 .. Len(x) : Coded(x)[i] \in Text
  BY <1>1, <1>2, <1>3, <1>4
<1>6. Coded(x) = [i \in 1 .. Len(x) |-> Coded(x)[i]]
  BY <1>1 DEF Coded
<1>7. Coded(x) \in Seq(Text) /\ Len(Coded(x)) = Len(x)
  <2>1. \A n \in Nat : \A f : f = [i \in 1 .. n |-> f[i]] /\ (\A i \in 1 .. n : f[i] \in Text)
                           => f \in Seq(Text) /\ Len(f) = n
    OBVIOUS
  <2> QED  BY <1>1, <1>5, <1>6, <2>1
<1>8. ASSUME NEW i \in 1 .. Len(x)
      PROVE  IF x[i] \in Special
             THEN /\ Len(Coded(x)[i]) = 3 /\ Coded(x)[i][1] = "%"
                  /\ Coded(x)[i][2] = Hex[x[i]][1] /\ Coded(x)[i][3] = Hex[x[i]][2]
             ELSE Coded(x)[i] = <<x[i]>>
  <2>1. Coded(x)[i] = IF x[i] \in Special THEN <<"%">> \o Hex[x[i]] ELSE <<x[i]>>
    BY <1>4
  <2> QED  BY ONLY <1>2, <2>1
<1> QED  BY <1>5, <1>7, <1>8

LEMMA EncodeType ==
    ASSUME NEW x \in Text
    PROVE  url_encode(x) \in Text
<1>1. Coded(x) \in Seq(Seq(Chars))
  BY CodedIs DEF Text
<1>2. FlattenSeq(Coded(x)) \in Seq(Chars)
  BY ONLY <1>1, JoinType, Zenon
<1> QED  BY <1>2, EncodeIs DEF Text

LEMMA EncodeConcat ==
    ASSUME NEW x \in Text, NEW y \in Text
    PROVE  x \o y \in Text /\ url_encode(x \o y) = url_encode(x) \o url_encode(y)
<1> DEFINE z == x \o y
           n == Len(x)
           m == Len(y)
<1>1. /\ n \in Nat /\ m \in Nat /\ z \in Text /\ Len(z) = n + m
      /\ DOMAIN x = 1 .. n /\ DOMAIN y = 1 .. m /\ DOMAIN z = 1 .. n + m
      /\ \A i \in 1 .. n : z[i] = x[i]
      /\ \A i \in 1 .. m : z[n + i] = y[i]
  BY DEF Text
<1> DEFINE u == Coded(x)
           v == Coded(y)
           w == Coded(z)
           uv == u \o v
<1>2. /\ u \in Seq(Text) /\ Len(u) = n /\ v \in Seq(Text) /\ Len(v) = m
      /\ w \in Seq(Text) /\ Len(w) = n + m
  <2> HIDE DEF z
  <2> QED  BY <1>1, CodedIs
<1>3. (\A i \in 1 .. n : w[i] = u[i]) /\ \A i \in 1 .. m : w[n + i] = v[i]
  <2> HIDE DEF z, n, m
  <2>1. \A i \in 1 .. n : i \in 1 .. n + m
    BY <1>1
  <2>2. \A i \in 1 .. m : n + i \in 1 .. n + m
    BY <1>1
  <2> QED  BY <1>1, <2>1, <2>2 DEF Coded
<1> HIDE DEF u, v, w, n, m, z
<1>4. /\ uv \in Seq(Text) /\ Len(uv) = n + m
      /\ \A i \in 1 .. n : uv[i] = u[i]
      /\ \A i \in 1 .. m : uv[n + i] = v[i]
  <2>1. u \in Seq(Text) /\ v \in Seq(Text) /\ Len(u) = n /\ Len(v) = m
    BY <1>2
  <2>2. /\ uv \in Seq(Text) /\ Len(uv) = Len(u) + Len(v)
        /\ \A i \in 1 .. Len(u) : uv[i] = u[i]
        /\ \A i \in 1 .. Len(v) : uv[Len(u) + i] = v[i]
    <3>1. u \in Seq(Text) /\ v \in Seq(Text)
      BY <2>1
    <3>2. uv \in Seq(Text) /\ Len(uv) = Len(u) + Len(v)
      BY ONLY <3>1, ConcatProperties
    <3>3. ASSUME NEW i \in 1 .. Len(u) PROVE uv[i] = u[i]
      BY ONLY <3>1, <3>3
    <3>4. ASSUME NEW i \in 1 .. Len(v) PROVE uv[Len(u) + i] = v[i]
      BY ONLY <3>1, <3>4
    <3> QED  BY ONLY <3>2, <3>3, <3>4
  <2> HIDE DEF uv
  <2> QED  BY ONLY <2>1, <2>2
<1> HIDE DEF uv
<1>5. w = uv
  <2>1. ASSUME NEW i \in 1 .. Len(w) PROVE w[i] = uv[i]
    <3>1. CASE i \in 1 .. n
      BY <1>3, <1>4, <3>1
    <3>2. CASE i \notin 1 .. n
      <4>1. i - n \in 1 .. m /\ n + (i - n) = i
        BY <1>1, <1>2, <3>2
      <4>2. w[n + (i - n)] = uv[n + (i - n)]
        BY <1>3, <1>4, <4>1
      <4> QED  BY <4>1, <4>2
    <3> QED  BY <3>1, <3>2
  <2> QED  BY <1>2, <1>4, <2>1, SeqEqual
<1>6. FlattenSeq(uv) = FlattenSeq(u) \o FlattenSeq(v)
  <2>1. u \in Seq(Seq(Chars)) /\ v \in Seq(Seq(Chars))
    BY <1>2 DEF Text
  <2>2. FlattenSeq(u \o v) = FlattenSeq(u) \o FlattenSeq(v)
    BY ONLY <2>1, JoinConcat, Zenon
  <2> QED  BY <2>2 DEF uv
<1> QED  BY <1>1, <1>5, <1>6, EncodeIs DEF u, v, w, z

-----------------------------------------------------------------------------
(* url_decode. *)

Escape(str, i) == str[i] = "%" /\ i + 2 <= Len(str) /\ Decodes(str[i + 1], str[i + 2])
PlainChar(c) == IF c = "+" THEN " " ELSE c

\* The text decoded from position i on, out of what is decoded from i + 1 and i + 3.
DecodedFrom(str, i, next, third) ==
    IF Escape(str, i) THEN <<Decoded(str[i + 1], str[i + 2])>> \o third
    ELSE <<PlainChar(str[i])>> \o next

Decoding(str, from) ==
    [i \in 1 .. Len(str) + 1 |->
        IF i > Len(str) THEN <<>>
        ELSE IF str[i] = "%" /\ i + 2 <= Len(str) /\ Decodes(str[i + 1], str[i + 2])
             THEN <<Decoded(str[i + 1], str[i + 2])>> \o from[i + 3]
        ELSE <<IF str[i] = "+" THEN " " ELSE str[i]>> \o from[i + 1]]

LEMMA DecodingIs ==
    ASSUME NEW str \in Text, NEW from, NEW i \in 1 .. Len(str) + 1
    PROVE  Decoding(str, from)[i] = IF i > Len(str) THEN <<>>
                                    ELSE DecodedFrom(str, i, from[i + 1], from[i + 3])
BY DEF Decoding, DecodedFrom, Escape, PlainChar

LEMMA DecodedFromType ==
    ASSUME NEW str \in Text, NEW i \in 1 .. Len(str), NEW next \in Text, NEW third \in Text
    PROVE  DecodedFrom(str, i, next, third) \in Text
<1>1. str[i] \in Chars
  BY DEF Text
<1>2. PlainChar(str[i]) \in Chars
  BY <1>1, Escapes DEF PlainChar
<1>3. \A c \in Chars, t \in Text : <<c>> \o t \in Text
  BY DEF Text
<1> QED  BY <1>2, <1>3, DecodedIs DEF DecodedFrom

\* The recursion of url_decode has a solution: it is computed from the end of the text
\* on, together with the values one and two positions behind.
LEMMA DecodingExists ==
    ASSUME NEW str \in Text
    PROVE  \E g : g = Decoding(str, g)
<1> DEFINE n == Len(str)
           D == [here : Text, next : Text, third : Text]
           b == [here |-> <<>>, next |-> <<>>, third |-> <<>>]
           step == [x \in D \X (1 .. n) |->
                       [here  |-> DecodedFrom(str, n + 1 - x[2], x[1].here, x[1].third),
                        next  |-> x[1].here,
                        third |-> x[1].next]]
<1>1. n \in Nat /\ b \in D
  BY DEF Text
<1>2. step \in [D \X (1 .. n) -> D]
  <2> SUFFICES ASSUME NEW d \in D, NEW i \in 1 .. n
               PROVE  DecodedFrom(str, n + 1 - i, d.here, d.third) \in Text
    OBVIOUS
  <2>1. n + 1 - i \in 1 .. n
    BY <1>1
  <2> QED  BY <2>1, DecodedFromType
<1>3. PICK h : Computes(h, D, n, b, step)
  <2> HIDE DEF n, D, b, step
  <2> QED  BY <1>1, <1>2, Recursion
<1>4. \A i \in 0 .. n : h[i] \in D
  BY <1>3 DEF Computes
<1>5. ASSUME NEW i \in 1 .. n
      PROVE  /\ h[i].here = DecodedFrom(str, n + 1 - i, h[i - 1].here, h[i - 1].third)
             /\ h[i].next = h[i - 1].here /\ h[i].third = h[i - 1].next
  <2>1. i - 1 \in 0 .. n
    BY <1>1
  <2>2. h[i] = step[<<h[i - 1], i>>] /\ h[i - 1] \in D
    <3> HIDE DEF step, D, b, n
    <3> QED  BY <1>3, <1>4, <2>1 DEF Computes
  <2>3. step[<<h[i - 1], i>>] =
            [here  |-> DecodedFrom(str, n + 1 - i, h[i - 1].here, h[i - 1].third),
             next  |-> h[i - 1].here, third |-> h[i - 1].next]
    BY <2>2
  <2> HIDE DEF step, D
  <2> QED  BY <2>2, <2>3
<1>6. h[0] = b
  BY <1>3 DEF Computes
<1> HIDE DEF step, D, n
<1> DEFINE g == [p \in 1 .. n + 1 |-> h[n + 1 - p].here]
<1>7. ASSUME NEW p \in 1 .. n + 1
      PROVE  g[p] = IF p > n THEN <<>> ELSE DecodedFrom(str, p, g[p + 1], g[p + 3])
  <2>1. CASE p > n
    <3>1. n + 1 - p = 0
      BY <1>1, <2>1
    <3> QED  BY <1>6, <2>1, <3>1
  <2>2. CASE ~(p > n)
    <3>1. /\ n + 1 - p \in 1 .. n /\ n + 1 - (n + 1 - p) = p /\ p + 1 \in 1 .. n + 1
          /\ n + 1 - (p + 1) = (n + 1 - p) - 1
      BY <1>1, <2>2
    <3>2. /\ g[p] = DecodedFrom(str, p, h[(n + 1 - p) - 1].here, h[(n + 1 - p) - 1].third)
          /\ g[p + 1] = h[(n + 1 - p) - 1].here
      BY <1>5, <3>1
    <3>3. ASSUME p + 2 <= n
          PROVE  h[(n + 1 - p) - 1].third = g[p + 3]
      <4>1. /\ (n + 1 - p) - 1 \in 1 .. n /\ ((n + 1 - p) - 1) - 1 \in 1 .. n
            /\ p + 3 \in 1 .. n + 1 /\ n + 1 - (p + 3) = (((n + 1 - p) - 1) - 1) - 1
        BY <1>1, <2>2, <3>3
      <4>2. h[(n + 1 - p) - 1].third = h[((n + 1 - p) - 1) - 1].next
        BY <1>5, <4>1
      <4>3. h[((n + 1 - p) - 1) - 1].next = h[(((n + 1 - p) - 1) - 1) - 1].here
        BY <1>5, <4>1
      <4> QED  BY <4>1, <4>2, <4>3
    <3>4. CASE Escape(str, p)
      <4>1. p + 2 <= n
        BY <3>4 DEF Escape, n
      <4> HIDE DEF g
      <4> QED  BY <2>2, <3>2, <3>3, <3>4, <4>1 DEF DecodedFrom
    <3>5. CASE ~Escape(str, p)
      <4> HIDE DEF g
      <4> QED  BY <2>2, <3>2, <3>5 DEF DecodedFrom
    <3> QED  BY <3>4, <3>5
  <2> QED  BY <2>1, <2>2
<1>8. g = Decoding(str, g)
  <2>1. \A p \in 1 .. n + 1 : g[p] = Decoding(str, g)[p]
    <3> HIDE DEF g
    <3> QED  BY <1>7, DecodingIs DEF n
  <2>2. Decoding(str, g) = [p \in 1 .. n + 1 |-> Decoding(str, g)[p]]
    BY DEF Decoding, n
  <2> QED  BY <2>1, <2>2
<1> QED  BY <1>8

LEMMA DecodeIs ==
    ASSUME NEW str \in Text
    PROVE  \E from : /\ url_decode(str) = from[1]
                     /\ \A i \in 1 .. Len(str) + 1 :
                            from[i] = IF i > Len(str) THEN <<>>
                                      ELSE DecodedFrom(str, i, from[i + 1], from[i + 3])
<1> DEFINE from == CHOOSE g : g = Decoding(str, g)
<1>1. from = Decoding(str, from)
  BY DecodingExists
<1>2. url_decode(str) = from[1]
  BY DEF url_decode, Decoding
<1> HIDE DEF from
<1>3. \A i \in 1 .. Len(str) + 1 :
          from[i] = IF i > Len(str) THEN <<>> ELSE DecodedFrom(str, i, from[i + 1], from[i + 3])
  BY <1>1, DecodingIs
<1> QED  BY <1>2, <1>3

LEMMA DecodeType ==
    ASSUME NEW str \in Text
    PROVE  url_decode(str) \in Text
<1> DEFINE n == Len(str)
<1>1. n \in Nat /\ <<>> \in Text
  BY DEF Text
<1>2. PICK from :
          /\ url_decode(str) = from[1]
          /\ \A i \in 1 .. n + 1 : from[i] = IF i > n THEN <<>>
                                             ELSE DecodedFrom(str, i, from[i + 1], from[i + 3])
  BY DecodeIs
<1> HIDE DEF n
<1> DEFINE S == {k \in 0 .. n : \A i \in n + 1 - k .. n + 1 : from[i] \in Text}
<1>3. 0 \in S
  <2>1. \A i \in n + 1 - 0 .. n + 1 : i = n + 1 /\ i > n /\ i \in 1 .. n + 1
    BY <1>1
  <2>2. \A i \in n + 1 - 0 .. n + 1 : from[i] \in Text
    BY <1>1, <1>2, <2>1
  <2> QED  BY <1>1, <2>2
<1>4. ASSUME NEW k \in 1 .. n, k - 1 \in S
      PROVE  k \in S
  <2>1. PICK p \in 1 .. n : p = n + 1 - k
    <3>1. n + 1 - k \in 1 .. n
      BY <1>1
    <3> QED  BY <3>1
  <2>2. \A i \in p + 1 .. n + 1 : from[i] \in Text
    <3>1. n + 1 - (k - 1) = p + 1
      BY <1>1, <2>1
    <3> QED  BY <1>4, <3>1
  <2>3. from[p] = DecodedFrom(str, p, from[p + 1], from[p + 3])
    <3>1. p \in 1 .. n + 1 /\ ~(p > n)
      BY <1>1
    <3> QED  BY <1>2, <3>1
  <2>4. from[p] \in Text
    <3>1. from[p + 1] \in Text
      <4>1. p + 1 \in p + 1 .. n + 1
        BY <1>1
      <4> QED  BY <2>2, <4>1
    <3>2. CASE p + 2 <= n
      <4>1. p + 3 \in p + 1 .. n + 1
        BY <1>1, <3>2
      <4>2. from[p + 3] \in Text
        BY <2>2, <4>1
      <4> QED  BY <2>3, <3>1, <4>2, DecodedFromType DEF n
    <3>3. CASE ~(p + 2 <= n)
      <4>1. ~Escape(str, p)
        BY <3>3 DEF Escape, n
      <4>2. from[p] = DecodedFrom(str, p, from[p + 1], <<>>)
        BY <2>3, <4>1 DEF DecodedFrom
      <4> QED  BY <1>1, <3>1, <4>2, DecodedFromType DEF n
    <3> QED  BY <3>2, <3>3
  <2>5. \A i \in p .. n + 1 : i = p \/ i \in p + 1 .. n + 1
    BY <1>1
  <2>6. \A i \in p .. n + 1 : from[i] \in Text
    BY <2>2, <2>4, <2>5
  <2> QED  BY <1>1, <2>1, <2>6
<1>5. 0 .. n \subseteq S
  <2> HIDE DEF S
  <2> QED  BY <1>1, <1>3, <1>4, Induction
<1>6. from[1] \in Text
  <2>1. n \in 0 .. n /\ 1 \in n + 1 - n .. n + 1
    BY <1>1
  <2> QED  BY <1>5, <2>1
<1> QED  BY <1>2, <1>6

\* Decoding undoes encoding.
LEMMA DecodeEncoded ==
    ASSUME NEW x \in Text
    PROVE  url_decode(url_encode(x)) = x
<1> DEFINE n == Len(x)
           b == Coded(x)
           str == url_encode(x)
           N == Len(str)
<1>1. /\ n \in Nat /\ str \in Text /\ N \in Nat /\ b \in Seq(Seq(Chars)) /\ Len(b) = n
      /\ str = FlattenSeq(b)
  <2>1. n \in Nat
    BY DEF Text
  <2>2. str \in Text
    BY EncodeType
  <2>3. N \in Nat
    <3> HIDE DEF str
    <3> QED  BY <2>2 DEF Text
  <2>4. b \in Seq(Seq(Chars)) /\ Len(b) = n
    BY CodedIs DEF Text
  <2> QED  BY <2>1, <2>2, <2>3, <2>4, EncodeIs
<1>2. \A i \in 1 .. n :
          IF x[i] \in Special
          THEN Len(b[i]) = 3 /\ b[i][1] = "%" /\ b[i][2] = Hex[x[i]][1] /\ b[i][3] = Hex[x[i]][2]
          ELSE b[i] = <<x[i]>>
  BY CodedIs
<1> HIDE DEF b, str
<1>3. PICK o \in [0 .. n -> Nat] :
          /\ o[0] = 0 /\ o[n] = N
          /\ \A i \in 1 .. n : /\ o[i] = o[i - 1] + Len(b[i]) /\ o[i] <= N
                               /\ \A j \in 1 .. Len(b[i]) : str[o[i - 1] + j] = b[i][j]
  <2>1. \E o \in [0 .. Len(b) -> Nat] : PartsAt(b, o)
    BY ONLY <1>1, JoinedParts, Zenon
  <2> HIDE DEF n
  <2> QED  BY <1>1, <2>1 DEF PartsAt
<1>4. PICK from :
          /\ url_decode(str) = from[1]
          /\ \A i \in 1 .. N + 1 : from[i] = IF i > N THEN <<>>
                                             ELSE DecodedFrom(str, i, from[i + 1], from[i + 3])
  BY <1>1, DecodeIs
<1> HIDE DEF N
\* What is decoded from the i-th part on.
<1>5. ASSUME NEW i \in 1 .. n
      PROVE  from[o[i - 1] + 1] = <<x[i]>> \o from[o[i] + 1]
  <2>1. PICK a \in Nat : a = o[i - 1]
    <3>1. i - 1 \in 0 .. n
      BY <1>1
    <3> QED  BY <3>1
  <2>2. /\ o[i] = a + Len(b[i]) /\ a + Len(b[i]) <= N
        /\ \A j \in 1 .. Len(b[i]) : str[a + j] = b[i][j]
    BY <1>3, <2>1
  <2>3. CASE x[i] \in Special
    <3>1. Len(b[i]) = 3 /\ b[i][1] = "%" /\ b[i][2] = Hex[x[i]][1] /\ b[i][3] = Hex[x[i]][2]
      BY <1>2, <2>3
    <3>2. a + 1 \in 1 .. N + 1 /\ ~(a + 1 > N) /\ (a + 1) + 1 = a + 2 /\ (a + 1) + 2 = a + 3
          /\ (a + 1) + 3 = a + 4 /\ a + 3 <= N /\ (a + 3) + 1 = a + 4
      BY <1>1, <2>2, <3>1
    <3>3. str[a + 1] = "%" /\ str[a + 2] = Hex[x[i]][1] /\ str[a + 3] = Hex[x[i]][2]
      BY <2>2, <3>1
    <3>4. Escape(str, a + 1)
      <4>1. Hex[x[i]][1] \in HexDigits
        BY <2>3, Escapes
      <4>2. (a + 1) + 2 <= Len(str)
        BY <3>2 DEF N
      <4> QED  BY ONLY <3>2, <3>3, <4>1, <4>2 DEF Escape, Decodes
    <3>5. from[a + 1] = <<Decoded(Hex[x[i]][1], Hex[x[i]][2])>> \o from[a + 4]
      BY <1>4, <3>2, <3>3, <3>4 DEF DecodedFrom
    <3>6. from[o[i] + 1] = from[a + 4]
      BY <2>2, <3>1, <3>2
    <3> QED  BY <2>1, <2>3, <3>5, <3>6, DecodedIs
  <2>4. CASE x[i] \notin Special
    <3>1. b[i] = <<x[i]>> /\ Len(<<x[i]>>) = 1
      BY <1>2, <2>4
    <3>2. a + 1 \in 1 .. N + 1 /\ ~(a + 1 > N)
      BY <1>1, <2>2, <3>1
    <3>3. str[a + 1] = x[i]
      <4>1. str[a + 1] = b[i][1]
        BY <2>2, <3>1
      <4> QED  BY <3>1, <4>1
    <3>4. x[i] # "%" /\ x[i] # "+"
      BY <2>4, Escapes
    <3>5. from[a + 1] = <<x[i]>> \o from[(a + 1) + 1]
      BY <1>4, <3>2, <3>3, <3>4 DEF DecodedFrom, Escape, PlainChar
    <3>6. o[i] = a + 1
      BY <2>2, <3>1
    <3> QED  BY <2>1, <3>5, <3>6
  <2> QED  BY <2>3, <2>4
<1> DEFINE S == {k \in 0 .. n : from[o[n - k] + 1] = SubSeq(x, n - k + 1, n)}
<1>6. 0 \in S
  <2>1. n - 0 = n /\ N + 1 > N /\ N + 1 \in 1 .. N + 1 /\ n + 1 > n /\ n + 1 \in Int
    BY <1>1
  <2>2. from[N + 1] = <<>>
    BY <1>4, <2>1
  <2>3. SubSeq(x, n + 1, n) = <<>>
    BY <1>1, <2>1, SubSeqEmpty
  <2>4. from[o[n - 0] + 1] = SubSeq(x, n - 0 + 1, n)
    <3> HIDE DEF n
    <3> QED  BY <1>3, <2>1, <2>2, <2>3
  <2>5. 0 \in 0 .. n
    BY <1>1
  <2> QED  BY <2>4, <2>5
<1>7. ASSUME NEW k \in 1 .. n, k - 1 \in S
      PROVE  k \in S
  <2>1. PICK i \in 1 .. n : i = n - k + 1 /\ i - 1 = n - k /\ n - (k - 1) = i /\ k \in 0 .. n
    <3>1. n - k + 1 \in 1 .. n /\ (n - k + 1) - 1 = n - k /\ n - (k - 1) = n - k + 1 /\ k \in 0 .. n
      BY <1>1
    <3> QED  BY <3>1
  <2>2. from[o[i] + 1] = SubSeq(x, i + 1, n)
    BY <1>7, <2>1
  <2>3. from[o[i - 1] + 1] = <<x[i]>> \o SubSeq(x, i + 1, n)
    BY <1>5, <2>2
  <2>4. SubSeq(x, i, n) = <<x[i]>> \o SubSeq(x, i + 1, n)
    <3>1. i \in 1 .. Len(x) /\ n \in i .. Len(x) /\ x \in Seq(Chars)
      BY <1>1 DEF Text
    <3> QED  BY <3>1, SubSeqRecursiveFirst
  <2> QED  BY <2>1, <2>3, <2>4
<1>8. 0 .. n \subseteq S
  <2> HIDE DEF S, n
  <2> QED  BY <1>1, <1>6, <1>7, Induction
<1>9. from[1] = SubSeq(x, 1, n)
  <2>1. n \in 0 .. n /\ n - n = 0 /\ 0 + 1 = 1
    BY <1>1
  <2> HIDE DEF S
  <2>2. n \in S
    BY ONLY <1>8, <2>1
  <2>3. from[o[n - n] + 1] = SubSeq(x, n - n + 1, n)
    BY <2>2 DEF S
  <2>4. o[0] = 0
    BY <1>3
  <2> HIDE DEF n
  <2> QED  BY ONLY <2>1, <2>3, <2>4
<1>10. SubSeq(x, 1, n) = x
  BY SubSeqFull DEF Text
<1> QED  BY <1>4, <1>9, <1>10 DEF str

\* An encoded text has no question mark.
LEMMA EncodedHasNoMark ==
    ASSUME NEW x \in Text
    PROVE  \A i \in 1 .. Len(url_encode(x)) : url_encode(x)[i] # "?"
<1> DEFINE Marked == Chars \ {"?"}
<1>1. ASSUME NEW i \in 1 .. Len(x)
      PROVE  Coded(x)[i] \in Seq(Marked)
  <2>1. x[i] \in Chars /\ Coded(x)[i] \in Seq(Chars)
    BY CodedIs DEF Text
  <2>2. CASE x[i] \in Special
    <3>1. /\ Len(Coded(x)[i]) = 3 /\ Coded(x)[i][1] = "%"
          /\ Coded(x)[i][2] = Hex[x[i]][1] /\ Coded(x)[i][3] = Hex[x[i]][2]
      BY <2>2, CodedIs
    <3>2. \A j \in 1 .. 3 : Coded(x)[i][j] # "?" /\ Coded(x)[i][j] \in Chars
      <4>1. \A j \in 1 .. 3 : j = 1 \/ j = 2 \/ j = 3
        OBVIOUS
      <4>2. \A j \in 1 .. 3 : Coded(x)[i][j] \in Chars
        BY <2>1, <3>1
      <4>3. Hex[x[i]][1] # "?" /\ Hex[x[i]][2] # "?"
        BY <2>2, Escapes
      <4>4. Coded(x)[i][1] # "?" /\ Coded(x)[i][2] # "?" /\ Coded(x)[i][3] # "?"
        BY ONLY <3>1, <4>3
      <4> QED  BY ONLY <4>1, <4>2, <4>4
    <3>3. \A s \in Seq(Chars) : Len(s) = 3 /\ (\A j \in 1 .. 3 : s[j] # "?" /\ s[j] \in Chars)
                                   => s \in Seq(Marked)
      <4> SUFFICES ASSUME NEW s \in Seq(Chars), Len(s) = 3,
                          \A j \in 1 .. 3 : s[j] # "?" /\ s[j] \in Chars
                   PROVE  s \in Seq(Marked)
        OBVIOUS
      <4>1. \A j \in 1 .. Len(s) : s[j] \in Marked
        OBVIOUS
      <4>2. s = [j \in 1 .. Len(s) |-> s[j]] /\ Len(s) \in Nat
        OBVIOUS
      <4> HIDE DEF Marked
      <4> QED  BY ONLY <4>1, <4>2
    <3> QED  BY ONLY <2>1, <3>1, <3>2, <3>3
  <2>3. CASE x[i] \notin Special
    <3>1. x[i] \in Marked /\ Coded(x)[i] = <<x[i]>>
      BY <2>1, <2>3, CodedIs, Escapes
    <3> QED  BY <3>1
  <2> QED  BY <2>2, <2>3
<1>2. Coded(x) \in Seq(Seq(Marked))
  <2>1. Coded(x) = [i \in 1 .. Len(x) |-> Coded(x)[i]] /\ Len(x) \in Nat
    BY DEF Coded, Text
  <2> HIDE DEF Marked
  <2> QED  BY <1>1, <2>1
<1>3. FlattenSeq(Coded(x)) \in Seq(Marked)
  <2> HIDE DEF Marked
  <2> QED  BY ONLY <1>2, JoinType, Zenon
<1> QED  BY <1>3, EncodeIs

LEMMA EncodePlain ==
    ASSUME NEW x \in Text, \A i \in 1 .. Len(x) : x[i] \notin Special
    PROVE  url_encode(x) = x
<1>1. url_encode(x) \in Text /\ Len(x) \in Nat /\ Len(url_encode(x)) \in Nat
  <2>1. url_encode(x) \in Text
    BY EncodeType
  <2>2. \A y \in Text : Len(y) \in Nat
    BY DEF Text
  <2> QED  BY <2>1, <2>2
<1>2. Coded(x) \in Seq(Seq(Chars)) /\ Len(Coded(x)) = Len(x)
      /\ \A i \in 1 .. Len(x) : Coded(x)[i] = <<x[i]>>
  BY CodedIs DEF Text
<1>3. PICK o \in [0 .. Len(x) -> Nat] : PartsAt(Coded(x), o)
  <2>1. \E o \in [0 .. Len(Coded(x)) -> Nat] : PartsAt(Coded(x), o)
    BY ONLY <1>2, JoinedParts, Zenon
  <2> QED  BY <1>2, <2>1
<1>4. /\ o[0] = 0 /\ o[Len(x)] = Len(url_encode(x))
      /\ \A i \in 1 .. Len(x) : o[i] = o[i - 1] + 1 /\ url_encode(x)[o[i - 1] + 1] = x[i]
  <2>1. \A i \in 1 .. Len(x) : Len(Coded(x)[i]) = 1 /\ Coded(x)[i][1] = x[i]
    <3>1. \A c : Len(<<c>>) = 1 /\ <<c>>[1] = c
      OBVIOUS
    <3> QED  BY ONLY <1>2, <3>1
  <2>2. 1 \in 1 .. 1
    OBVIOUS
  <2> QED  BY <1>2, <1>3, <2>1, <2>2, EncodeIs DEF PartsAt
<1> DEFINE S == {i \in 0 .. Len(x) : o[i] = i}
<1>5. 0 .. Len(x) \subseteq S
  <2>1. 0 \in S
    BY <1>1, <1>4
  <2>2. ASSUME NEW i \in 1 .. Len(x), i - 1 \in S PROVE i \in S
    <3>1. o[i] = (i - 1) + 1 /\ i \in 0 .. Len(x)
      BY <1>1, <1>4, <2>2
    <3> QED  BY <3>1
  <2> HIDE DEF S
  <2> QED  BY <1>1, <2>1, <2>2, Induction
<1>6. ASSUME NEW i \in 1 .. Len(x) PROVE url_encode(x)[i] = x[i]
  <2>1. i - 1 \in 0 .. Len(x) /\ (i - 1) + 1 = i
    BY <1>1
  <2> QED  BY <1>4, <1>5, <2>1
<1>7. Len(url_encode(x)) = Len(x)
  <2>1. Len(x) \in 0 .. Len(x)
    BY <1>1
  <2> QED  BY <1>4, <1>5, <2>1
<1> QED  BY <1>1, <1>6, <1>7, SeqEqual DEF Text

-----------------------------------------------------------------------------
(* Where a link leads. *)

Slash == <<"/">>
Question == <<"?", "download=1">>

\* Texts, and what one character in front of one and a suffix behind it are.
LEMMA TextFacts ==
    /\ Slash \in Text /\ Question \in Text /\ <<>> \in Text
    /\ \A s \in Text : Len(s) \in Nat /\ DOMAIN s = 1 .. Len(s)
    /\ \A s, t \in Text :
           /\ s \o t \in Text /\ Len(s \o t) = Len(s) + Len(t)
           /\ \A i \in 1 .. Len(s) : (s \o t)[i] = s[i]
           /\ \A i \in 1 .. Len(t) : (s \o t)[Len(s) + i] = t[i]
    /\ \A s \in Text : s \o <<>> = s
<1>1. "/" \in Chars /\ "?" \in Chars /\ "download=1" \in Chars
  BY CharsAssumption, Escapes
<1>2. Slash \in Text /\ Question \in Text /\ <<>> \in Text
  BY <1>1 DEF Text, Slash, Question
<1>3. \A s \in Text : Len(s) \in Nat /\ DOMAIN s = 1 .. Len(s) /\ s \o <<>> = s
  BY DEF Text
<1>4. \A s, t \in Text :
           /\ s \o t \in Text /\ Len(s \o t) = Len(s) + Len(t)
           /\ \A i \in 1 .. Len(s) : (s \o t)[i] = s[i]
           /\ \A i \in 1 .. Len(t) : (s \o t)[Len(s) + i] = t[i]
  BY Concatenated DEF Text
<1> QED  BY <1>2, <1>3, <1>4

LEMMA TextConcat ==
    ASSUME NEW s \in Text, NEW t \in Text
    PROVE  /\ s \o t \in Text /\ Len(s \o t) = Len(s) + Len(t)
           /\ \A i \in 1 .. Len(s) : (s \o t)[i] = s[i]
           /\ \A i \in 1 .. Len(t) : (s \o t)[Len(s) + i] = t[i]
BY TextFacts

LEMMA TextAssociative ==
    ASSUME NEW s \in Text, NEW t \in Text, NEW u \in Text
    PROVE  (s \o t) \o u \in {s \o (t \o u)}
<1>1. s \in Seq(Chars) /\ t \in Seq(Chars) /\ u \in Seq(Chars)
  BY DEF Text
<1> QED  BY ONLY <1>1, Associative, Zenon

\* The link to the encoded text y leads to y, with or without the download suffix.
LEMMA LinkLeadsTo ==
    ASSUME NEW y \in Text, y # <<>>
    PROVE  /\ Path(Slash \o url_encode(y)) = y
           /\ Path((Slash \o url_encode(y)) \o Question) = y
<1> DEFINE e == url_encode(y)
           t == Slash \o e
           u == t \o Question
<1>1. e \in Text /\ url_decode(e) = y /\ \A i \in 1 .. Len(e) : e[i] # "?"
  BY EncodeType, DecodeEncoded, EncodedHasNoMark
<1> HIDE DEF e
<1>2. PICK n \in Nat : n = Len(e)
  BY <1>1, TextFacts
<1>3. /\ t \in Text /\ Len(t) = n + 1 /\ t[1] = "/" /\ \A i \in 1 .. n : t[1 + i] = e[i]
  <2>1. Len(Slash) = 1 /\ Slash[1] = "/" /\ 1 \in 1 .. 1
    BY DEF Slash
  <2>2. Slash \in Text
    BY TextFacts
  <2>3. /\ t \in Text /\ Len(t) = Len(Slash) + Len(e)
        /\ \A i \in 1 .. Len(Slash) : t[i] = Slash[i]
        /\ \A i \in 1 .. Len(e) : t[Len(Slash) + i] = e[i]
    BY ONLY <1>1, <2>2, TextConcat
  <2>4. 1 + n = n + 1
    OBVIOUS
  <2> HIDE DEF t
  <2> QED  BY ONLY <1>2, <2>1, <2>3, <2>4
<1>4. Head(t) = "/" /\ Tail(t) = e /\ t # <<>>
  <2> HIDE DEF t
  <2>1. t \in Seq(Chars) /\ t # <<>>
    BY <1>3 DEF Text
  <2>2. Tail(t) \in Seq(Chars) /\ Len(Tail(t)) = n /\ \A i \in 1 .. n : Tail(t)[i] = t[i + 1]
    <3>1. Tail(t) \in Seq(Chars) /\ Len(Tail(t)) = (n + 1) - 1
          /\ \A i \in 1 .. Len(Tail(t)) : Tail(t)[i] = t[i + 1]
      BY <1>3, <2>1, HeadTailProperties
    <3>2. (n + 1) - 1 = n
      OBVIOUS
    <3> QED  BY <3>1, <3>2
  <2>3. \A i \in 1 .. n : Tail(t)[i] = e[i]
    <3>1. \A i \in 1 .. n : i + 1 = 1 + i
      OBVIOUS
    <3> QED  BY <1>3, <2>2, <3>1
  <2>4. Tail(t) = e
    BY <1>1, <1>2, <2>2, <2>3, SeqEqual DEF Text
  <2> QED  BY <1>3, <2>1, <2>4
<1>5. \A i \in 1 .. n + 1 : t[i] # "?"
  <2>1. \A i \in 1 .. n + 1 : i = 1 \/ (i - 1 \in 1 .. n /\ 1 + (i - 1) = i)
    OBVIOUS
  <2> HIDE DEF t
  <2>2. ASSUME NEW i \in 1 .. n + 1 PROVE t[i] # "?"
    <3>1. CASE i = 1
      BY <1>3, <3>1
    <3>2. CASE i - 1 \in 1 .. n /\ 1 + (i - 1) = i
      <4>1. t[1 + (i - 1)] = e[i - 1] /\ e[i - 1] # "?"
        BY ONLY <1>1, <1>2, <1>3, <3>2
      <4> QED  BY ONLY <3>2, <4>1
    <3> QED  BY <2>1, <3>1, <3>2
  <2> QED  BY <2>2
<1> HIDE DEF t
<1>6. Path(t) = y
  <2>1. Query(t) = <<>>
    <3>1. {i \in DOMAIN t : t[i] = "?"} = {}
      BY <1>3, <1>5, TextFacts
    <3> QED  BY <3>1 DEF Query
  <2>2. SubSeq(t, 1, Len(t) - Len(Query(t))) = t
    <3>1. Len(t) - Len(<<>>) = Len(t)
      BY <1>3
    <3>2. SubSeq(t, 1, Len(t)) = t
      BY <1>3, SubSeqFull DEF Text
    <3> QED  BY <2>1, <3>1, <3>2
  <2> QED  BY <1>1, <1>4, <2>2 DEF Path
<1>7. Path(u) = y
  <2>1. /\ u \in Text /\ Len(u) = n + 3 /\ u[n + 2] = "?" /\ u[n + 3] = "download=1"
        /\ \A i \in 1 .. n + 1 : u[i] = t[i]
    <3>1. Len(Question) = 2 /\ Question[1] = "?" /\ Question[2] = "download=1"
          /\ 1 \in 1 .. 2 /\ 2 \in 1 .. 2
      BY DEF Question
    <3>2. /\ u \in Text /\ Len(u) = (n + 1) + 2
          /\ \A i \in 1 .. n + 1 : u[i] = t[i]
          /\ \A i \in 1 .. 2 : u[(n + 1) + i] = Question[i]
      <4>1. Question \in Text
        BY TextFacts
      <4>2. /\ u \in Text /\ Len(u) = Len(t) + Len(Question)
            /\ \A i \in 1 .. Len(t) : u[i] = t[i]
            /\ \A i \in 1 .. Len(Question) : u[Len(t) + i] = Question[i]
        BY ONLY <1>3, <4>1, TextConcat
      <4> HIDE DEF u
      <4> QED  BY ONLY <1>3, <3>1, <4>2
    <3>3. (n + 1) + 2 = n + 3 /\ (n + 1) + 1 = n + 2
      OBVIOUS
    <3> HIDE DEF u
    <3>4. u[(n + 1) + 1] = Question[1] /\ u[(n + 1) + 2] = Question[2]
      BY <3>1, <3>2
    <3> QED  BY <3>1, <3>2, <3>3, <3>4
  <2> HIDE DEF u
  <2>2. {i \in DOMAIN u : u[i] = "?"} = {n + 2}
    <3>1. DOMAIN u = 1 .. n + 3
      BY <2>1, TextFacts
    <3>2. \A i \in 1 .. n + 3 : i \in 1 .. n + 1 \/ i = n + 2 \/ i = n + 3
      OBVIOUS
    <3>3. n + 2 \in 1 .. n + 3
      OBVIOUS
    <3> QED  BY <1>5, <2>1, <3>1, <3>2, <3>3
  <2>3. Min({n + 2}) = n + 2
    BY DEF Min
  <2>4. Query(u) = SubSeq(u, n + 2, n + 3)
    BY <2>1, <2>2, <2>3 DEF Query
  <2>5. Len(Query(u)) = 2
    <3>1. \A i \in n + 2 .. n + 3 : u[i] \in Chars
      <4>1. \A i \in n + 2 .. n + 3 : i \in 1 .. n + 3
        OBVIOUS
      <4> QED  BY <2>1, <4>1 DEF Text
    <3>2. n + 2 \in Int /\ n + 3 \in Int /\ n + 2 <= n + 3 /\ (n + 3) - (n + 2) + 1 = 2
      OBVIOUS
    <3> QED  BY <2>4, <3>1, <3>2, SubSeqProperties
  <2>6. SubSeq(u, 1, Len(u) - Len(Query(u))) = t
    <3>1. Len(u) - Len(Query(u)) = n + 1
      BY <2>1, <2>5
    <3>2. 1 \in 1 .. Len(t) /\ n + 1 \in 1 .. Len(t)
      BY <1>3
    <3>3. SubSeq(u, 1, n + 1) = SubSeq(t, 1, n + 1)
      BY <1>3, <3>2, TextFacts, SubSeqOfConcat1 DEF Text, u
    <3>4. SubSeq(t, 1, n + 1) = t
      BY <1>3, SubSeqFull DEF Text
    <3> QED  BY <3>1, <3>3, <3>4
  <2> QED  BY <1>1, <1>4, <2>6 DEF Path
<1> QED  BY <1>6, <1>7 DEF t, u, e

\* The node of a text is that text without one slash at its end.
LEMMA NodeOf ==
    /\ \A s \in Text : Node(s \o Slash) = s
    /\ \A p \in Paths : Node(p) = p /\ p \in Text /\ p # <<>>
<1>1. ASSUME NEW s \in Text PROVE Node(s \o Slash) = s
  <2> DEFINE t == s \o Slash
  <2>1. Len(Slash) = 1 /\ Slash[1] = "/" /\ 1 \in 1 .. 1
    BY DEF Slash
  <2>2. PICK n \in Nat : n = Len(s)
    BY TextFacts
  <2>3. /\ t \in Text /\ Len(t) = n + 1 /\ t[n + 1] = "/" /\ \A i \in 1 .. n : t[i] = s[i]
    <3>1. Slash \in Text
      BY TextFacts
    <3>2. /\ t \in Text /\ Len(t) = Len(s) + Len(Slash)
          /\ \A i \in 1 .. Len(s) : t[i] = s[i]
          /\ \A i \in 1 .. Len(Slash) : t[Len(s) + i] = Slash[i]
      BY ONLY <3>1, TextConcat
    <3> HIDE DEF t
    <3> QED  BY ONLY <2>1, <2>2, <3>2
  <2> HIDE DEF t
  <2>4. EndsWithSlash(t)
    BY <2>3 DEF EndsWithSlash, Last
  <2>5. Front(t) = SubSeq(t, 1, n)
    <3>1. (n + 1) - 1 = n
      OBVIOUS
    <3> QED  BY <2>3, <3>1 DEF Front
  <2>6. SubSeq(t, 1, n) = s
    <3>1. \A i \in 1 .. n : t[i] \in Chars
      BY <2>2, <2>3 DEF Text
    <3>2. n - 1 + 1 = n /\ \A i \in 1 .. n : 1 + i - 1 = i
      OBVIOUS
    <3>3. /\ SubSeq(t, 1, n) \in Seq(Chars)
          /\ Len(SubSeq(t, 1, n)) = IF 1 <= n THEN n - 1 + 1 ELSE 0
          /\ \A i \in 1 .. n - 1 + 1 : SubSeq(t, 1, n)[i] = t[1 + i - 1]
      BY ONLY <2>2, <3>1, SubSeqProperties
    <3>4. Len(SubSeq(t, 1, n)) = n /\ \A i \in 1 .. n : SubSeq(t, 1, n)[i] = s[i]
      BY <2>3, <3>2, <3>3
    <3>5. s \in Seq(Chars)
      BY DEF Text
    <3> QED  BY <2>2, <3>3, <3>4, <3>5, SeqEqual
  <2> QED  BY <2>4, <2>5, <2>6 DEF Node, t
<1>2. ASSUME NEW p \in Paths PROVE Node(p) = p /\ p \in Text /\ p # <<>>
  <2>1. p \in Text /\ p # <<>> /\ p[Len(p)] # "/"
    BY PathsAssumption DEF Text
  <2>2. ~EndsWithSlash(p)
    BY <2>1 DEF EndsWithSlash, Last
  <2> QED  BY <2>1, <2>2 DEF Node
<1> QED  BY <1>1, <1>2

\* A path is its parent, a slash and its name; without a slash it is its name.
LEMMA ParentAndName ==
    ASSUME NEW p \in Paths
    PROVE  /\ Name(p) \in Text
           /\ \/ Parent(p) = <<".">> /\ Name(p) = p
              \/ /\ Parent(p) \in Text /\ Parent(p) # <<".">>
                 /\ p = (Parent(p) \o Slash) \o Name(p)
<1>1. p \in Seq(Chars) /\ Len(p) \in Nat /\ DOMAIN p = 1 .. Len(p)
  BY PathsAssumption
<1>2. Slashes(p) \subseteq 1 .. Len(p)
  BY <1>1 DEF Slashes
<1>3. CASE Slashes(p) = {}
  <2>1. Max(Slashes(p) \cup {0}) = 0
    <3>1. Slashes(p) \cup {0} = {0}
      BY <1>3
    <3>2. Max({0}) = 0
      BY DEF Max
    <3> QED  BY <3>1, <3>2
  <2>2. Name(p) = SubSeq(p, 0 + 1, Len(p))
    BY <2>1 DEF Name
  <2>3. Name(p) = p
    BY <1>1, <2>2, SubSeqFull
  <2> QED  BY <1>1, <1>3, <2>3 DEF Parent, Text
<1>4. CASE Slashes(p) # {}
  <2>1. PICK k \in Slashes(p) : Max(Slashes(p)) = k /\ Max(Slashes(p) \cup {0}) = k
    <3> DEFINE f == [i \in Slashes(p) |-> i]
               values == {f[i] : i \in Slashes(p)} \cup {0}
               m == Max(Slashes(p) \cup {0})
    <3>1. IsFiniteSet(Slashes(p))
      <4>1. IsFiniteSet(1 .. Len(p))
        BY <1>1, FS_Interval
      <4> QED  BY <1>2, <4>1, FS_Subset
    <3>2. values = Slashes(p) \cup {0} /\ f \in [Slashes(p) -> Nat]
      BY <1>1, <1>2
    <3>3. Max(values) \in values /\ \A v \in values : Max(values) >= v
      <4> HIDE DEF f
      <4> QED  BY <3>1, <3>2, MaxOfFinite
    <3>4. m \in Slashes(p) \cup {0} /\ \A v \in Slashes(p) \cup {0} : m >= v
      BY <3>2, <3>3
    <3> HIDE DEF m, values, f
    <3>5. m \in Slashes(p)
      <4>1. PICK i \in Slashes(p) : TRUE
        BY <1>4
      <4>2. i \in Nat /\ i >= 1 /\ m >= i
        BY <1>1, <1>2, <3>4
      <4> QED  BY <3>4, <4>2
    <3>6. \A x \in Slashes(p) : (\A y \in Slashes(p) : x >= y) => x = m
      <4>1. \A x, y \in Nat : x >= y /\ y >= x => x = y
        OBVIOUS
      <4>2. \A x \in Slashes(p) : x \in Nat
        BY <1>1, <1>2
      <4> QED  BY <3>4, <3>5, <4>1, <4>2
    <3>7. Max(Slashes(p)) = m
      BY <3>4, <3>5, <3>6 DEF Max
    <3> QED  BY <3>5, <3>7 DEF m
  <2>2. k \in 1 .. Len(p) /\ p[k] = "/"
    BY <1>2, <2>1 DEF Slashes
  <2>3. Parent(p) = SubSeq(p, 1, k - 1) /\ Name(p) = SubSeq(p, k + 1, Len(p))
    BY <1>4, <2>1 DEF Parent, Name
  <2>4. SubSeq(p, 1, k - 1) \in Text /\ SubSeq(p, k + 1, Len(p)) \in Text
    <3>1. \A i \in 1 .. k - 1 : p[i] \in Chars
      BY <1>1, <2>2
    <3>2. \A i \in k + 1 .. Len(p) : p[i] \in Chars
      BY <1>1, <2>2
    <3>3. 1 \in Int /\ k - 1 \in Int /\ k + 1 \in Int /\ Len(p) \in Int
      BY <1>1, <2>2
    <3> QED  BY <3>1, <3>2, <3>3, SubSeqProperties DEF Text
  <2>5. p = (Parent(p) \o Slash) \o Name(p)
    <3>1. SubSeq(p, 1, k - 1) \o SubSeq(p, k, k) = SubSeq(p, 1, k)
      <4>1. 1 \in 1 .. Len(p) + 1 /\ k - 1 \in 1 - 1 .. Len(p) /\ k \in k - 1 .. Len(p)
            /\ (k - 1) + 1 = k
        BY <1>1, <2>2
      <4> QED  BY <1>1, <4>1, ConcatAdjacentSubSeq
    <3>2. SubSeq(p, 1, k) \o SubSeq(p, k + 1, Len(p)) = SubSeq(p, 1, Len(p))
      <4>1. 1 \in 1 .. Len(p) + 1 /\ k \in 1 - 1 .. Len(p) /\ Len(p) \in k .. Len(p)
        BY <1>1, <2>2
      <4> QED  BY <1>1, <4>1, ConcatAdjacentSubSeq
    <3>3. SubSeq(p, k, k) = Slash
      <4>1. k \in k .. Len(p) /\ k + 1 \in Int /\ k \in Int /\ k < k + 1
        BY <1>1, <2>2
      <4>2. SubSeq(p, k, k) = <<p[k]>> \o SubSeq(p, k + 1, k)
        BY <1>1, <2>2, <4>1, SubSeqRecursiveFirst
      <4>3. SubSeq(p, k + 1, k) = <<>>
        BY <4>1, SubSeqEmpty
      <4>4. Slash \o <<>> = Slash
        BY TextFacts
      <4> QED  BY <2>2, <4>2, <4>3, <4>4 DEF Slash
    <3>4. SubSeq(p, 1, Len(p)) = p
      BY <1>1, SubSeqFull
    <3> QED  BY <2>3, <3>1, <3>2, <3>3, <3>4
  <2>6. Parent(p) # <<".">>
    <3> SUFFICES ASSUME Parent(p) = <<".">> PROVE FALSE
      OBVIOUS
    <3>1. Len(<<".">>) = 1 /\ <<".">>[1] = "."
      OBVIOUS
    <3>2. /\ Len(SubSeq(p, 1, k - 1)) = IF 1 <= k - 1 THEN (k - 1) - 1 + 1 ELSE 0
          /\ \A i \in 1 .. (k - 1) - 1 + 1 : SubSeq(p, 1, k - 1)[i] = p[1 + i - 1]
      <4>1. \A i \in 1 .. k - 1 : p[i] \in Chars
        BY <1>1, <2>2
      <4>2. 1 \in Int /\ k - 1 \in Int
        BY <2>2
      <4> QED  BY ONLY <4>1, <4>2, SubSeqProperties
    <3>3. k = 2
      <4>1. Len(SubSeq(p, 1, k - 1)) = 1
        BY <2>3, <3>1
      <4>2. (IF 1 <= k - 1 THEN (k - 1) - 1 + 1 ELSE 0) = 1
        BY ONLY <3>2, <4>1
      <4>3. k \in Int
        BY <1>1, <2>2
      <4> QED  BY ONLY <4>2, <4>3
    <3>4. p[1] = "."
      <4>1. 1 \in 1 .. (k - 1) - 1 + 1 /\ 1 + 1 - 1 = 1
        BY <3>3
      <4>2. SubSeq(p, 1, k - 1)[1] = p[1]
        <5>1. SubSeq(p, 1, k - 1)[1] = p[1 + 1 - 1]
          BY ONLY <3>2, <4>1
        <5> QED  BY ONLY <4>1, <5>1
      <4> QED  BY <2>3, <3>1, <4>2
    <3> QED  BY <1>1, <2>2, <3>3, <3>4, PathsAssumption
  <2> QED  BY <2>3, <2>4, <2>5, <2>6
<1> QED  BY <1>3, <1>4

Plain(s) == \A i \in DOMAIN s : s[i] \notin Special

LEMMA PlainSlash == url_encode(Slash) = Slash /\ url_encode(<<>>) = <<>>
<1>1. \A i \in 1 .. Len(Slash) : Slash[i] \notin Special
  <2>1. Len(Slash) = 1 /\ Slash[1] = "/"
    BY DEF Slash
  <2>2. "/" \notin Special
    BY Escapes
  <2>3. \A i \in 1 .. 1 : i = 1
    OBVIOUS
  <2> QED  BY <2>1, <2>2, <2>3
<1>2. \A i \in 1 .. Len(<<>>) : <<>>[i] \notin Special
  OBVIOUS
<1> QED  BY <1>1, <1>2, TextFacts, EncodePlain

\* A plain text and its prefixes are their own encodings.
LEMMA PlainPrefix ==
    ASSUME NEW s \in Text, Plain(s), NEW n \in 0 .. Len(s)
    PROVE  /\ SubSeq(s, 1, n) \in Text /\ Len(SubSeq(s, 1, n)) = n
           /\ url_encode(SubSeq(s, 1, n)) = SubSeq(s, 1, n)
<1> DEFINE x == SubSeq(s, 1, n)
<1>1. DOMAIN s = 1 .. Len(s) /\ Len(s) \in Nat
  BY TextFacts
<1>2. /\ x \in Seq(Chars)
      /\ Len(x) = IF 1 <= n THEN n - 1 + 1 ELSE 0
      /\ \A i \in 1 .. n - 1 + 1 : x[i] = s[1 + i - 1]
  <2>1. \A i \in 1 .. n : s[i] \in Chars
    BY <1>1 DEF Text
  <2>2. 1 \in Int /\ n \in Int
    BY <1>1
  <2> QED  BY ONLY <2>1, <2>2, SubSeqProperties
<1> HIDE DEF x
<1>3. Len(x) = n /\ \A i \in 1 .. n : x[i] = s[i]
  <2>1. \A m \in Nat : /\ (IF 1 <= m THEN m - 1 + 1 ELSE 0) = m
                       /\ \A i \in 1 .. m : i \in 1 .. m - 1 + 1 /\ 1 + i - 1 = i
    OBVIOUS
  <2>2. n \in Nat
    BY <1>1
  <2>3. Len(x) = n
    BY ONLY <1>2, <2>1, <2>2
  <2>4. \A i \in 1 .. n : x[i] = s[i]
    BY ONLY <1>2, <2>1, <2>2
  <2> QED  BY <2>3, <2>4
<1>4. \A i \in 1 .. Len(x) : x[i] \notin Special
  <2>1. \A i \in 1 .. n : i \in DOMAIN s
    BY <1>1
  <2> QED  BY <1>3, <2>1 DEF Plain
<1>5. x \in Text
  BY <1>2 DEF Text
<1>6. url_encode(x) = x
  BY <1>4, <1>5, EncodePlain
<1> QED  BY <1>3, <1>5, <1>6 DEF x

LEMMA PlainNode ==
    ASSUME NEW s \in Text, Plain(s)
    PROVE  Node(s) \in Text /\ url_encode(Node(s)) = Node(s)
<1>1. CASE EndsWithSlash(s)
  <2>1. Len(s) \in Nat /\ Len(s) # 0
    BY <1>1 DEF Text, EndsWithSlash
  <2>2. Len(s) - 1 \in 0 .. Len(s)
    BY <2>1
  <2>3. Node(s) = SubSeq(s, 1, Len(s) - 1)
    BY <1>1 DEF Node, Front
  <2> QED  BY <2>2, <2>3, PlainPrefix
<1>2. CASE ~EndsWithSlash(s)
  <2>1. Node(s) = s
    BY <1>2 DEF Node
  <2>2. \A i \in 1 .. Len(s) : s[i] \notin Special
    BY TextFacts DEF Plain
  <2> QED  BY <2>1, <2>2, EncodePlain
<1> QED  BY <1>1, <1>2

\* The link of an entry: the encoded path of the entry, with a slash if it is a directory.
LEMMA HrefIs ==
    ASSUME NEW dir \in Text, NEW p \in Paths, Parent(p) = Node(dir),
           dir = <<".">> \/ Node(dir) \in Paths,
           Plain(dir)
    PROVE  \E y \in {p, p \o Slash} :
               /\ Href(dir, p) = Slash \o url_encode(y)
               /\ ~IsDirectory(p) => y = p
<1> DEFINE tail == IF IsDirectory(p) THEN Slash ELSE <<>>
           y == p \o tail
           base == IF dir = <<".">> THEN Slash ELSE Slash \o dir
           between == IF EndsWithSlash(base) THEN <<>> ELSE Slash
           start == IF dir = <<".">> THEN <<>> ELSE Node(dir) \o Slash
<1>1. /\ p \in Text /\ Name(p) \in Text /\ tail \in Text /\ Slash \in Text /\ <<>> \in Text
      /\ url_encode(Name(p)) \in Text /\ url_encode(tail) = tail
      /\ url_encode(Slash) = Slash /\ url_encode(<<>>) = <<>>
  <2>1. p \in Text /\ Name(p) \in Text /\ Slash \in Text /\ <<>> \in Text
    BY NodeOf, ParentAndName, TextFacts
  <2>2. url_encode(Slash) = Slash /\ url_encode(<<>>) = <<>>
    BY PlainSlash
  <2> QED  BY <2>1, <2>2, EncodeType
<1>2. Href(dir, p) = ((base \o between) \o url_encode(Name(p))) \o tail
  BY DEF Href, Slash
<1> HIDE DEF tail
\* What stands in front of the name.
<1>3. base \o between = Slash \o start /\ start \in Text
  <2>1. CASE dir = <<".">>
    <3>1. EndsWithSlash(Slash)
      BY DEF EndsWithSlash, Last, Slash
    <3> QED  BY <2>1, <3>1, TextFacts
  <2>2. CASE dir # <<".">>
    <3>1. Node(dir) \in Paths /\ Node(dir) \in Text
      BY <2>2, NodeOf
    <3>2. dir # <<>>
      <4> SUFFICES ASSUME dir = <<>> PROVE FALSE
        OBVIOUS
      <4>1. Node(dir) = <<>>
        BY DEF Node, EndsWithSlash
      <4> QED  BY <3>1, <4>1, NodeOf
    <3> DEFINE sd == Slash \o dir
    <3>3. sd \in Text /\ sd # <<>> /\ Last(sd) = Last(dir)
      <4>1. PICK n \in Nat : n = Len(dir) /\ n # 0 /\ n \in 1 .. n
        <5>1. Len(dir) \in Nat /\ Len(dir) # 0
          BY <3>2 DEF Text
        <5> QED  BY <5>1
      <4>2. Len(Slash) = 1
        BY DEF Slash
      <4>3. /\ sd \in Text /\ Len(sd) = Len(Slash) + Len(dir)
            /\ \A i \in 1 .. Len(dir) : sd[Len(Slash) + i] = dir[i]
        BY ONLY <1>1, TextConcat
      <4> HIDE DEF sd
      <4>4. sd \in Text /\ Len(sd) = 1 + n /\ sd[1 + n] = dir[n]
        BY ONLY <4>1, <4>2, <4>3
      <4>5. sd # <<>>
        BY <4>4
      <4> QED  BY <4>1, <4>4, <4>5 DEF Last
    <3> HIDE DEF sd
    <3>4. EndsWithSlash(sd) <=> EndsWithSlash(dir)
      BY <3>2, <3>3 DEF EndsWithSlash
    <3>5. CASE EndsWithSlash(dir)
      <4>1. dir = Node(dir) \o Slash
        <5>1. PICK n \in Nat : n = Len(dir) /\ n # 0
          <6>1. Len(dir) \in Nat /\ Len(dir) # 0
            BY <3>2 DEF Text
          <6> QED  BY <6>1
        <5>2. dir[n] = "/"
          BY <3>5, <5>1 DEF EndsWithSlash, Last
        <5>3. Node(dir) = SubSeq(dir, 1, n - 1)
          BY <3>5, <5>1 DEF Node, Front
        <5>4. SubSeq(dir, 1, n) = SubSeq(dir, 1, n - 1) \o <<dir[n]>>
          <6>1. 1 \in 1 .. Len(dir) /\ n \in 1 .. Len(dir) /\ dir \in Seq(Chars)
            BY <5>1 DEF Text
          <6> QED  BY ONLY <6>1, SubSeqRecursiveSecond
        <5>5. SubSeq(dir, 1, n) = dir
          BY <5>1, SubSeqFull DEF Text
        <5> QED  BY <5>2, <5>3, <5>4, <5>5 DEF Slash
      <4>2. sd \o <<>> = sd
        BY <3>3, TextFacts
      <4>3. between = <<>> /\ base = sd /\ start = dir
        BY <2>2, <3>4, <3>5, <4>1 DEF sd
      <4> HIDE DEF between, base, start
      <4> QED  BY <4>2, <4>3 DEF sd
    <3>6. CASE ~EndsWithSlash(dir)
      <4>1. Node(dir) = dir
        BY <3>6 DEF Node
      <4>2. between = Slash /\ base = sd /\ start = dir \o Slash
        BY <2>2, <3>4, <3>6, <4>1 DEF sd
      <4>3. (Slash \o dir) \o Slash = Slash \o (dir \o Slash) /\ dir \o Slash \in Text
        <5>1. (Slash \o dir) \o Slash = Slash \o (dir \o Slash)
          <6>1. Slash \in Text /\ dir \in Text
            BY <1>1
          <6>2. (Slash \o dir) \o Slash \in {Slash \o (dir \o Slash)}
            BY ONLY <6>1, TextAssociative, Zenon
          <6> QED  BY ONLY <6>2
        <5>2. dir \o Slash \in Text
          BY ONLY <1>1, TextConcat
        <5> QED  BY <5>1, <5>2
      <4> HIDE DEF between, base, start
      <4> QED  BY <4>2, <4>3 DEF sd
    <3> QED  BY <3>5, <3>6
  <2> QED  BY <2>1, <2>2
<1>4. url_encode(start) = start
  <2>1. CASE dir = <<".">>
    BY <1>1, <2>1 DEF start
  <2>2. CASE dir # <<".">>
    <3>1. Node(dir) \in Text /\ url_encode(Node(dir)) = Node(dir)
      BY PlainNode
    <3>2. url_encode(Node(dir) \o Slash) = url_encode(Node(dir)) \o url_encode(Slash)
      BY ONLY <1>1, <3>1, EncodeConcat
    <3> QED  BY <1>1, <2>2, <3>1, <3>2 DEF start
  <2> QED  BY <2>1, <2>2
\* The path is what stands in front of the name, and the name.
<1>5. p = start \o Name(p)
  <2>1. CASE dir = <<".">>
    <3>1. Node(dir) = dir
      <4>1. ~EndsWithSlash(<<".">>)
        BY DEF EndsWithSlash, Last
      <4> QED  BY <2>1, <4>1 DEF Node
    <3>2. Name(p) = p
      BY <2>1, <3>1, ParentAndName
    <3>3. <<>> \o p = p
      BY <1>1, ConcatEmptySeq DEF Text
    <3> QED  BY <2>1, <3>2, <3>3
  <2>2. CASE dir # <<".">>
    <3>1. Node(dir) # <<".">>
      BY <2>2, PathsAssumption
    <3> QED  BY <2>2, <3>1, ParentAndName
  <2> QED  BY <2>1, <2>2
<1> HIDE DEF base, between, start
<1>6. y \in Text /\ url_encode(y) = (start \o url_encode(Name(p))) \o tail
  <2>1. url_encode(p) = start \o url_encode(Name(p))
    <3>1. url_encode(start \o Name(p)) = url_encode(start) \o url_encode(Name(p))
      BY ONLY <1>1, <1>3, EncodeConcat
    <3> QED  BY ONLY <1>4, <1>5, <3>1
  <2>2. p \o tail \in Text /\ url_encode(p \o tail) = url_encode(p) \o url_encode(tail)
    BY ONLY <1>1, EncodeConcat
  <2> QED  BY ONLY <1>1, <2>1, <2>2
<1>7. Href(dir, p) = Slash \o url_encode(y)
  <2> DEFINE name == url_encode(Name(p))
  <2>1. name \in Text
    BY <1>1
  <2> HIDE DEF name
  <2>2. (Slash \o start) \o name = Slash \o (start \o name) /\ start \o name \in Text
    <3>1. Slash \in Text /\ start \in Text
      BY ONLY <1>1, <1>3
    <3>2. start \o name \in Text
      BY ONLY <2>1, <3>1, TextConcat
    <3>3. (Slash \o start) \o name \in {Slash \o (start \o name)}
      BY ONLY <2>1, <3>1, TextAssociative, Zenon
    <3> QED  BY ONLY <3>2, <3>3
  <2>3. (Slash \o (start \o name)) \o tail = Slash \o ((start \o name) \o tail)
    <3> DEFINE u == start \o name
    <3>1. Slash \in Text /\ u \in Text /\ tail \in Text
      BY ONLY <1>1, <2>2
    <3> HIDE DEF u
    <3>2. (Slash \o u) \o tail \in {Slash \o (u \o tail)}
      BY ONLY <3>1, TextAssociative, Zenon
    <3> QED  BY ONLY <3>2 DEF u
  <2> QED  BY <1>2, <1>3, <1>6, <2>2, <2>3 DEF name
<1>8. y \in {p, p \o Slash} /\ (~IsDirectory(p) => y = p)
  BY <1>1, TextFacts DEF tail
<1> QED  BY <1>7, <1>8

\* The links of a listing: an entry, with and without a download, and the directories
\* above it.
LEMMA EntriesLeadBack ==
    ASSUME NEW dir \in Text, NEW entries \in SUBSET Children(nodes, Node(dir)), Plain(dir),
           dir = <<".">> \/ Node(dir) \in Paths, NEW link \in Links(dir, entries)
    PROVE  Node(Path(link.href)) = link.to
<1>1. PICK p \in entries :
          \/ link = [href |-> Href(dir, p), to |-> p]
          \/ link = [href |-> Href(dir, p) \o Question, to |-> p]
  BY DEF Links, Question
<1>2. p \in Paths /\ Parent(p) = Node(dir)
  BY DEF Children
<1>3. PICK y \in {p, p \o Slash} : Href(dir, p) = Slash \o url_encode(y)
  BY <1>2, HrefIs
<1>4. y \in Text /\ y # <<>> /\ Node(y) = p
  <2>1. p \in Text /\ p # <<>> /\ Node(p) = p /\ Node(p \o Slash) = p
    BY <1>2, NodeOf
  <2>2. p \o Slash \in Text /\ Slash \in Text
    BY <2>1, TextFacts
  <2>3. p \o Slash # <<>>
    BY <2>1, <2>2, ConcatSimplifications DEF Text
  <2> QED  BY <1>3, <2>1, <2>2, <2>3
<1>5. Path(Href(dir, p)) = y /\ Path(Href(dir, p) \o Question) = y
  BY <1>3, <1>4, LinkLeadsTo
<1>6. /\ link.to = p
      /\ link.href = Href(dir, p) \/ link.href = Href(dir, p) \o Question
  BY <1>1
<1> QED  BY ONLY <1>4, <1>5, <1>6

LEMMA BreadcrumbsLeadBack ==
    ASSUME NEW dir \in Text, Plain(dir), NEW link \in Breadcrumb(dir)
    PROVE  Node(Path(link.href)) = link.to
<1>1. PICK n \in 1 .. Len(dir) :
          /\ link.href = (Slash \o SubSeq(dir, 1, n)) \o Slash /\ link.to = SubSeq(dir, 1, n)
  <2>1. PICK n \in 1 .. Len(dir) :
            link = [href |-> <<"/">> \o SubSeq(dir, 1, n) \o <<"/">>, to |-> SubSeq(dir, 1, n)]
    BY Zenon DEF Breadcrumb
  <2> QED  BY <2>1 DEF Slash
<1> DEFINE s == SubSeq(dir, 1, n)
           y == s \o Slash
<1>2. s \in Text /\ url_encode(s) = s /\ Slash \in Text /\ url_encode(Slash) = Slash
  <2>1. n \in 0 .. Len(dir)
    BY TextFacts
  <2> QED  BY <2>1, PlainPrefix, PlainSlash, TextFacts
<1>3. link.href = (Slash \o s) \o Slash /\ link.to = s
  BY <1>1
<1> HIDE DEF s
<1>4. y \in Text /\ url_encode(y) = y
  <2>1. s \o Slash \in Text /\ url_encode(s \o Slash) = url_encode(s) \o url_encode(Slash)
    BY ONLY <1>2, EncodeConcat
  <2> QED  BY ONLY <1>2, <2>1
<1>5. y # <<>>
  <2>1. Slash # <<>>
    BY DEF Slash
  <2>2. \A t, u \in Seq(Chars) : t \o u = <<>> => u = <<>>
    BY ConcatSimplifications
  <2> QED  BY <1>2, <2>1, <2>2 DEF Text
<1>6. link.href = Slash \o y
  <2>1. Slash \in Text /\ s \in Text
    BY <1>2
  <2>2. (Slash \o s) \o Slash \in {Slash \o (s \o Slash)}
    BY ONLY <2>1, TextAssociative, Zenon
  <2> QED  BY <1>3, <2>2
<1>7. Path(Slash \o url_encode(y)) = y
  BY <1>4, <1>5, LinkLeadsTo
<1>8. Node(y) = s
  BY <1>2, NodeOf
<1> QED  BY <1>3, <1>4, <1>6, <1>7, <1>8

-----------------------------------------------------------------------------
(* The links of a page. *)

\* The path of a request is a text.
LEMMA PathType == ASSUME NEW target \in Text PROVE Path(target) \in Text
<1> DEFINE noQuery == SubSeq(target, 1, Len(target) - Len(Query(target)))
           rest == IF noQuery # <<>> /\ Head(noQuery) = "/" THEN Tail(noQuery) ELSE noQuery
<1>1. Len(target) \in Nat /\ DOMAIN target = 1 .. Len(target)
  BY TextFacts
<1>2. Len(Query(target)) \in Nat
  <2> DEFINE marks == {i \in DOMAIN target : target[i] = "?"}
  <2>1. CASE marks = {}
    <3>1. Query(target) = <<>>
      BY <2>1 DEF Query
    <3> QED  BY <3>1
  <2>2. CASE marks # {}
    <3>1. marks \in SUBSET Nat
      BY <1>1
    <3>2. Min(marks) \in marks
      <4> HIDE DEF marks
      <4>1. \E m \in marks : \A n \in marks : m <= n
        BY <2>2, <3>1, LeastElement
      <4> QED  BY <4>1 DEF Min
    <3>3. PICK m \in 1 .. Len(target) : Query(target) = SubSeq(target, m, Len(target))
      BY <1>1, <2>2, <3>2 DEF Query
    <3>4. SubSeq(target, m, Len(target)) \in Seq(Chars)
      <4>1. \A i \in m .. Len(target) : target[i] \in Chars
        BY <1>1 DEF Text
      <4>2. m \in Int /\ Len(target) \in Int
        BY <1>1
      <4> QED  BY ONLY <4>1, <4>2, SubSeqProperties
    <3>5. \A t \in Seq(Chars) : Len(t) \in Nat
      OBVIOUS
    <3> QED  BY <3>3, <3>4, <3>5
  <2> QED  BY <2>1, <2>2
<1>3. noQuery \in Seq(Chars)
  <2>1. PICK k \in Int : k = Len(target) - Len(Query(target)) /\ k <= Len(target)
    <3>1. \A m, n \in Nat : m - n \in Int /\ m - n <= m
      OBVIOUS
    <3> QED  BY ONLY <1>1, <1>2, <3>1
  <2>2. \A i \in 1 .. k : target[i] \in Chars
    BY <1>1, <2>1 DEF Text
  <2>3. SubSeq(target, 1, k) \in Seq(Chars)
    BY <2>2, SubSeqProperties
  <2> QED  BY <2>1, <2>3
<1> HIDE DEF noQuery
<1>4. rest \in Text
  <2>1. noQuery # <<>> => Tail(noQuery) \in Seq(Chars)
    BY <1>3
  <2> QED  BY <1>3, <2>1 DEF Text
<1>5. url_decode(rest) \in Text /\ <<".">> \in Text
  <2>1. "." \in Chars
    BY CharsAssumption
  <2> HIDE DEF rest
  <2> QED  BY <1>4, <2>1, DecodeType DEF Text
<1>6. Path(target) = IF url_decode(rest) = <<>> THEN <<".">> ELSE url_decode(rest)
  BY DEF Path, noQuery
<1> HIDE DEF rest
<1> QED  BY <1>5, <1>6

\* What is listed is the served directory or a path that exists in it.
Listing == /\ request.target \in Text
           /\ pc = "list" => path = <<".">> \/ Node(path) \in Paths

LInv == Listing /\ LinksLeadBack

LEMMA ListedLeadsBack == ASSUME LInv, List PROVE LinksLeadBack'
<1>1. pc = "list" /\ path' = path /\ path \in Text /\ (path = <<".">> \/ Node(path) \in Paths)
  BY PathType DEF LInv, Listing, List, path
<1>2. PICK entries \in SUBSET Children(nodes, Node(path)) : Listed(entries)
  BY DEF List
<1>3. CASE body'.kind = "listing"
  <2>1. body' = [kind |-> "listing", of |-> Links(path, entries) \cup Breadcrumb(path)]
    BY <1>2, <1>3 DEF Listed
  <2>2. ASSUME Plain(path), NEW link \in Links(path, entries) \cup Breadcrumb(path)
        PROVE  Node(Path(link.href)) = link.to
    BY <1>1, <2>2, EntriesLeadBack, BreadcrumbsLeadBack
  <2> QED  BY <1>1, <2>1, <2>2 DEF LinksLeadBack, Plain
<1>4. CASE body'.kind # "listing"
  BY <1>4 DEF LinksLeadBack
<1> QED  BY <1>3, <1>4

\* The links of a page lead back to what they are shown for: whatever characters the
\* entries' names have, as long as nothing above them needs to be encoded.
THEOREM LinksComeBack == Spec => []LinksLeadBack
<1>1. Init => LInv
  <2> SUFFICES ASSUME Init PROVE LInv
    OBVIOUS
  <2>1. request.target \in Text /\ pc = "idle" /\ body = NoBody
    BY TextFacts DEF Init, Idle
  <2> QED  BY <2>1 DEF LInv, Listing, LinksLeadBack, NoBody
<1>2. IInv /\ LInv /\ [Next]_vars => LInv'
  <2> SUFFICES ASSUME IInv, LInv, [Next]_vars PROVE LInv'
    OBVIOUS
  <2> USE DEF LInv
  <2>1. ASSUME NEW r \in Requests, Accept(r) PROVE LInv'
    <3>1. request' = r /\ pc' \in {"exists", "done"} /\ body'.kind # "listing"
      BY <2>1 DEF Accept, IInv, Phases, NoBody
    <3>2. r.target \in Text
      BY RequestsAssumption DEF Text
    <3> QED  BY <3>1, <3>2 DEF Listing, LinksLeadBack
  <2>2. ASSUME Is_directory PROVE LInv'
    <3>1. UNCHANGED <<nodes, request, body, path>>
      BY <2>2 DEF Is_directory, path
    <3>2. pc' = "list" => path = <<".">> \/ Node(path) \in Paths
      BY <2>2 DEF Is_directory, Now, Look
    <3> QED  BY <3>1, <3>2 DEF Listing, LinksLeadBack
  <2>3. ASSUME List PROVE LInv'
    <3>1. request' = request /\ pc' # "list"
      BY <2>3 DEF List, Listed
    <3> QED  BY <2>3, <3>1, ListedLeadsBack DEF Listing
  <2>4. ASSUME \/ Exists \/ Open \/ ReadPiece \/ ReadEnds
               \/ Status \/ Download \/ Disposition \/ LookThrows
        PROVE  LInv'
    <3>1. request' = request /\ pc' # "list" /\ (body' = body \/ body'.kind # "listing")
      <4>1. CASE ReadPiece \/ ReadEnds  BY <4>1 DEF ReadPiece, ReadEnds
      <4>2. CASE ~(ReadPiece \/ ReadEnds)
        BY <2>4, <4>2 DEF Exists, Open, Status, Download, Disposition, LookThrows
      <4> QED BY <4>1, <4>2
    <3>2. path' = path
      BY <3>1 DEF path
    <3> QED  BY <3>1, <3>2 DEF Listing, LinksLeadBack
  <2>5. ASSUME Answered PROVE LInv'
    <3>1. pc' = "idle" /\ body' = NoBody /\ request' = Idle
      BY <2>5 DEF Answered
    <3> QED  BY <3>1, TextFacts DEF Listing, LinksLeadBack, NoBody, Idle
  <2>6. CASE \/ UNCHANGED vars
             \/ \E p \in Paths, node \in Contents \cup {"none", "dir"} : Change(p, node)
    <3>1. UNCHANGED <<pc, request, body>>
      BY <2>6 DEF vars, Change
    <3>2. path' = path
      BY <3>1 DEF path
    <3> QED  BY <3>1, <3>2 DEF Listing, LinksLeadBack
  <2> QED  BY <2>1, <2>2, <2>3, <2>4, <2>5, <2>6 DEF Next, Process
<1>3. LInv => LinksLeadBack
  BY DEF LInv
<1> QED  BY <1>1, <1>2, <1>3, Invariance, PTL DEF Spec

=============================================================================
