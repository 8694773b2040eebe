---------------------------- MODULE SocketProofs ----------------------------
(***************************************************************************)
(* Theorems about one end of a stream, StreamSocket, and about who holds   *)
(* its descriptor, SocketHandles, for every value of their constants.      *)
(***************************************************************************)
EXTENDS StreamSocket, SocketHandles, SequenceTheorems, TLAPS

-----------------------------------------------------------------------------
(* The stream. *)


LEMMA BytesProperties ==
    ASSUME NEW from \in Nat, NEW k \in Nat
    PROVE  /\ Bytes(from, k) \in Seq(Nat)
           /\ Len(Bytes(from, k)) = k
           /\ \A i \in 1 .. k : Bytes(from, k)[i] = from + i
BY DEF Bytes

LEMMA ConcatAssoc ==
    ASSUME NEW s \in Seq(Nat), NEW t \in Seq(Nat), NEW u \in Seq(Nat)
    PROVE  (s \o t) \o u = s \o (t \o u)
<1> DEFINE left == (s \o t) \o u
           right == s \o (t \o u)
<1>1. s \o t \in Seq(Nat) /\ t \o u \in Seq(Nat)
  BY ConcatProperties
<1>2. left \in Seq(Nat) /\ right \in Seq(Nat)
  BY <1>1, ConcatProperties
<1>3. Len(left) = Len(right)
  BY <1>1
<1>4. \A i \in 1 .. Len(left) : left[i] = right[i]
  BY <1>1
<1> HIDE DEF left, right
<1>5. left = right
  BY ONLY <1>2, <1>3, <1>4, SeqEqual
<1> QED  BY <1>5 DEF left, right

\* A part of a byte sequence.
LEMMA Part ==
    ASSUME NEW s \in Seq(Nat), NEW a \in Nat, NEW b \in Nat, b <= Len(s)
    PROVE  /\ SubSeq(s, a + 1, b) \in Seq(Nat)
           /\ Len(SubSeq(s, a + 1, b)) = IF a <= b THEN b - a ELSE 0
<1>1. a + 1 \in Int /\ b \in Int /\ b - (a + 1) + 1 = b - a /\ (a + 1 <= b \/ a = b <=> a <= b)
  OBVIOUS
<1>2. \A i \in a + 1 .. b : s[i] \in Nat
  OBVIOUS
<1>3. /\ SubSeq(s, a + 1, b) \in Seq(Nat)
      /\ Len(SubSeq(s, a + 1, b)) = IF a + 1 <= b THEN b - (a + 1) + 1 ELSE 0
  BY ONLY <1>1, <1>2, SubSeqProperties
<1> QED  BY ONLY <1>1, <1>3, a \in Nat, b \in Nat

\* The kernel never hands out what did not arrive, nor holds more than SndBuf.
KernelInv ==
    /\ taken <= arrived
    /\ peerRead <= Len(wire) /\ Len(wire) - peerRead <= SndBuf

\* The inductive invariant behind the type invariant: the remaining count and the
\* offset stay naturals because the offset stays inside the first buffer.
TInv == TypeOK /\ OffsetInside /\ KernelInv

LEMMA ConstantsAreNat == SndBuf \in Nat /\ Window \in Nat /\ ByteLimit \in Nat \ {0}
BY BoundsAssumption, ByteLimitAssumption

LEMMA InitT == Init => TInv
<1> SUFFICES ASSUME Init PROVE TInv
  OBVIOUS
<1>1. TypeOK
  <2>1. \A S : <<>> \in Seq(S)
    OBVIOUS
  <2>2. /\ receive_buffer \in Seq(Nat) /\ consumed \in Seq(Nat) /\ wire \in Seq(Nat)
        /\ out_buffers \in Seq(Seq(Nat))
    BY <2>1 DEF Init
  <2>3. pc \in {"idle", "recv", "flush", "sendv", "account"} /\ result \in Results
    BY DEF Init, Results
  <2>4. writable \in BOOLEAN /\ sendFailed \in BOOLEAN /\ peer \in {"open", "fin", "rst"}
    BY DEF Init
  <2>5. /\ offset \in Nat /\ bytes_received \in Nat /\ vec \in Nat \ {0} /\ remaining \in Nat
        /\ arrived \in Nat /\ taken \in Nat /\ peerRead \in Nat /\ enqueued \in Nat
        /\ gone \in Nat
    BY DEF Init
  <2> QED  BY <2>2, <2>3, <2>4, <2>5 DEF TypeOK
<1>2. OffsetInside
  BY DEF Init, OffsetInside
<1>3. KernelInv
  <2>1. taken <= arrived /\ peerRead = 0 /\ Len(wire) = 0
    BY DEF Init
  <2> QED  BY <2>1, ConstantsAreNat DEF KernelInv
<1> QED  BY <1>1, <1>2, <1>3 DEF TInv

\* The application's own steps: enqueue(), erasing from receive(), calling tick().
LEMMA ApplicationT ==
    ASSUME TInv, Application \/ Call
    PROVE  TInv'
<1> USE DEF TInv, TypeOK, OffsetInside, KernelInv
<1>1. ASSUME NEW n \in BufSizes, Enqueue(n)
      PROVE  TInv'
  <2>0. n \in Nat
    BY SizesAssumption
  <2>1. n \in Nat /\ Bytes(enqueued, n) \in Seq(Nat)
    BY <2>0, BytesProperties
  <2>2. out_buffers' \in Seq(Seq(Nat)) /\ out_buffers' # <<>>
    <3>1. out_buffers \in Seq(Seq(Nat)) /\ out_buffers' = Append(out_buffers, Bytes(enqueued, n))
      BY <1>1 DEF Enqueue
    <3> QED  BY ONLY <2>1, <3>1
  <2>3. out_buffers # <<>> => out_buffers'[1] = out_buffers[1]
    BY <1>1, <2>1 DEF Enqueue
  <2>4. /\ enqueued' \in Nat /\ offset' = offset
        /\ UNCHANGED <<receive_buffer, tickVars, kernVars, consumed, gone, sendFailed>>
    BY <1>1, <2>1 DEF Enqueue
  <2>5. TypeOK'
    BY <2>2, <2>4 DEF tickVars, kernVars
  <2>6. OffsetInside'
    <3>1. OffsetInside /\ (offset > 0 => out_buffers # <<>>)
      BY DEF TInv, TypeOK, OffsetInside
    <3> QED  BY ONLY <2>2, <2>3, <2>4, <3>1 DEF OffsetInside
  <2>7. KernelInv'
    BY <2>4 DEF kernVars
  <2> QED  BY <2>5, <2>6, <2>7
<1>2. ASSUME NEW k \in 1 .. Len(receive_buffer), Consume(k)
      PROVE  TInv'
  <2>1. PICK n \in Nat : n = Len(receive_buffer) /\ k \in Nat /\ k <= n /\ n <= n
    <3>1. Len(receive_buffer) \in Nat
      OBVIOUS
    <3> QED  BY <3>1
  <2>2. /\ SubSeq(receive_buffer, 0 + 1, k) \in Seq(Nat)
        /\ SubSeq(receive_buffer, k + 1, Len(receive_buffer)) \in Seq(Nat)
    BY <2>1, Part
  <2>3. consumed \o SubSeq(receive_buffer, 1, k) \in Seq(Nat)
    <3>1. 0 + 1 = 1
      OBVIOUS
    <3> QED  BY <2>2, <3>1, ConcatProperties
  <2>4. /\ consumed' \in Seq(Nat) /\ receive_buffer' \in Seq(Nat)
        /\ UNCHANGED <<out_buffers, offset, tickVars, kernVars, enqueued, gone, sendFailed>>
    BY <1>2, <2>2, <2>3 DEF Consume
  <2>5. TypeOK'
    BY <2>4 DEF tickVars, kernVars
  <2>6. OffsetInside' /\ KernelInv'
    BY <2>4 DEF kernVars
  <2> QED  BY <2>5, <2>6
<1>3. ASSUME NEW m \in TickModes, Tick(m[1], m[2])
      PROVE  TInv'
  <2>1. m[1] \in BOOLEAN /\ m[2] \in BOOLEAN
    BY ModesAssumption
  <2> QED  BY <1>3, <2>1 DEF Tick, FirstStage, Results, sockVars, kernVars, appVars
<1> QED  BY <1>1, <1>2, <1>3 DEF Application, Call

\* receive() touches neither the queue nor the offset.
LEMMA ReceiveT ==
    ASSUME TInv, Receive
    PROVE  TInv'
<1> USE DEF TInv, TypeOK, OffsetInside, KernelInv, ReceiveReturns, Results
<1>1. ASSUME NEW n \in 1 .. ByteLimit, RecvChunk(n)
      PROVE  TInv'
  <2>1. n \in Nat /\ Bytes(taken, n) \in Seq(Nat)
    BY ConstantsAreNat, BytesProperties
  <2> QED  BY <1>1, <2>1 DEF RecvChunk, RecvTakes, LimitReached, Appended, appVars
<1>2. ASSUME NEW n \in 1 .. ByteLimit, RecvPastLimit(n)
      PROVE  TInv'
  BY <1>2, ConstantsAreNat DEF RecvPastLimit, RecvTakes, LimitReached, appVars
<1>3. CASE RecvWouldBlock
  BY <1>3 DEF RecvWouldBlock, sockVars, kernVars, appVars
<1>4. CASE RecvClosed
  BY <1>4 DEF RecvClosed, sockVars, kernVars, appVars
<1>5. CASE RecvError
  BY <1>5 DEF RecvError, sockVars, kernVars, appVars
<1> QED  BY <1>1, <1>2, <1>3, <1>4, <1>5 DEF Receive

\* What an iovec covers is part of a queued buffer.
LEMMA IovecType ==
    ASSUME TInv, NEW v \in 1 .. Len(out_buffers)
    PROVE  Iovec(v) \in Seq(Nat)
<1>1. PICK b \in Seq(Nat), n \in Nat : b = out_buffers[v] /\ n = Len(b) /\ n <= Len(b) /\ offset \in Nat
  <2>1. out_buffers[v] \in Seq(Nat) /\ offset \in Nat
    BY DEF TInv, TypeOK
  <2>2. Len(out_buffers[v]) \in Nat /\ Len(out_buffers[v]) <= Len(out_buffers[v])
    BY <2>1
  <2> QED  BY <2>1, <2>2
<1>2. SubSeq(b, offset + 1, Len(b)) \in Seq(Nat)
  BY <1>1, Part
<1> QED  BY <1>1, <1>2 DEF Iovec

\* flush_out_buffer().
LEMMA FlushT ==
    ASSUME TInv, Flush
    PROVE  TInv'
<1> USE DEF TInv, TypeOK, OffsetInside, KernelInv, Results
<1>1. CASE FlushEmpty
  BY <1>1 DEF FlushEmpty, sockVars, kernVars, appVars
<1>2. CASE FlushError
  BY <1>2 DEF FlushError, kernVars
<1>3. CASE FlushSend
  BY <1>3 DEF FlushSend, sockVars, kernVars, appVars
<1>4. CASE CopyWhole
  <2>1. Iovec(vec) \in Seq(Nat) /\ Len(Iovec(vec)) \in Nat
    BY <1>4, IovecType DEF CopyWhole
  <2>2. Len(wire') = Len(wire) + Len(Iovec(vec)) /\ wire' \in Seq(Nat)
    BY <1>4, <2>1, ConcatProperties DEF CopyWhole
  <2>3. /\ remaining' \in Nat /\ vec' \in Nat \ {0} /\ Len(Iovec(vec)) <= SndBuf - (Len(wire) - peerRead)
        /\ UNCHANGED <<sockVars, pc, writable, result, bytes_received, arrived, taken, peerRead, peer, appVars>>
    <3>1. /\ remaining' = remaining + Len(Iovec(vec)) /\ vec' = vec + 1 /\ Len(Iovec(vec)) <= Space
          /\ UNCHANGED <<sockVars, pc, writable, result, bytes_received, arrived, taken, peerRead, peer, appVars>>
      BY <1>4 DEF CopyWhole
    <3>2. remaining \in Nat /\ vec \in Nat \ {0}
      OBVIOUS
    <3> QED  BY ONLY <2>1, <3>1, <3>2 DEF Space
  <2>4. TypeOK' /\ OffsetInside'
    BY <2>2, <2>3 DEF sockVars, appVars
  <2>5. KernelInv'
    BY <2>1, <2>2, <2>3, ConstantsAreNat
  <2> QED  BY <2>4, <2>5
<1>5. CASE CopyPart
  <2>1. Iovec(vec) \in Seq(Nat) /\ Len(Iovec(vec)) \in Nat
    BY <1>5, IovecType DEF CopyPart
  <2>2. Space \in Nat /\ Space <= Len(Iovec(vec))
    BY <1>5, <2>1, ConstantsAreNat DEF CopyPart, Space
  <2>3. PICK part \in Seq(Nat) : part = SubSeq(Iovec(vec), 1, Space) /\ Len(part) = Space
    <3>1. 0 + 1 = 1 /\ 0 <= Space /\ Space - 0 = Space
      BY <2>2
    <3>2. /\ SubSeq(Iovec(vec), 0 + 1, Space) \in Seq(Nat)
          /\ Len(SubSeq(Iovec(vec), 0 + 1, Space)) = IF 0 <= Space THEN Space - 0 ELSE 0
      BY ONLY <2>1, <2>2, Part
    <3> QED  BY ONLY <3>1, <3>2
  <2>4. Len(wire') = Len(wire) + Space /\ wire' \in Seq(Nat)
    <3>1. wire' = wire \o part
      BY <1>5, <2>3 DEF CopyPart
    <3>2. wire \o part \in Seq(Nat) /\ Len(wire \o part) = Len(wire) + Len(part)
      BY ConcatProperties
    <3> QED  BY ONLY <2>3, <3>1, <3>2
  <2>5. /\ remaining' = remaining + Space /\ vec' = 1 /\ pc' \in {"account", "idle"}
        /\ UNCHANGED <<sockVars, writable, result, bytes_received, arrived, taken, peerRead, peer, appVars>>
    BY <1>5 DEF CopyPart
  <2>6. TypeOK' /\ OffsetInside'
    BY <2>2, <2>4, <2>5 DEF sockVars, appVars
  <2>7. KernelInv'
    <3>1. Space = SndBuf - (Len(wire) - peerRead)
      BY DEF Space
    <3>2. Len(wire) \in Nat /\ peerRead \in Nat /\ SndBuf \in Nat
      BY ConstantsAreNat
    <3> QED  BY <2>4, <2>5, <3>1, <3>2
  <2> QED  BY <2>6, <2>7
<1>6. CASE SendvAll
  BY <1>6 DEF SendvAll, sockVars, kernVars, appVars
<1>7. CASE SendvNothing
  BY <1>7 DEF SendvNothing, kernVars, appVars
<1>8. CASE Account
  <2>1. PICK size \in Nat : size = Len(out_buffers[1]) /\ size = Len(Head(out_buffers)) /\ offset <= size
    <3>1. out_buffers # <<>> /\ out_buffers[1] = Head(out_buffers) /\ out_buffers[1] \in Seq(Nat)
      BY <1>8 DEF Account
    <3>2. Len(out_buffers[1]) \in Nat
      BY <3>1
    <3>3. offset <= Len(out_buffers[1])
      BY <3>2
    <3> QED  BY <3>1, <3>2, <3>3
  <2>2. PICK took \in Nat : took = Took(size) /\ took <= remaining
    <3>1. offset \in Nat /\ remaining \in Nat
      OBVIOUS
    <3>2. \A a, b, c \in Nat : a <= b => Lesser(b - a, c) \in Nat /\ Lesser(b - a, c) <= c
      BY ONLY DEF Lesser
    <3> QED  BY ONLY <2>1, <3>1, <3>2 DEF Took
  <2>3. remaining' \in Nat
    <3>1. remaining' = remaining - took /\ remaining \in Nat
      BY <1>8, <2>1, <2>2 DEF Account
    <3> QED  BY ONLY <2>2, <3>1
  <2>4. /\ UNCHANGED <<receive_buffer, pc, writable, result, bytes_received, vec,
                        kernVars, consumed, enqueued, sendFailed>>
    BY <1>8 DEF Account
  <2>5. KernelInv'
    BY <2>4 DEF kernVars
  <2>6. CASE offset + took >= size
    <3>1. out_buffers' = Tail(out_buffers) /\ offset' = 0 /\ gone' = gone + size
      BY <1>8, <2>1, <2>2, <2>6 DEF Account, FullySent
    <3>2. out_buffers' \in Seq(Seq(Nat))
      <4>1. out_buffers # <<>>
        BY <1>8 DEF Account
      <4> QED  BY <3>1, <4>1, HeadTailProperties
    <3>3. TypeOK'
      BY <2>3, <2>4, <3>1, <3>2 DEF kernVars
    <3>4. OffsetInside'
      BY <3>1
    <3> QED  BY <2>5, <3>3, <3>4
  <2>7. CASE ~(offset + took >= size)
    <3>1. out_buffers' = out_buffers /\ offset' = offset + took /\ gone' = gone
      BY <1>8, <2>1, <2>2, <2>7 DEF Account, FullySent
    <3>2. offset \in Nat
      OBVIOUS
    <3>3. offset' \in Nat /\ offset' < size
      BY ONLY <2>1, <2>2, <2>7, <3>1, <3>2
    <3>4. TypeOK'
      BY <2>3, <2>4, <3>1, <3>3 DEF kernVars
    <3>5. OffsetInside'
      <4>1. out_buffers # <<>>
        BY <1>8 DEF Account
      <4> QED  BY ONLY <2>1, <3>1, <3>3, <4>1 DEF OffsetInside
    <3> QED  BY <2>5, <3>4, <3>5
  <2> QED  BY <2>6, <2>7
<1>9. CASE AccountDone
  BY <1>9 DEF AccountDone, sockVars, kernVars, appVars
<1> QED  BY <1>1, <1>2, <1>3, <1>4, <1>5, <1>6, <1>7, <1>8, <1>9 DEF Flush

\* The peer and the network.
LEMMA EnvironmentT ==
    ASSUME TInv, Environment
    PROVE  TInv'
<1> USE DEF TInv, TypeOK, OffsetInside, KernelInv
<1>1. ASSUME NEW n \in 1 .. MaxIn, Arrive(n)
      PROVE  TInv'
  BY <1>1, BoundsAssumption DEF Arrive, sockVars, tickVars, appVars
<1>2. CASE PeerFin
  BY <1>2 DEF PeerFin, sockVars, tickVars, appVars
<1>3. CASE PeerReset
  BY <1>3 DEF PeerReset, sockVars, tickVars, appVars
<1>4. CASE PeerDrain
  BY <1>4, ConstantsAreNat DEF PeerDrain, sockVars, tickVars, appVars
<1> QED  BY <1>1, <1>2, <1>3, <1>4 DEF Environment

LEMMA NextT == TInv /\ [Next]_vars => TInv'
<1> SUFFICES ASSUME TInv, [Next]_vars PROVE TInv'
  OBVIOUS
<1>1. CASE UNCHANGED vars
  BY <1>1 DEF TInv, TypeOK, OffsetInside, KernelInv, vars, sockVars, tickVars,
              kernVars, appVars
<1> QED  BY <1>1, ApplicationT, ReceiveT, FlushT, EnvironmentT DEF Next

LEMMA TInvariance == Spec => []TInv
BY InitT, NextT, PTL DEF Spec

\* The type invariant of a stream socket: no count or offset ever underflows.
THEOREM TypeCorrect == Spec => []TypeOK
BY TInvariance, PTL DEF TInv

\* The offset kept for a partly sent buffer lies inside that buffer.
THEOREM OffsetStaysInside == Spec => []OffsetInside
BY TInvariance, PTL DEF TInv

-----------------------------------------------------------------------------
(* The inbound stream. *)

LEMMA DeliveredType == TInv => Delivered \in Seq(Nat)
BY DEF TInv, TypeOK, Delivered

\* Only a chunk that is appended changes what was delivered.
LEMMA ChunkDelivers ==
    ASSUME TInv, NEW n \in 1 .. ByteLimit, RecvChunk(n)
    PROVE  Delivered' = Delivered \o Bytes(taken, n)
<1>1. consumed \in Seq(Nat) /\ receive_buffer \in Seq(Nat) /\ Bytes(taken, n) \in Seq(Nat)
  BY ConstantsAreNat, BytesProperties DEF TInv, TypeOK
<1>2. consumed \o (receive_buffer \o Bytes(taken, n))
        = (consumed \o receive_buffer) \o Bytes(taken, n)
  BY ONLY <1>1, ConcatAssoc
<1>3. consumed' = consumed /\ receive_buffer' = receive_buffer \o Bytes(taken, n)
  BY DEF RecvChunk, RecvTakes, LimitReached, Appended, appVars
<1> QED  BY <1>2, <1>3 DEF Delivered

LEMMA ConsumeDelivers ==
    ASSUME TInv, NEW k \in 1 .. Len(receive_buffer), Consume(k)
    PROVE  Delivered' = Delivered
<1> DEFINE n == Len(receive_buffer)
           head == SubSeq(receive_buffer, 1, k)
           rest == SubSeq(receive_buffer, k + 1, n)
<1>1. /\ consumed \in Seq(Nat) /\ receive_buffer \in Seq(Nat)
      /\ head \in Seq(Nat) /\ rest \in Seq(Nat)
  BY DEF TInv, TypeOK
<1>2. head \o rest = receive_buffer
  BY <1>1
<1> HIDE DEF head, rest
<1>3. (consumed \o head) \o rest = consumed \o (head \o rest)
  <2>1. consumed \in Seq(Nat) /\ head \in Seq(Nat) /\ rest \in Seq(Nat)
    BY <1>1
  <2> QED  BY ONLY <2>1, ConcatAssoc
<1>4. consumed' = consumed \o head /\ receive_buffer' = rest
  BY DEF Consume, head, rest, n
<1> QED  BY <1>2, <1>3, <1>4 DEF Delivered

\* The steps that leave the inbound stream alone.
InboundVars == <<receive_buffer, consumed, arrived, taken>>

LEMMA InboundUntouched ==
    ASSUME \/ \E n \in BufSizes : Enqueue(n)
           \/ Call \/ Flush \/ RecvWouldBlock \/ RecvClosed \/ RecvError
           \/ PeerFin \/ PeerReset \/ PeerDrain \/ UNCHANGED vars
    PROVE  UNCHANGED InboundVars
<1> USE DEF InboundVars, sockVars, tickVars, kernVars, appVars
<1>1. ASSUME NEW n \in BufSizes, Enqueue(n) PROVE UNCHANGED InboundVars
  BY <1>1 DEF Enqueue
<1>2. CASE Call
  BY <1>2 DEF Call, Tick, FirstStage
<1>3. CASE Flush
  BY <1>3 DEF Flush, FlushEmpty, FlushError, FlushSend, CopyWhole, CopyPart,
              SendvAll, SendvNothing, Account, AccountDone
<1>4. CASE RecvWouldBlock \/ RecvClosed \/ RecvError
  BY <1>4 DEF RecvWouldBlock, RecvClosed, RecvError
<1>5. CASE PeerFin \/ PeerReset \/ PeerDrain
  BY <1>5 DEF PeerFin, PeerReset, PeerDrain
<1>6. CASE UNCHANGED vars
  BY <1>6 DEF vars
<1> QED  BY <1>1, <1>2, <1>3, <1>4, <1>5, <1>6

\* None of those steps adds to the bytes counted in a tick: they keep the count, leave
\* receive(), or start a tick.
LEMMA CountKept ==
    ASSUME \/ \E n \in BufSizes : Enqueue(n)
           \/ Call \/ Flush \/ RecvWouldBlock \/ RecvClosed \/ RecvError
           \/ PeerFin \/ PeerReset \/ PeerDrain \/ UNCHANGED vars
    PROVE  pc' = "recv" => \/ pc = "recv" /\ bytes_received' = bytes_received
                           \/ bytes_received' = 0
<1> DEFINE Kept == pc' = "recv" => \/ pc = "recv" /\ bytes_received' = bytes_received
                                   \/ bytes_received' = 0
<1> USE DEF tickVars
<1>1. ASSUME NEW n \in BufSizes, Enqueue(n) PROVE Kept
  BY <1>1 DEF Enqueue
<1>2. CASE Call
  BY <1>2 DEF Call, Tick
<1>3. CASE Flush
  BY <1>3 DEF Flush, FlushEmpty, FlushError, FlushSend, CopyWhole, CopyPart,
              SendvAll, SendvNothing, Account, AccountDone
<1>4. CASE RecvWouldBlock \/ RecvClosed \/ RecvError
  BY <1>4 DEF RecvWouldBlock, RecvClosed, RecvError, ReceiveReturns
<1>5. CASE PeerFin \/ PeerReset \/ PeerDrain
  BY <1>5 DEF PeerFin, PeerReset, PeerDrain
<1>6. CASE UNCHANGED vars
  BY <1>6 DEF vars
<1> QED  BY <1>1, <1>2, <1>3, <1>4, <1>5, <1>6

\* A step of the socket is a step of the ordered stream, or leaves it alone.
LEMMA InboundStep ==
    ASSUME TInv, TInv', [Next]_vars
    PROVE  [InStream!Next]_(InStream!streamVars)
<1> USE DEF InStream!Next, InStream!streamVars
<1>1. ASSUME NEW n \in 1 .. ByteLimit, RecvChunk(n)
      PROVE  InStream!Deliver
  <2>1. /\ taken \in Nat /\ n \in Nat \ {0} /\ arrived \in Nat
        /\ taken' = taken + n /\ taken + n <= arrived /\ arrived' = arrived
    BY <1>1, ConstantsAreNat DEF RecvChunk, RecvTakes, LimitReached, Appended, TInv, TypeOK
  <2>2. Delivered' = Delivered \o [i \in 1 .. n |-> taken + i]
    BY <1>1, ChunkDelivers DEF Bytes
  <2>3. taken' - taken = n /\ taken' \in taken + 1 .. arrived
    BY <2>1
  <2> QED  BY <2>1, <2>2, <2>3 DEF InStream!Deliver
<1>2. ASSUME NEW n \in 1 .. ByteLimit, RecvPastLimit(n)
      PROVE  InStream!Lose
  <2>1. /\ taken \in Nat /\ n \in Nat \ {0} /\ arrived \in Nat
        /\ taken' = taken + n /\ taken + n <= arrived /\ arrived' = arrived
        /\ Delivered' = Delivered
    BY <1>2, ConstantsAreNat
       DEF RecvPastLimit, RecvTakes, LimitReached, TInv, TypeOK, Delivered, appVars
  <2> QED  BY <2>1 DEF InStream!Lose
<1>3. ASSUME NEW k \in 1 .. Len(receive_buffer), Consume(k)
      PROVE  UNCHANGED InStream!streamVars
  BY <1>3, ConsumeDelivers DEF Consume, kernVars
<1>4. ASSUME NEW n \in 1 .. MaxIn, Arrive(n)
      PROVE  InStream!Put
  BY <1>4, BoundsAssumption
     DEF Arrive, InStream!Put, TInv, TypeOK, Delivered, sockVars, appVars
<1>5. CASE UNCHANGED InboundVars
  BY <1>5 DEF InboundVars, Delivered
<1> QED
  BY <1>1, <1>2, <1>3, <1>4, <1>5, InboundUntouched
     DEF Next, Application, Receive, Environment

\* The application receives the peer's bytes in order and at most once, whatever
\* interleaves with the receive loop.
THEOREM InboundOrder == Spec => InboundIsOrderedStream
<1>1. Init => InStream!Init
  BY DEF Init, InStream!Init, Delivered
<1>2. TInv /\ TInv' /\ [Next]_vars => [InStream!Next]_(InStream!streamVars)
  BY InboundStep
<1> QED
  BY <1>1, <1>2, TInvariance, PTL DEF Spec, InboundIsOrderedStream, InStream!Spec

\* With a peer that never has more than ByteLimit bytes waiting, the bytes taken
\* during a tick are those of the receive buffer, so the limit is only reached
\* when nothing is left to read.
GInv ==
    /\ Delivered = Bytes(0, taken)
    /\ arrived <= Len(consumed) + Window
    /\ pc = "recv" => bytes_received <= Len(receive_buffer)

LEMMA GaplessStep ==
    ASSUME Window <= ByteLimit, TInv, TInv', GInv, [Next]_vars
    PROVE  GInv'
<1> USE DEF GInv
<1>0. /\ taken \in Nat /\ arrived \in Nat /\ bytes_received \in Nat
      /\ consumed \in Seq(Nat) /\ receive_buffer \in Seq(Nat)
      /\ taken = Len(consumed) + Len(receive_buffer)
  <2>1. /\ taken \in Nat /\ arrived \in Nat /\ bytes_received \in Nat
        /\ consumed \in Seq(Nat) /\ receive_buffer \in Seq(Nat)
    BY DEF TInv, TypeOK
  <2>2. Len(Delivered) = Len(consumed) + Len(receive_buffer)
    BY <2>1 DEF Delivered
  <2>3. Len(Bytes(0, taken)) = taken
    BY <2>1, BytesProperties
  <2> QED  BY <2>1, <2>2, <2>3
<1>1. ASSUME NEW n \in 1 .. ByteLimit, RecvChunk(n)
      PROVE  GInv'
  <2>1. n \in Nat /\ taken' = taken + n /\ taken' \in Nat
    BY <1>0, <1>1, ConstantsAreNat DEF RecvChunk, RecvTakes, LimitReached, Appended
  <2>2. Bytes(0, taken) \o Bytes(taken, n) = Bytes(0, taken + n)
    BY <1>0, <2>1 DEF Bytes
  <2>3. Delivered' = Bytes(0, taken')
    BY <1>1, <2>1, <2>2, ChunkDelivers
  <2>4. /\ bytes_received' = bytes_received + n
        /\ receive_buffer' = receive_buffer \o Bytes(taken, n)
        /\ pc = "recv" /\ arrived' = arrived /\ consumed' = consumed
    BY <1>1 DEF RecvChunk, RecvTakes, LimitReached, Appended, appVars
  <2>5. Bytes(taken, n) \in Seq(Nat) /\ Len(Bytes(taken, n)) = n
    BY <1>0, <2>1, BytesProperties
  <2>6. Len(receive_buffer') = Len(receive_buffer) + n
    <3>1. Len(receive_buffer \o Bytes(taken, n)) = Len(receive_buffer) + Len(Bytes(taken, n))
      BY <1>0, <2>5
    <3> QED  BY <2>4, <2>5, <3>1
  <2> QED  BY <1>0, <2>1, <2>3, <2>4, <2>6
<1>2. ASSUME NEW n \in 1 .. ByteLimit, RecvPastLimit(n)
      PROVE  FALSE
  BY <1>0, <1>2, ConstantsAreNat DEF RecvPastLimit, RecvTakes, LimitReached
<1>3. ASSUME NEW k \in 1 .. Len(receive_buffer), Consume(k)
      PROVE  GInv'
  <2>1. Delivered' = Delivered /\ taken' = taken /\ arrived' = arrived /\ pc' = "idle"
    BY <1>3, ConsumeDelivers DEF Consume, kernVars, tickVars
  <2>2. Len(consumed') = Len(consumed) + k
    BY <1>0, <1>3 DEF Consume
  <2> QED  BY <1>0, <2>1, <2>2, ConstantsAreNat DEF Bytes
<1>4. ASSUME NEW n \in 1 .. MaxIn, Arrive(n)
      PROVE  GInv'
  BY <1>4 DEF Arrive, Delivered, Bytes, sockVars, appVars, tickVars
<1>5. ASSUME UNCHANGED InboundVars,
             pc' = "recv" => \/ pc = "recv" /\ bytes_received' = bytes_received
                             \/ bytes_received' = 0
      PROVE  GInv'
  BY <1>0, <1>5 DEF InboundVars, Delivered, Bytes
<1> QED
  BY <1>1, <1>2, <1>3, <1>4, <1>5, InboundUntouched, CountKept
     DEF Next, Application, Receive, Environment

\* No byte is lost on the way in, if the peer never has more than ByteLimit bytes
\* waiting for the application.
THEOREM Gapless == Spec => []InboundGapless
<1>1. ASSUME Window <= ByteLimit PROVE Spec => []GInv
  <2>1. Init => GInv
    BY ConstantsAreNat DEF Init, GInv, Delivered, Bytes
  <2>2. TInv /\ TInv' /\ GInv /\ [Next]_vars => GInv'
    BY <1>1, GaplessStep
  <2> QED  BY <2>1, <2>2, TInvariance, PTL DEF Spec
<1>2. ASSUME Window <= ByteLimit PROVE Spec => []InboundGapless
  <2>1. GInv => InboundGapless
    BY DEF GInv, InboundGapless
  <2> QED  BY <1>1, <1>2, <2>1, PTL
<1>3. ASSUME ~(Window <= ByteLimit) PROVE Spec => []InboundGapless
  <2>1. InboundGapless
    BY <1>3 DEF InboundGapless
  <2> QED  BY <2>1, PTL
<1> QED  BY <1>2, <1>3

-----------------------------------------------------------------------------
(* The gaps of the inbound stream. *)

LastOf(s) == IF s = <<>> THEN 0 ELSE s[Len(s)]

\* The k elements of s up to the i-th are numbers that follow one another.
RunEnds(s, i, k) == i >= k /\ \A j \in 0 .. k - 1 : s[i - j] = s[i] - j

\* A gap is open when bytes were taken behind the last one delivered: it is one chunk, it
\* came after a run of ByteLimit bytes, and the tick that made it is over.
GapInv ==
    /\ LastOf(Delivered) <= taken
    /\ LastOf(Delivered) < taken =>
          /\ taken - LastOf(Delivered) <= ByteLimit
          /\ RunEnds(Delivered, Len(Delivered), ByteLimit)
          /\ pc = "recv" => bytes_received = 0
    /\ pc = "recv" /\ bytes_received > 0 =>
          /\ LastOf(Delivered) = taken
          /\ RunEnds(Delivered, Len(Delivered), bytes_received)
    /\ GapShape

\* A sequence with a chunk behind it.
LEMMA ChunkBehind ==
    ASSUME NEW s \in Seq(Nat), NEW from \in Nat, NEW n \in Nat \ {0}
    PROVE  /\ s \o Bytes(from, n) \in Seq(Nat)
           /\ Len(s \o Bytes(from, n)) = Len(s) + n
           /\ \A i \in 1 .. Len(s) : (s \o Bytes(from, n))[i] = s[i]
           /\ \A i \in Len(s) + 1 .. Len(s) + n :
                 (s \o Bytes(from, n))[i] = from + (i - Len(s))
           /\ LastOf(s \o Bytes(from, n)) = from + n
<1> DEFINE c == Bytes(from, n)
           t == s \o c
<1>1. c \in Seq(Nat) /\ Len(c) = n /\ \A i \in 1 .. n : c[i] = from + i
  BY BytesProperties
<1> HIDE DEF c
<1>2. t \in Seq(Nat) /\ Len(t) = Len(s) + n /\ Len(s) \in Nat
  <2>1. t \in Seq(Nat) /\ Len(t) = Len(s) + Len(c) /\ Len(s) \in Nat
    <3>1. c \in Seq(Nat)
      BY <1>1
    <3> QED  BY <3>1
  <2> QED  BY <1>1, <2>1
<1>3. ASSUME NEW i \in 1 .. Len(s)
      PROVE  t[i] = s[i]
  BY <1>1
<1>4. ASSUME NEW i \in Len(s) + 1 .. Len(s) + n
      PROVE  t[i] = from + (i - Len(s))
  <2>1. i - Len(s) \in 1 .. n /\ Len(s) \in Nat
    BY <1>2
  <2>2. t[i] = c[i - Len(s)]
    BY <1>1
  <2> QED  BY <1>1, <2>1, <2>2
<1>5. LastOf(t) = from + n
  <2> HIDE DEF t
  <2>1. Len(t) \in Len(s) + 1 .. Len(s) + n /\ Len(t) - Len(s) = n
    BY <1>2
  <2>2. t[Len(t)] = from + n
    BY <1>4, <2>1
  <2>3. t # <<>>
    BY <1>2, <2>1
  <2> QED  BY <2>2, <2>3 DEF LastOf
<1> QED  BY <1>2, <1>3, <1>4, <1>5 DEF c

LEMMA GapChunk ==
    ASSUME TInv, GapInv, NEW n \in 1 .. ByteLimit, RecvChunk(n)
    PROVE  GapInv'
<1> DEFINE s == Delivered
           t == Delivered'
           L == Len(s)
           b == bytes_received
<1>1. /\ n \in Nat \ {0} /\ ByteLimit \in Nat \ {0} /\ taken \in Nat /\ b \in Nat
      /\ s \in Seq(Nat) /\ L \in Nat
  BY ConstantsAreNat, DeliveredType DEF TInv, TypeOK
<1>2. pc = "recv" /\ taken' = taken + n /\ bytes_received' = b + n
  BY DEF RecvChunk, RecvTakes
<1>3. /\ t \in Seq(Nat) /\ Len(t) = L + n
      /\ \A i \in 1 .. L : t[i] = s[i]
      /\ \A i \in L + 1 .. L + n : t[i] = taken + (i - L)
      /\ LastOf(t) = taken + n
  <2>1. t = s \o Bytes(taken, n)
    BY ChunkDelivers
  <2>2. s \in Seq(Nat)
    BY <1>1
  <2> HIDE DEF t, s
  <2>3. n \in Nat \ {0} /\ taken \in Nat
    BY <1>1
  <2>4. /\ s \o Bytes(taken, n) \in Seq(Nat)
        /\ Len(s \o Bytes(taken, n)) = Len(s) + n
        /\ \A i \in 1 .. Len(s) : (s \o Bytes(taken, n))[i] = s[i]
        /\ \A i \in Len(s) + 1 .. Len(s) + n :
              (s \o Bytes(taken, n))[i] = taken + (i - Len(s))
        /\ LastOf(s \o Bytes(taken, n)) = taken + n
    BY <2>2, <2>3, ChunkBehind
  <2> QED  BY <2>1, <2>4
<1>4. /\ LastOf(s) <= taken
      /\ LastOf(s) < taken => /\ taken - LastOf(s) <= ByteLimit
                              /\ RunEnds(s, L, ByteLimit) /\ b = 0
      /\ b > 0 => LastOf(s) = taken /\ RunEnds(s, L, b)
      /\ \A i \in 1 .. L - 1 :
            s[i + 1] # s[i] + 1 =>
                /\ s[i + 1] - s[i] - 1 <= ByteLimit
                /\ i >= ByteLimit
                /\ s[i] - s[i - ByteLimit + 1] = ByteLimit - 1
  BY <1>2 DEF GapInv, GapShape
<1>5. \A i \in 1 .. L : s[i] \in Nat
  BY <1>1
<1>6. L > 0 => LastOf(s) = s[L]
  BY <1>1 DEF LastOf
<1> HIDE DEF s, t, L, b
<1>7. RunEnds(t, L + n, b + n)
  <2>1. L >= b
    BY <1>1, <1>4 DEF RunEnds
  <2>2. t[L + n] = taken + n
    BY <1>1, <1>3
  <2>3. ASSUME NEW j \in 0 .. b + n - 1
        PROVE  t[L + n - j] = taken + n - j
    <3>1. CASE j < n
      <4>1. L + n - j \in L + 1 .. L + n  BY <1>1, <3>1
      <4> QED  BY <1>1, <1>3, <4>1
    <3>2. CASE ~(j < n)
      <4>1. /\ b > 0 /\ j - n \in 0 .. b - 1 /\ L > 0
            /\ L + n - j \in 1 .. L /\ L + n - j = L - (j - n)
        BY <1>1, <2>1, <3>2
      <4>2. s[L - (j - n)] = s[L] - (j - n) /\ s[L] = taken
        BY <1>4, <1>6, <4>1 DEF RunEnds
      <4>3. t[L + n - j] = s[L - (j - n)]
        BY <1>3, <4>1
      <4> QED  BY <1>1, <4>2, <4>3
    <3> QED  BY <3>1, <3>2
  <2> QED  BY <1>1, <2>1, <2>2, <2>3 DEF RunEnds
<1>8. ASSUME NEW i \in 1 .. Len(t) - 1, t[i + 1] # t[i] + 1
      PROVE  /\ t[i + 1] - t[i] - 1 <= ByteLimit
             /\ i >= ByteLimit
             /\ t[i] - t[i - ByteLimit + 1] = ByteLimit - 1
  <2>1. CASE i < L
    <3>1. i \in 1 .. L - 1 /\ i \in 1 .. L /\ i + 1 \in 1 .. L
      BY <1>1, <2>1
    <3>2. t[i] = s[i] /\ t[i + 1] = s[i + 1]
      BY <1>3, <3>1
    <3>3. /\ s[i + 1] - s[i] - 1 <= ByteLimit /\ i >= ByteLimit
          /\ s[i] - s[i - ByteLimit + 1] = ByteLimit - 1
      BY <1>4, <1>8, <3>1, <3>2
    <3>4. i - ByteLimit + 1 \in 1 .. L
      BY <1>1, <3>1, <3>3
    <3> QED  BY <1>3, <3>2, <3>3, <3>4
  <2>2. CASE i = L
    <3>1. i \in 1 .. L /\ i + 1 \in L + 1 .. L + n /\ L > 0
      BY <1>1, <2>2
    <3>2. t[i] = s[L] /\ t[i + 1] = taken + 1 /\ s[L] \in Nat
      BY <1>1, <1>3, <1>5, <2>2, <3>1
    <3>3. LastOf(s) = s[L] /\ LastOf(s) < taken
      BY <1>1, <1>4, <1>6, <1>8, <3>1, <3>2
    <3>4. taken - s[L] <= ByteLimit /\ RunEnds(s, L, ByteLimit)
      BY <1>4, <3>3
    <3>5. /\ L >= ByteLimit /\ ByteLimit - 1 \in 0 .. ByteLimit - 1
          /\ L - (ByteLimit - 1) = L - ByteLimit + 1 /\ L - ByteLimit + 1 \in 1 .. L
      BY <1>1, <3>4 DEF RunEnds
    <3>6. s[L - ByteLimit + 1] = s[L] - (ByteLimit - 1)
      BY <3>4, <3>5 DEF RunEnds
    <3>7. t[i - ByteLimit + 1] = s[L] - (ByteLimit - 1)
      BY <1>3, <2>2, <3>5, <3>6
    <3>8. t[i + 1] - t[i] - 1 <= ByteLimit
      <4>1. \A x, y \in Nat : (y + 1) - x - 1 = y - x
        OBVIOUS
      <4>2. t[i + 1] - t[i] - 1 = (taken + 1) - s[L] - 1
        BY <3>2
      <4>3. (taken + 1) - s[L] - 1 = taken - s[L]
        BY <1>1, <3>2, <4>1
      <4> QED  BY <3>4, <4>2, <4>3
    <3>9. t[i] - t[i - ByteLimit + 1] = ByteLimit - 1
      BY <1>1, <3>2, <3>7
    <3> QED  BY <2>2, <3>5, <3>8, <3>9
  <2>3. CASE i > L
    <3>1. i \in L + 1 .. L + n /\ i + 1 \in L + 1 .. L + n
      BY <1>1, <1>3, <2>3
    <3>2. t[i] = taken + (i - L) /\ t[i + 1] = taken + ((i + 1) - L)
      BY <1>3, <3>1
    <3> QED  BY <1>1, <1>8, <3>1, <3>2
  <2> QED  BY <1>1, <2>1, <2>2, <2>3
<1>9. GapShape'
  BY <1>8 DEF GapShape, t
<1> QED  BY <1>1, <1>2, <1>3, <1>7, <1>9 DEF GapInv, t, b

LEMMA GapStep ==
    ASSUME TInv, TInv', GapInv, [Next]_vars
    PROVE  GapInv'
<1>0. /\ taken \in Nat /\ bytes_received \in Nat /\ ByteLimit \in Nat \ {0}
      /\ LastOf(Delivered) \in Nat
  <2>1. taken \in Nat /\ bytes_received \in Nat /\ ByteLimit \in Nat \ {0}
    BY ConstantsAreNat DEF TInv, TypeOK
  <2>2. \A s \in Seq(Nat) : LastOf(s) \in Nat
    BY DEF LastOf
  <2> QED  BY <2>1, <2>2, DeliveredType
<1>1. ASSUME NEW n \in 1 .. ByteLimit, RecvChunk(n)
      PROVE  GapInv'
  BY <1>1, GapChunk
<1>2. ASSUME NEW n \in 1 .. ByteLimit, RecvPastLimit(n)
      PROVE  GapInv'
  <2>1. /\ Delivered' = Delivered /\ taken' = taken + n /\ n \in Nat /\ pc = "recv"
        /\ bytes_received >= ByteLimit /\ pc' # "recv"
    BY <1>0, <1>2 DEF RecvPastLimit, RecvTakes, ReceiveReturns, LimitReached, Delivered, appVars
  <2>2. LastOf(Delivered) = taken /\ RunEnds(Delivered, Len(Delivered), bytes_received)
    BY <1>0, <2>1 DEF GapInv
  <2>3. RunEnds(Delivered, Len(Delivered), ByteLimit)
    <3>1. Len(Delivered) \in Nat
      BY DeliveredType
    <3> QED  BY <1>0, <2>1, <2>2, <3>1 DEF RunEnds
  <2>4. LastOf(Delivered) <= taken' /\ taken' - LastOf(Delivered) <= ByteLimit
    BY <1>0, <2>1, <2>2
  <2> QED  BY <2>1, <2>3, <2>4 DEF GapInv, GapShape
<1>3. ASSUME NEW k \in 1 .. Len(receive_buffer), Consume(k)
      PROVE  GapInv'
  <2>1. Delivered' = Delivered /\ taken' = taken /\ pc' # "recv"
    BY <1>3, ConsumeDelivers DEF Consume, kernVars, tickVars
  <2> QED  BY <2>1 DEF GapInv, GapShape
<1>4. ASSUME NEW n \in 1 .. MaxIn, Arrive(n)
      PROVE  GapInv'
  BY <1>4 DEF Arrive, GapInv, GapShape, Delivered, sockVars, appVars, tickVars
<1>5. ASSUME UNCHANGED InboundVars,
             pc' = "recv" => \/ pc = "recv" /\ bytes_received' = bytes_received
                             \/ bytes_received' = 0
      PROVE  GapInv'
  <2>1. Delivered' = Delivered /\ taken' = taken
    BY <1>5 DEF InboundVars, Delivered
  <2> QED  BY <1>0, <1>5, <2>1 DEF GapInv, GapShape
<1> QED
  BY <1>1, <1>2, <1>3, <1>4, <1>5, InboundUntouched, CountKept
     DEF Next, Application, Receive, Environment

\* Every gap of the inbound stream is one chunk and comes after ByteLimit bytes without
\* a gap: the receive loop loses at most one chunk of a tick.
THEOREM OneChunkLost == Spec => []GapShape
<1>1. Init => GapInv
  BY DEF Init, GapInv, GapShape, Delivered, LastOf
<1>2. TInv /\ TInv' /\ GapInv /\ [Next]_vars => GapInv'
  BY GapStep
<1>3. GapInv => GapShape
  BY DEF GapInv
<1> QED  BY <1>1, <1>2, <1>3, TInvariance, PTL DEF Spec

-----------------------------------------------------------------------------
(* The outbound stream. *)

\* The queue holds the bytes behind gone; what the running flush has sent of them
\* reaches from the offset to the end of the last buffer that was copied whole; and the
\* wire holds every byte that passed, as long as no queue was thrown away.
OutInv ==
    /\ remaining > 0 => pc \in {"sendv", "account"}
    /\ pc = "sendv" => out_buffers # <<>> /\ vec <= Len(out_buffers) + 1
    /\ Passed <= enqueued
    /\ \E cut \in Cuts(out_buffers, gone, enqueued) :
          pc = "sendv" => Passed = IF vec = 1 THEN gone + offset ELSE cut[vec]
    /\ ~sendFailed => wire = Bytes(0, Passed)

\* Bytes that follow one another, joined and cut.
LEMMA JoinBytes ==
    ASSUME NEW from \in Nat, NEW k \in Nat, NEW l \in Nat
    PROVE  Bytes(from, k) \o Bytes(from + k, l) = Bytes(from, k + l)
BY DEF Bytes

LEMMA CutBytes ==
    ASSUME NEW from \in Nat, NEW k \in Nat, NEW l \in 0 .. k
    PROVE  /\ SubSeq(Bytes(from, k), 1, l) = Bytes(from, l)
           /\ SubSeq(Bytes(from, k), l + 1, Len(Bytes(from, k))) = Bytes(from + l, k - l)
BY DEF Bytes

\* What a cut says of the queue.
LEMMA CutProperties ==
    ASSUME NEW bufs \in Seq(Seq(Nat)), NEW from \in Nat, NEW to \in Nat,
           NEW cut \in Cuts(bufs, from, to)
    PROVE  /\ Len(bufs) \in Nat
           /\ cut[1] = from /\ cut[Len(bufs) + 1] = to /\ from <= to
           /\ \A i \in 1 .. Len(bufs) + 1 : cut[i] \in Nat /\ from <= cut[i] /\ cut[i] <= to
           /\ \A i, j \in 1 .. Len(bufs) + 1 : i <= j => cut[i] <= cut[j]
           /\ \A i \in 1 .. Len(bufs) :
                 /\ cut[i] <= cut[i + 1]
                 /\ bufs[i] = Bytes(cut[i], cut[i + 1] - cut[i])
                 /\ Len(bufs[i]) = cut[i + 1] - cut[i]
<1>1. Len(bufs) \in Nat
  OBVIOUS
<1>2. /\ cut \in [1 .. Len(bufs) + 1 -> from .. to]
      /\ cut[1] = from /\ cut[Len(bufs) + 1] = to
      /\ \A i, j \in 1 .. Len(bufs) + 1 : i <= j => cut[i] <= cut[j]
      /\ \A i \in 1 .. Len(bufs) : bufs[i] = Bytes(cut[i], cut[i + 1] - cut[i])
  BY DEF Cuts
<1>3. \A i \in 1 .. Len(bufs) + 1 : cut[i] \in Nat /\ from <= cut[i] /\ cut[i] <= to
  BY <1>2
<1>4. ASSUME NEW i \in 1 .. Len(bufs)
      PROVE  cut[i] <= cut[i + 1] /\ Len(bufs[i]) = cut[i + 1] - cut[i]
  <2>1. i \in 1 .. Len(bufs) + 1 /\ i + 1 \in 1 .. Len(bufs) + 1 /\ i <= i + 1
    BY <1>1
  <2>2. cut[i] \in Nat /\ cut[i + 1] \in Nat /\ cut[i] <= cut[i + 1]
    BY <1>2, <1>3, <2>1
  <2>3. \A a, b \in Nat : a <= b => Len(Bytes(a, b - a)) = b - a
    BY DEF Bytes
  <2> QED  BY <1>2, <2>2, <2>3
<1>5. 1 \in 1 .. Len(bufs) + 1
  BY <1>1
<1> QED  BY <1>1, <1>2, <1>3, <1>4, <1>5

\* The empty queue has a cut exactly at the end of the stream.
LEMMA CutEmpty ==
    ASSUME NEW from \in Nat
    PROVE  /\ [i \in 1 .. 1 |-> from] \in Cuts(<<>>, from, from)
           /\ \A to \in Nat : Cuts(<<>>, from, to) # {} => from = to
BY DEF Cuts

\* enqueue() extends the queue at its end.
LEMMA CutAppend ==
    ASSUME NEW bufs \in Seq(Seq(Nat)), NEW from \in Nat, NEW to \in Nat, NEW n \in Nat,
           NEW cut \in Cuts(bufs, from, to)
    PROVE  Cuts(Append(bufs, Bytes(to, n)), from, to + n) # {}
<1> DEFINE m == Len(bufs)
           more == Append(bufs, Bytes(to, n))
           ext == [i \in 1 .. m + 2 |-> IF i = m + 2 THEN to + n ELSE cut[i]]
<1>1. /\ m \in Nat /\ cut[1] = from /\ cut[m + 1] = to /\ from <= to
      /\ \A i \in 1 .. m + 1 : cut[i] \in Nat /\ from <= cut[i] /\ cut[i] <= to
      /\ \A i, j \in 1 .. m + 1 : i <= j => cut[i] <= cut[j]
      /\ \A i \in 1 .. m : bufs[i] = Bytes(cut[i], cut[i + 1] - cut[i])
  BY CutProperties, SMTT(30)
<1>2. Bytes(to, n) \in Seq(Nat)
  BY BytesProperties
<1>3. /\ Len(more) = m + 1
      /\ \A i \in 1 .. m : more[i] = bufs[i]
      /\ more[m + 1] = Bytes(to, n)
  BY <1>2
<1> HIDE DEF m, more
<1>4. ext \in [1 .. Len(more) + 1 -> from .. to + n]
  <2>1. ASSUME NEW i \in 1 .. m + 2 PROVE ext[i] \in from .. to + n
    <3>1. CASE i = m + 2  BY <1>1, <3>1
    <3>2. CASE i # m + 2
      <4>1. i \in 1 .. m + 1  BY <1>1, <3>2
      <4> QED  BY <1>1, <3>2, <4>1
    <3> QED  BY <3>1, <3>2
  <2>2. Len(more) + 1 = m + 2  BY <1>1, <1>3
  <2> QED  BY <2>1, <2>2
<1>5. ext[1] = from /\ ext[Len(more) + 1] = to + n
  BY <1>1, <1>3
<1>6. ASSUME NEW i \in 1 .. Len(more) + 1, NEW j \in 1 .. Len(more) + 1, i <= j
      PROVE  ext[i] <= ext[j]
  <2>1. Len(more) + 1 = m + 2  BY <1>1, <1>3
  <2>2. CASE j = m + 2
    <3>1. CASE i = m + 2  BY <1>1, <2>1, <2>2, <3>1
    <3>2. CASE i # m + 2
      <4>1. i \in 1 .. m + 1  BY <1>1, <2>1, <3>2
      <4> QED  BY <1>1, <2>1, <2>2, <3>2, <4>1
    <3> QED  BY <3>1, <3>2
  <2>3. CASE j # m + 2
    <3>1. i \in 1 .. m + 1 /\ j \in 1 .. m + 1 /\ i # m + 2
      BY <1>1, <1>6, <2>1, <2>3
    <3> QED  BY <1>1, <1>6, <2>1, <2>3, <3>1
  <2> QED  BY <2>2, <2>3
<1>7. ASSUME NEW i \in 1 .. Len(more)
      PROVE  more[i] = Bytes(ext[i], ext[i + 1] - ext[i])
  <2>1. CASE i = m + 1
    <3>1. ext[i] = to /\ ext[i + 1] = to + n  BY <1>1, <2>1
    <3>2. to + n - to = n  OBVIOUS
    <3> QED  BY <1>3, <2>1, <3>1, <3>2
  <2>2. CASE i # m + 1
    <3>1. i \in 1 .. m /\ i \in 1 .. m + 2 /\ i + 1 \in 1 .. m + 2
      BY <1>1, <1>3, <2>2
    <3>2. ext[i] = cut[i] /\ ext[i + 1] = cut[i + 1]
      BY <1>1, <2>2, <3>1
    <3> QED  BY <1>1, <1>3, <3>1, <3>2
  <2> QED  BY <2>1, <2>2
<1>8. ext \in Cuts(more, from, to + n)
  BY <1>4, <1>5, <1>6, <1>7 DEF Cuts
<1> QED  BY <1>8 DEF more

\* A buffer that is popped leaves a cut of the others.
LEMMA CutTail ==
    ASSUME NEW bufs \in Seq(Seq(Nat)), bufs # <<>>, NEW from \in Nat, NEW to \in Nat,
           NEW cut \in Cuts(bufs, from, to)
    PROVE  /\ from + Len(Head(bufs)) \in Nat /\ from + Len(Head(bufs)) <= to
           /\ Cuts(Tail(bufs), from + Len(Head(bufs)), to) # {}
<1> DEFINE m == Len(bufs)
           rest == Tail(bufs)
           next == from + Len(Head(bufs))
           shift == [i \in 1 .. m |-> cut[i + 1]]
<1>1. /\ m \in Nat /\ cut[1] = from /\ cut[m + 1] = to /\ from <= to
      /\ \A i \in 1 .. m + 1 : cut[i] \in Nat /\ from <= cut[i] /\ cut[i] <= to
      /\ \A i, j \in 1 .. m + 1 : i <= j => cut[i] <= cut[j]
      /\ \A i \in 1 .. m : /\ bufs[i] = Bytes(cut[i], cut[i + 1] - cut[i])
                           /\ Len(bufs[i]) = cut[i + 1] - cut[i]
  BY CutProperties, SMTT(30)
<1>2. m >= 1 /\ Head(bufs) = bufs[1]
  BY <1>1
<1>3. Len(rest) = m - 1 /\ \A i \in 1 .. m - 1 : rest[i] = bufs[i + 1]
  BY <1>1, <1>2
<1>4. next = cut[2] /\ next \in Nat /\ next <= to
  <2>1. 1 \in 1 .. m /\ 2 \in 1 .. m + 1  BY <1>1, <1>2
  <2>2. Len(bufs[1]) = cut[1 + 1] - cut[1] /\ cut[1] = from /\ from \in Nat
    BY <1>1, <2>1
  <2>3. cut[2] \in Nat /\ cut[2] <= to  BY <1>1, <2>1
  <2>4. next = from + (cut[2] - from)  BY <1>2, <2>2
  <2> QED  BY <2>3, <2>4
<1> HIDE DEF m, rest, next
<1>5. shift \in [1 .. Len(rest) + 1 -> next .. to]
  <2>1. ASSUME NEW i \in 1 .. m PROVE shift[i] \in next .. to
    <3>1. i + 1 \in 1 .. m + 1 /\ 2 \in 1 .. m + 1 /\ 2 <= i + 1
      BY <1>1, <1>2
    <3> QED  BY <1>1, <1>4, <3>1
  <2>2. Len(rest) + 1 = m  BY <1>1, <1>3
  <2> QED  BY <2>1, <2>2
<1>6. shift[1] = next /\ shift[Len(rest) + 1] = to
  BY <1>1, <1>2, <1>3, <1>4
<1>7. ASSUME NEW i \in 1 .. Len(rest) + 1, NEW j \in 1 .. Len(rest) + 1, i <= j
      PROVE  shift[i] <= shift[j]
  <2>1. i \in 1 .. m /\ j \in 1 .. m /\ i + 1 \in 1 .. m + 1 /\ j + 1 \in 1 .. m + 1
    BY <1>1, <1>3
  <2>2. i + 1 <= j + 1  BY <1>7, <2>1
  <2> QED  BY <1>1, <2>1, <2>2
<1>8. ASSUME NEW i \in 1 .. Len(rest)
      PROVE  rest[i] = Bytes(shift[i], shift[i + 1] - shift[i])
  <2>1. i \in 1 .. m - 1 /\ i \in 1 .. m /\ i + 1 \in 1 .. m
    BY <1>1, <1>3
  <2>2. shift[i] = cut[i + 1] /\ shift[i + 1] = cut[i + 1 + 1]
    BY <2>1
  <2> QED  BY <1>1, <1>3, <2>1, <2>2
<1>9. shift \in Cuts(rest, next, to)
  BY <1>5, <1>6, <1>7, <1>8 DEF Cuts
<1> QED  BY <1>4, <1>9 DEF rest, next

\* What a step does to the outbound stream: it puts bytes in, copies the next ones to the
\* kernel, or throws bytes away and says so.
Puts   == enqueued' >= enqueued /\ UNCHANGED <<Passed, wire>>
Copies == \E k \in Nat : /\ Passed' = Passed + k /\ wire' = wire \o Bytes(Passed, k)
                         /\ UNCHANGED enqueued
Throws == /\ Passed' \in Passed .. enqueued /\ result' = "error"
          /\ UNCHANGED <<wire, enqueued>>
OutEffect == Puts \/ Copies \/ Throws

OutVars == <<out_buffers, offset, remaining, wire, enqueued, gone, sendFailed>>

LEMMA PassedType == TInv => Passed \in Nat
BY DEF TInv, TypeOK, Passed

\* Steps that leave the queue, the count and the wire alone.
LEMMA OutUntouched ==
    ASSUME TInv, OutInv, UNCHANGED OutVars,
           pc' = "sendv" => pc = "sendv" /\ vec' = vec,
           remaining > 0 => pc' \in {"sendv", "account"}
    PROVE  OutInv' /\ OutEffect
<1>1. Passed' = Passed /\ enqueued' = enqueued /\ enqueued \in Nat
  BY DEF OutVars, Passed, TInv, TypeOK
<1>2. Cuts(out_buffers, gone, enqueued)' = Cuts(out_buffers, gone, enqueued)
  BY DEF OutVars, Cuts, Bytes
<1>3. OutInv'
  BY <1>1, <1>2 DEF OutInv, OutVars, Bytes
<1> QED  BY <1>1, <1>3 DEF OutEffect, Puts, OutVars

\* enqueue() adds a buffer behind the others.
LEMMA OutEnqueue ==
    ASSUME TInv, OutInv, NEW n \in BufSizes, Enqueue(n)
    PROVE  OutInv' /\ OutEffect
<1>1. n \in Nat /\ enqueued \in Nat /\ gone \in Nat /\ out_buffers \in Seq(Seq(Nat))
  BY SizesAssumption DEF TInv, TypeOK
<1>2. /\ pc = "idle" /\ pc' = "idle" /\ enqueued' = enqueued + n /\ gone' = gone
      /\ out_buffers' = Append(out_buffers, Bytes(enqueued, n))
      /\ offset' = offset /\ remaining' = remaining /\ wire' = wire
      /\ sendFailed' = sendFailed
  BY DEF Enqueue, tickVars, kernVars
<1>3. PICK cut \in Cuts(out_buffers, gone, enqueued) : TRUE
  BY DEF OutInv
<1>4. Cuts(Append(out_buffers, Bytes(enqueued, n)), gone, enqueued + n) # {}
  BY <1>1, <1>3, CutAppend
<1>5. Cuts(out_buffers', gone', enqueued') # {}
  BY <1>2, <1>4
<1>6. Passed' = Passed /\ Passed \in Nat
  BY <1>2, PassedType DEF Passed
<1>7. OutInv'
  <2>1. Passed' <= enqueued' /\ (~sendFailed' => wire' = Bytes(0, Passed'))
    BY <1>1, <1>2, <1>6 DEF OutInv
  <2>2. ~(remaining' > 0) /\ pc' # "sendv"
    BY <1>2 DEF OutInv
  <2> QED  BY <1>5, <2>1, <2>2 DEF OutInv
<1> QED  BY <1>1, <1>2, <1>6, <1>7 DEF OutEffect, Puts

\* sendv() starts at the first byte that is still to be sent.
LEMMA OutFlushSend ==
    ASSUME TInv, OutInv, FlushSend
    PROVE  OutInv' /\ OutEffect
<1>1. /\ pc = "flush" /\ pc' = "sendv" /\ out_buffers # <<>> /\ vec' = 1 /\ remaining' = 0
      /\ UNCHANGED <<out_buffers, offset, wire, enqueued, gone, sendFailed>>
  BY DEF FlushSend, sockVars, kernVars, appVars
<1>2. /\ remaining = 0 /\ offset \in Nat /\ gone \in Nat /\ enqueued \in Nat
      /\ Len(out_buffers) \in Nat
  BY <1>1 DEF OutInv, TInv, TypeOK
<1>3. Passed' = Passed /\ Passed = gone + offset
  BY <1>1, <1>2 DEF Passed
<1>4. Cuts(out_buffers, gone, enqueued)' = Cuts(out_buffers, gone, enqueued)
  BY <1>1 DEF Cuts, Bytes
<1>5. OutInv'
  BY <1>1, <1>2, <1>3, <1>4 DEF OutInv, Bytes
<1> QED  BY <1>1, <1>2, <1>3, <1>5 DEF OutEffect, Puts

\* What the iovec under way covers: the bytes that follow those that passed.
LEMMA IovecBytes ==
    ASSUME TInv, OutInv, pc = "sendv", vec <= Len(out_buffers),
           NEW cut \in Cuts(out_buffers, gone, enqueued),
           Passed = IF vec = 1 THEN gone + offset ELSE cut[vec]
    PROVE  /\ Passed <= cut[vec + 1] /\ cut[vec + 1] \in Nat /\ cut[vec + 1] <= enqueued
           /\ Iovec(vec) = Bytes(Passed, cut[vec + 1] - Passed)
<1>1. /\ vec \in Nat \ {0} /\ out_buffers \in Seq(Seq(Nat)) /\ Len(out_buffers) \in Nat
      /\ gone \in Nat /\ enqueued \in Nat /\ offset \in Nat
  BY DEF TInv, TypeOK
<1>2. vec \in 1 .. Len(out_buffers) /\ vec + 1 \in 1 .. Len(out_buffers) + 1
  BY <1>1
<1>3. /\ cut[1] = gone /\ cut[vec] \in Nat
      /\ cut[vec + 1] \in Nat /\ cut[vec + 1] <= enqueued /\ cut[vec] <= cut[vec + 1]
      /\ out_buffers[vec] = Bytes(cut[vec], cut[vec + 1] - cut[vec])
      /\ Len(out_buffers[vec]) = cut[vec + 1] - cut[vec]
  <2>1. /\ cut[1] = gone
        /\ \A i \in 1 .. Len(out_buffers) + 1 : cut[i] \in Nat /\ cut[i] <= enqueued
        /\ \A i \in 1 .. Len(out_buffers) :
              /\ cut[i] <= cut[i + 1]
              /\ out_buffers[i] = Bytes(cut[i], cut[i + 1] - cut[i])
              /\ Len(out_buffers[i]) = cut[i + 1] - cut[i]
    BY <1>1, CutProperties
  <2>2. vec \in 1 .. Len(out_buffers) + 1
    BY <1>1, <1>2
  <2> QED  BY ONLY <1>2, <2>1, <2>2
<1>4. CASE vec = 1
  <2>1. offset <= cut[vec + 1] - cut[vec]
    BY <1>1, <1>2, <1>3, <1>4 DEF TInv, OffsetInside
  <2> DEFINE k == cut[vec + 1] - cut[vec]
  <2>2. k \in Nat /\ offset \in 0 .. k /\ Len(Bytes(cut[vec], k)) = k
    <3>1. k \in Nat /\ offset \in 0 .. k
      BY <1>1, <1>3, <2>1
    <3> HIDE DEF k
    <3> QED  BY <1>3, <3>1, BytesProperties
  <2>3. SubSeq(Bytes(cut[vec], k), offset + 1, k) = Bytes(cut[vec] + offset, k - offset)
    <3> HIDE DEF k
    <3>1. SubSeq(Bytes(cut[vec], k), offset + 1, Len(Bytes(cut[vec], k)))
            = Bytes(cut[vec] + offset, k - offset)
      BY <1>3, <2>2, CutBytes
    <3> QED  BY <2>2, <3>1
  <2>4. Iovec(vec) = Bytes(cut[vec] + offset, k - offset)
    BY <1>3, <1>4, <2>3 DEF Iovec
  <2>5. PICK from \in Nat, to \in Nat : from = cut[vec] /\ to = cut[vec + 1] /\ k = to - from
    BY <1>3
  <2>6. offset <= to - from /\ Passed = from + offset /\ offset \in Nat
    BY <1>1, <1>3, <1>4, <2>1, <2>5
  <2>7. Passed <= to /\ (to - from) - offset = to - Passed
    BY ONLY <2>5, <2>6
  <2> HIDE DEF k
  <2>8. Iovec(vec) = Bytes(Passed, to - Passed)
    BY ONLY <2>4, <2>5, <2>6, <2>7
  <2> QED  BY ONLY <1>3, <2>5, <2>7, <2>8
<1>5. CASE vec # 1
  BY <1>3, <1>5 DEF Iovec
<1> QED  BY <1>4, <1>5

LEMMA OutCopyWhole ==
    ASSUME TInv, OutInv, CopyWhole
    PROVE  OutInv' /\ OutEffect
<1>1. /\ pc = "sendv" /\ vec <= Len(out_buffers)
      /\ wire' = wire \o Iovec(vec)
      /\ remaining' = remaining + Len(Iovec(vec)) /\ vec' = vec + 1
      /\ UNCHANGED <<pc, out_buffers, offset, enqueued, gone, sendFailed>>
  BY DEF CopyWhole, sockVars, appVars
<1>2. PICK cut \in Cuts(out_buffers, gone, enqueued) :
          Passed = IF vec = 1 THEN gone + offset ELSE cut[vec]
  BY <1>1 DEF OutInv
<1> DEFINE k == cut[vec + 1] - Passed
<1>3. /\ Passed <= cut[vec + 1] /\ cut[vec + 1] \in Nat /\ cut[vec + 1] <= enqueued
      /\ Iovec(vec) = Bytes(Passed, k)
  BY <1>1, <1>2, IovecBytes
<1>4. Passed \in Nat /\ k \in Nat /\ enqueued \in Nat /\ Passed + k = cut[vec + 1]
  BY <1>3, PassedType DEF TInv, TypeOK
<1>5. Len(Iovec(vec)) = k
  BY <1>3, <1>4 DEF Bytes
<1>6. Passed' = Passed + k
  <2>1. /\ gone \in Nat /\ offset \in Nat /\ remaining \in Nat
        /\ gone' = gone /\ offset' = offset /\ remaining' = remaining + k
    BY <1>1, <1>5 DEF TInv, TypeOK
  <2> HIDE DEF k
  <2> QED  BY ONLY <1>4, <2>1 DEF Passed
<1>7. vec \in Nat \ {0} /\ Len(out_buffers) \in Nat
  BY DEF TInv, TypeOK
<1>8. Cuts(out_buffers, gone, enqueued)' = Cuts(out_buffers, gone, enqueued)
  BY <1>1 DEF Cuts, Bytes
<1>9. ~sendFailed' => wire' = Bytes(0, Passed')
  <2> SUFFICES ASSUME ~sendFailed PROVE wire' = Bytes(0, Passed')
    BY <1>1
  <2>1. wire = Bytes(0, Passed)
    BY DEF OutInv
  <2>2. Bytes(0, Passed) \o Bytes(0 + Passed, k) = Bytes(0, Passed + k)
    <3> HIDE DEF k
    <3> QED  BY <1>4, JoinBytes
  <2>3. wire' = wire \o Bytes(Passed, k) /\ 0 + Passed = Passed
    BY <1>1, <1>3, <1>4
  <2> QED  BY ONLY <1>6, <2>1, <2>2, <2>3
<1>10. OutInv'
  <2>1. Passed' <= enqueued' /\ pc' = "sendv" /\ out_buffers' # <<>>
    BY <1>1, <1>3, <1>4, <1>6 DEF OutInv
  <2>2. vec' <= Len(out_buffers') + 1 /\ vec' # 1
    BY <1>1, <1>7
  <2>3. Passed' = cut[vec']
    BY <1>1, <1>4, <1>6
  <2> QED  BY <1>2, <1>8, <1>9, <2>1, <2>2, <2>3 DEF OutInv
<1> QED  BY <1>1, <1>3, <1>4, <1>6, <1>10 DEF OutEffect, Copies

LEMMA OutCopyPart ==
    ASSUME TInv, OutInv, CopyPart
    PROVE  OutInv' /\ OutEffect
<1>1. /\ pc = "sendv" /\ vec <= Len(out_buffers) /\ Len(Iovec(vec)) > Space
      /\ wire' = wire \o SubSeq(Iovec(vec), 1, Space)
      /\ remaining' = remaining + Space
      /\ pc' = IF remaining' > 0 THEN "account" ELSE "idle"
      /\ UNCHANGED <<out_buffers, offset, enqueued, gone, sendFailed>>
  BY DEF CopyPart, sockVars, appVars
<1>2. PICK cut \in Cuts(out_buffers, gone, enqueued) :
          Passed = IF vec = 1 THEN gone + offset ELSE cut[vec]
  BY <1>1 DEF OutInv
<1> DEFINE k == cut[vec + 1] - Passed
<1>3. /\ Passed <= cut[vec + 1] /\ cut[vec + 1] \in Nat /\ cut[vec + 1] <= enqueued
      /\ Iovec(vec) = Bytes(Passed, k)
  BY <1>1, <1>2, IovecBytes
<1>4. /\ Passed \in Nat /\ k \in Nat /\ enqueued \in Nat /\ Passed + k = cut[vec + 1]
      /\ Space \in Nat
  <2>1. Passed \in Nat /\ enqueued \in Nat  BY PassedType DEF TInv, TypeOK
  <2>2. Space \in Nat
    <3>1. peerRead \in Nat /\ Len(wire) \in Nat  BY DEF TInv, TypeOK
    <3> QED  BY <3>1, ConstantsAreNat DEF TInv, KernelInv, Space
  <2> QED  BY <1>3, <2>1, <2>2
<1>5. Len(Iovec(vec)) = k
  BY <1>3, <1>4 DEF Bytes
<1>6. Space \in 0 .. k /\ Passed + Space <= enqueued
  BY <1>1, <1>3, <1>4, <1>5
<1>7. Passed' = Passed + Space
  BY <1>1, <1>4 DEF Passed, TInv, TypeOK
<1>8. SubSeq(Iovec(vec), 1, Space) = Bytes(Passed, Space)
  <2>1. SubSeq(Bytes(Passed, k), 1, Space) = Bytes(Passed, Space)
    <3> HIDE DEF k
    <3> QED  BY <1>4, <1>6, CutBytes
  <2> QED  BY <1>3, <2>1
<1>9. Cuts(out_buffers, gone, enqueued)' = Cuts(out_buffers, gone, enqueued)
  BY <1>1 DEF Cuts, Bytes
<1>10. ~sendFailed' => wire' = Bytes(0, Passed')
  <2> SUFFICES ASSUME ~sendFailed PROVE wire' = Bytes(0, Passed')
    BY <1>1
  <2>1. wire = Bytes(0, Passed)
    BY DEF OutInv
  <2>2. Bytes(0, Passed) \o Bytes(0 + Passed, Space) = Bytes(0, Passed + Space)
    <3>1. 0 \in Nat /\ Passed \in Nat /\ Space \in Nat
      BY <1>4, <1>6
    <3> QED  BY ONLY <3>1, JoinBytes
  <2>3. wire' = wire \o SubSeq(Iovec(vec), 1, Space)
    BY <1>1
  <2>4. 0 + Passed = Passed
    BY <1>4
  <2> QED  BY <1>7, <1>8, <2>1, <2>2, <2>3, <2>4
<1>11. OutInv'
  BY <1>1, <1>2, <1>6, <1>7, <1>9, <1>10 DEF OutInv
<1> QED  BY <1>1, <1>4, <1>7, <1>8, <1>11 DEF OutEffect, Copies

\* A queue that is thrown away is empty afterwards, and everything enqueued has passed.
LEMMA OutFlushError ==
    ASSUME TInv, OutInv, FlushError
    PROVE  OutInv' /\ OutEffect
<1>1. /\ pc = "flush" /\ pc' = "idle" /\ out_buffers' = <<>> /\ offset' = 0
      /\ gone' = enqueued /\ result' = "error" /\ sendFailed' = TRUE
      /\ UNCHANGED <<remaining, wire, enqueued>>
  BY DEF FlushError, kernVars
<1>2. /\ remaining = 0 /\ enqueued \in Nat
      /\ Passed \in Nat /\ Passed <= enqueued
  BY <1>1, PassedType DEF OutInv, TInv, TypeOK
<1>3. Passed' = enqueued
  BY <1>1, <1>2 DEF Passed
<1>4. Cuts(out_buffers', gone', enqueued') # {}
  BY <1>1, <1>2, CutEmpty
<1>5. OutInv'
  BY <1>1, <1>2, <1>3, <1>4 DEF OutInv
<1> QED  BY <1>1, <1>2, <1>3, <1>5 DEF OutEffect, Throws

\* A queue of empty buffers is thrown away, but there was nothing in it to send.
LEMMA OutSendvNothing ==
    ASSUME TInv, OutInv, SendvNothing
    PROVE  OutInv' /\ OutEffect
<1>1. /\ pc = "sendv" /\ pc' = "idle" /\ vec > Len(out_buffers) /\ remaining = 0
      /\ out_buffers' = <<>> /\ offset' = 0 /\ gone' = enqueued
      /\ UNCHANGED <<remaining, wire, enqueued, sendFailed>>
  BY DEF SendvNothing, kernVars
<1>2. PICK cut \in Cuts(out_buffers, gone, enqueued) :
          Passed = IF vec = 1 THEN gone + offset ELSE cut[vec]
  BY <1>1 DEF OutInv
<1>3. /\ out_buffers \in Seq(Seq(Nat)) /\ Len(out_buffers) \in Nat /\ vec \in Nat \ {0}
      /\ gone \in Nat /\ enqueued \in Nat /\ Passed \in Nat
  BY PassedType DEF TInv, TypeOK
<1>4. vec = Len(out_buffers) + 1 /\ vec # 1
  BY <1>1, <1>3 DEF OutInv
<1>5. cut[Len(out_buffers) + 1] = enqueued
  BY <1>3, CutProperties
<1>6. Passed = enqueued /\ Passed' = enqueued
  BY <1>1, <1>2, <1>3, <1>4, <1>5 DEF Passed
<1>7. Cuts(out_buffers', gone', enqueued') # {}
  BY <1>1, <1>3, CutEmpty
<1>8. OutInv'
  BY <1>1, <1>3, <1>6, <1>7 DEF OutInv, Bytes
<1> QED  BY <1>1, <1>3, <1>6, <1>8 DEF OutEffect, Puts

\* A round of the accounting moves bytes from the count to the offset, or to gone.
LEMMA OutAccount ==
    ASSUME TInv, OutInv, Account
    PROVE  OutInv' /\ OutEffect
<1> DEFINE size == Len(Head(out_buffers))
           took == Took(size)
<1>1. /\ pc = "account" /\ pc' = "account" /\ remaining > 0 /\ out_buffers # <<>>
      /\ remaining' = remaining - took
      /\ UNCHANGED <<wire, enqueued, sendFailed>>
      /\ IF offset + took >= size
         THEN out_buffers' = Tail(out_buffers) /\ offset' = 0 /\ gone' = gone + size
         ELSE offset' = offset + took /\ UNCHANGED <<out_buffers, gone>>
  BY DEF Account, FullySent, kernVars
<1>2. /\ out_buffers \in Seq(Seq(Nat)) /\ size \in Nat /\ Head(out_buffers) = out_buffers[1]
      /\ gone \in Nat /\ enqueued \in Nat /\ offset \in Nat /\ remaining \in Nat
  BY <1>1 DEF TInv, TypeOK
<1>3. offset <= size
  BY <1>1, <1>2 DEF TInv, OffsetInside
<1>4. took \in Nat /\ took <= remaining /\ offset + took <= size
  BY <1>2, <1>3 DEF Took, Lesser
<1> HIDE DEF took, size
<1>5. Passed' = Passed
  <2>1. CASE offset + took >= size
    <3>1. gone' = gone + size /\ offset' = 0 /\ size = offset + took
      BY <1>1, <1>2, <1>4, <2>1
    <3> QED  BY <1>1, <1>2, <1>4, <3>1 DEF Passed
  <2>2. CASE ~(offset + took >= size)
    <3>1. gone' = gone /\ offset' = offset + took
      BY <1>1, <2>2
    <3> QED  BY <1>1, <1>2, <1>4, <3>1 DEF Passed
  <2> QED  BY <2>1, <2>2
<1>6. PICK cut \in Cuts(out_buffers, gone, enqueued) : TRUE
  BY DEF OutInv
<1>7. Cuts(out_buffers', gone', enqueued') # {}
  <2>1. CASE offset + took >= size
    <3>1. Cuts(Tail(out_buffers), gone + size, enqueued) # {}
      BY <1>1, <1>2, <1>6, CutTail DEF size
    <3> QED  BY <1>1, <2>1, <3>1
  <2>2. CASE ~(offset + took >= size)
    BY <1>1, <1>6, <2>2
  <2> QED  BY <2>1, <2>2
<1>8. remaining' \in Nat /\ Passed \in Nat
  BY <1>1, <1>2, <1>4, PassedType
<1>9. OutInv'
  BY <1>1, <1>5, <1>7, <1>8 DEF OutInv, Bytes
<1> QED  BY <1>1, <1>2, <1>5, <1>9 DEF OutEffect, Puts

\* The accounting ends with nothing left of the count: an empty queue has passed whole.
LEMMA OutAccountDone ==
    ASSUME TInv, OutInv, AccountDone
    PROVE  OutInv' /\ OutEffect
<1>1. /\ pc = "account" /\ pc' = "idle" /\ remaining' = 0
      /\ remaining = 0 \/ out_buffers = <<>>
      /\ UNCHANGED <<out_buffers, offset, wire, enqueued, gone, sendFailed>>
  BY DEF AccountDone, sockVars, kernVars, appVars
<1>2. gone \in Nat /\ enqueued \in Nat /\ offset \in Nat /\ remaining \in Nat
  BY DEF TInv, TypeOK
<1>3. remaining = 0
  <2>1. CASE out_buffers = <<>>
    <3>1. gone = enqueued
      BY <1>2, <2>1, CutEmpty DEF OutInv
    <3> QED  BY <1>2, <3>1 DEF OutInv, Passed
  <2> QED  BY <1>1, <2>1
<1>4. UNCHANGED OutVars /\ pc' # "sendv"
  BY <1>1, <1>3 DEF OutVars
<1> QED  BY <1>3, <1>4, OutUntouched

\* The steps that leave the outbound stream alone.
LEMMA OutOtherSteps ==
    ASSUME TInv, OutInv,
           \/ \E k \in 1 .. Len(receive_buffer) : Consume(k)
           \/ Call \/ Receive \/ FlushEmpty \/ SendvAll \/ Environment \/ UNCHANGED vars
    PROVE  OutInv' /\ OutEffect
<1> USE DEF OutVars, sockVars, tickVars, kernVars, appVars
<1>0. remaining > 0 => pc \in {"sendv", "account"}
  BY DEF OutInv
<1>1. CASE \/ \E k \in 1 .. Len(receive_buffer) : Consume(k)
           \/ Environment \/ UNCHANGED vars
  <2>1. UNCHANGED <<OutVars, pc, vec>>
    BY <1>1 DEF Consume, Environment, Arrive, PeerFin, PeerReset, PeerDrain, vars
  <2>2. UNCHANGED OutVars /\ (pc' = "sendv" => pc = "sendv" /\ vec' = vec)
        /\ (remaining > 0 => pc' \in {"sendv", "account"})
    BY <1>0, <2>1
  <2> QED  BY <2>2, OutUntouched
<1>2. CASE Call
  <2>1. /\ UNCHANGED OutVars /\ pc' # "sendv"
        /\ pc = "idle"
    BY <1>2 DEF Call, Tick, FirstStage
  <2>2. ~(remaining > 0)
    BY <1>0, <2>1
  <2> QED  BY <2>1, <2>2, OutUntouched
<1>3. CASE Receive
  <2>1. UNCHANGED OutVars /\ pc' # "sendv" /\ pc = "recv"
    BY <1>3 DEF Receive, RecvChunk, RecvPastLimit, RecvTakes, ReceiveReturns,
                RecvWouldBlock, RecvClosed, RecvError
  <2>2. ~(remaining > 0)
    BY <1>0, <2>1
  <2> QED  BY <2>1, <2>2, OutUntouched
<1>4. CASE FlushEmpty
  <2>1. UNCHANGED OutVars /\ pc' # "sendv" /\ pc = "flush"
    BY <1>4 DEF FlushEmpty
  <2>2. ~(remaining > 0)
    BY <1>0, <2>1
  <2> QED  BY <2>1, <2>2, OutUntouched
<1>5. CASE SendvAll
  <2>1. UNCHANGED OutVars /\ pc' = "account"
    BY <1>5 DEF SendvAll
  <2> QED  BY <2>1, OutUntouched
<1> QED  BY <1>1, <1>2, <1>3, <1>4, <1>5

LEMMA OutNext ==
    ASSUME TInv, OutInv, [Next]_vars
    PROVE  OutInv' /\ OutEffect
<1>1. ASSUME NEW n \in BufSizes, Enqueue(n)
      PROVE  OutInv' /\ OutEffect
  BY <1>1, OutEnqueue
<1>2. CASE Flush
  BY <1>2, OutFlushError, OutFlushSend, OutCopyWhole, OutCopyPart, OutSendvNothing,
     OutAccount, OutAccountDone, OutOtherSteps DEF Flush
<1> QED  BY <1>1, <1>2, OutOtherSteps DEF Next, Application

LEMMA OutInit == Init => OutInv
<1> SUFFICES ASSUME Init PROVE OutInv
  OBVIOUS
<1>1. /\ pc = "idle" /\ remaining = 0 /\ Passed = 0 /\ enqueued = 0 /\ gone = 0
      /\ out_buffers = <<>> /\ wire = <<>>
  BY DEF Init, Passed
<1>2. Cuts(out_buffers, gone, enqueued) # {}
  BY <1>1, CutEmpty
<1>3. Bytes(0, 0) = <<>>
  BY DEF Bytes
<1> QED  BY <1>1, <1>2, <1>3 DEF OutInv

LEMMA OutInvariance == Spec => []OutInv
<1>1. TInv /\ OutInv /\ [Next]_vars => OutInv'
  BY OutNext
<1> QED  BY <1>1, OutInit, TInvariance, PTL DEF Spec

\* A step of the socket is a step of the outbound stream, or leaves it alone.
LEMMA OutboundStep ==
    ASSUME TInv, TInv', OutInv, [Next]_vars
    PROVE  [OutStream!Next]_(OutStream!streamVars)
<1> USE DEF OutStream!Next, OutStream!streamVars
<1>1. OutInv' /\ OutEffect
  BY OutNext
<1>2. /\ Passed \in Nat /\ enqueued \in Nat /\ enqueued' \in Nat /\ wire \in Seq(Nat)
      /\ Passed' <= enqueued'
  BY <1>1, PassedType DEF TInv, TypeOK, OutInv
<1>3. CASE Puts
  BY <1>2, <1>3 DEF Puts, OutStream!Put
<1>4. CASE Copies
  <2>1. PICK k \in Nat : /\ Passed' = Passed + k /\ wire' = wire \o Bytes(Passed, k)
                         /\ UNCHANGED enqueued
    BY <1>4 DEF Copies
  <2>2. CASE k = 0
    <3>1. Bytes(Passed, 0) = <<>>
      BY DEF Bytes
    <3>2. wire' = wire /\ Passed' = Passed
      BY <1>2, <2>1, <2>2, <3>1
    <3> QED  BY <2>1, <3>2
  <2>3. CASE k # 0
    <3>1. Passed' \in Passed + 1 .. enqueued /\ Passed' - Passed = k
      BY <1>2, <2>1, <2>3
    <3> QED  BY <2>1, <3>1 DEF OutStream!Deliver, Bytes
  <2> QED  BY <2>2, <2>3
<1>5. CASE Throws
  <2>1. Passed' = Passed \/ Passed' \in Passed + 1 .. enqueued
    BY <1>2, <1>5 DEF Throws
  <2> QED  BY <1>5, <2>1 DEF Throws, OutStream!Lose
<1> QED  BY <1>1, <1>3, <1>4, <1>5 DEF OutEffect

\* The kernel gets the enqueued bytes in order and at most once, through partial writes,
\* would block, discarded queues and the accounting of what was sent.
THEOREM OutboundOrder == Spec => OutboundIsOrderedStream
<1>1. Init => OutStream!Init
  BY DEF Init, OutStream!Init, Passed
<1>2. TInv /\ TInv' /\ OutInv /\ [Next]_vars => [OutStream!Next]_(OutStream!streamVars)
  BY OutboundStep
<1> QED
  BY <1>1, <1>2, TInvariance, OutInvariance, PTL
     DEF Spec, OutboundIsOrderedStream, OutStream!Spec

\* Between ticks, what the kernel accepted and what is still queued are together
\* exactly what was enqueued, unless a flush reported an error.
THEOREM Conserved == Spec => []OutboundConserved
<1>1. ASSUME TInv, OutInv PROVE OutboundConserved
  <2> SUFFICES ASSUME ~sendFailed, pc = "idle"
               PROVE  /\ wire = Bytes(0, Len(wire))
                      /\ Cuts(out_buffers, Len(wire) - offset, enqueued) # {}
    BY DEF OutboundConserved
  <2>1. /\ gone \in Nat /\ offset \in Nat /\ remaining \in Nat /\ Passed \in Nat
    BY <1>1, PassedType DEF TInv, TypeOK
  <2>2. remaining = 0 /\ wire = Bytes(0, Passed)
    BY <1>1, <2>1 DEF OutInv
  <2>3. Len(wire) = Passed /\ Passed = gone + offset
    <3>1. Len(Bytes(0, Passed)) = Passed
      BY <2>1, BytesProperties
    <3> QED  BY <2>1, <2>2, <3>1 DEF Passed
  <2>4. Len(wire) - offset = gone
    BY <2>1, <2>3
  <2>5. Cuts(out_buffers, gone, enqueued) # {}
    BY <1>1 DEF OutInv
  <2> QED  BY <2>2, <2>3, <2>4, <2>5
<1> QED  BY <1>1, TInvariance, OutInvariance, PTL

\* A flush that says ok, or graceful_close, has thrown nothing away.
THEOREM LossReported == Spec => LossIsReported
<1>1. ASSUME TInv, OutInv, [Next]_vars
      PROVE  [Passed' - Passed > Len(wire') - Len(wire) => result' = "error"]_vars
  <2>1. OutEffect /\ Passed \in Nat /\ wire \in Seq(Nat)
    BY <1>1, OutNext, PassedType DEF TInv, TypeOK
  <2>2. CASE Puts
    BY <2>1, <2>2 DEF Puts
  <2>3. CASE Copies
    <3>1. PICK k \in Nat : Passed' = Passed + k /\ wire' = wire \o Bytes(Passed, k)
      BY <2>3 DEF Copies
    <3>2. Bytes(Passed, k) \in Seq(Nat) /\ Len(Bytes(Passed, k)) = k
      BY <2>1, BytesProperties
    <3>3. Len(wire') = Len(wire) + k
      <4>1. Len(wire \o Bytes(Passed, k)) = Len(wire) + Len(Bytes(Passed, k))
        BY ONLY <2>1, <3>2, ConcatProperties
      <4> QED  BY <3>1, <3>2, <4>1
    <3> QED  BY <2>1, <3>1, <3>3
  <2>4. CASE Throws
    BY <2>4 DEF Throws
  <2> QED  BY <2>1, <2>2, <2>3, <2>4 DEF OutEffect
<1> QED  BY <1>1, TInvariance, OutInvariance, PTL DEF Spec, LossIsReported

-----------------------------------------------------------------------------
(* Who holds a descriptor.  All three invariants follow from one inductive *)
(* invariant, which adds to them where the local and the returned value of *)
(* a factory stand while it runs.                                          *)

\* Outside a constructor no temporary is alive; inside, the factory's local holds a
\* descriptor as long as calls are left, and the returned value is alive after them.
Temporaries ==
    /\ Idle => todo = <<>> /\ sock[Local] = Dead /\ sock[Returned] = Dead
    /\ ~Idle /\ todo # <<>> => Holds(Local) /\ sock[Returned] = Dead
    /\ ~Idle /\ todo = <<>> => sock[Local] = Dead /\ sock[Returned] # Dead
    /\ ~Idle => sock[into] = Invalid

SetsMode == \E i \in 1 .. Len(todo) : todo[i] = "set_blocking"

\* A socket gets its mode before it is returned.
ModeIsSet ==
    /\ todo # <<>> => mode[sock[Local]] = "nonblocking" \/ SetsMode
    /\ AcceptInherits => \A o \in Objects \ {Local} : Holds(o) => mode[sock[o]] = "nonblocking"

HandlesInv == HandlesTypeOK /\ Temporaries /\ OneOwner /\ NoLeak /\ ModeIsSet

\* The calls of every factory end with set_blocking().
LEMMA SetupCalls ==
    ASSUME NEW kind \in {"client", "server", "accepted"}
    PROVE  /\ Setup(kind) \in Seq(Calls) /\ Setup(kind) # <<>>
           /\ \E i \in 1 .. Len(Setup(kind)) : Setup(kind)[i] = "set_blocking"
<1>1. CASE kind = "client"
  <2>1. Setup(kind) = <<"connect", "set_blocking">>  BY <1>1 DEF Setup
  <2>2. Len(Setup(kind)) = 2 /\ Setup(kind)[2] = "set_blocking"  BY <2>1
  <2> QED BY <2>1, <2>2 DEF Calls
<1>2. CASE kind = "server"
  <2>1. Setup(kind) = <<"set_reuse_address", "bind", "listen", "set_blocking">>  BY <1>2 DEF Setup
  <2>2. Len(Setup(kind)) = 4 /\ Setup(kind)[4] = "set_blocking"  BY <2>1
  <2> QED BY <2>1, <2>2 DEF Calls
<1>3. CASE kind = "accepted"
  <2>1. Setup(kind) = <<"set_blocking">>  BY <1>3 DEF Setup
  <2>2. Len(Setup(kind)) = 1 /\ Setup(kind)[1] = "set_blocking"  BY <2>1
  <2> QED BY <2>1, <2>2 DEF Calls
<1> QED BY <1>1, <1>2, <1>3

\* A set_blocking() that is not the next call is still to come after it.
LEMMA LaterCall ==
    ASSUME todo \in Seq(Calls), todo # <<>>
    PROVE  /\ Tail(todo) \in Seq(Calls) /\ Head(todo) = todo[1]
           /\ \A i \in 2 .. Len(todo) : i - 1 \in 1 .. Len(Tail(todo)) /\ Tail(todo)[i - 1] = todo[i]
  OBVIOUS

\* Every step of the program keeps the invariant.
LEMMA HandlesStep == ASSUME HandlesInv, HandlesNext PROVE HandlesInv'
<1> USE ObjectsAssumption, HandlesAssumption DEF HandlesInv, Slots, Objects, Local, Returned, Alive, Holds, Idle
<1>1. ASSUME NEW o \in Slots, Construct(o) PROVE HandlesInv'
  <2>1. HandlesTypeOK'
    BY <1>1 DEF HandlesTypeOK, Construct
  <2>2. Temporaries'
    BY <1>1 DEF HandlesTypeOK, Temporaries, Construct
  <2>3. OneOwner'
    BY <1>1 DEF HandlesTypeOK, Temporaries, OneOwner, Construct
  <2>4. NoLeak'
    BY <1>1 DEF HandlesTypeOK, Temporaries, OneOwner, NoLeak, Construct
  <2>5. ModeIsSet'
    BY <1>1 DEF HandlesTypeOK, Temporaries, OneOwner, ModeIsSet, SetsMode, Construct
  <2>6. QED BY <2>1, <2>2, <2>3, <2>4, <2>5
<1>2. ASSUME NEW o \in Slots, close(o) PROVE HandlesInv'
  <2>1. HandlesTypeOK'
    BY <1>2 DEF HandlesTypeOK, close, CloseDescriptor, Closed
  <2>2. Temporaries'
    BY <1>2 DEF HandlesTypeOK, Temporaries, close, CloseDescriptor, Closed
  <2>3. OneOwner'
    BY <1>2 DEF HandlesTypeOK, Temporaries, OneOwner, close, CloseDescriptor, Closed
  <2>4. NoLeak'
    BY <1>2 DEF HandlesTypeOK, Temporaries, OneOwner, NoLeak, close, CloseDescriptor, Closed
  <2>5. ModeIsSet'
    BY <1>2 DEF HandlesTypeOK, Temporaries, OneOwner, ModeIsSet, SetsMode, close, CloseDescriptor, Closed
  <2>6. QED BY <2>1, <2>2, <2>3, <2>4, <2>5
<1>3. ASSUME NEW o \in Slots, Destroy(o) PROVE HandlesInv'
  <2>1. HandlesTypeOK'
    BY <1>3 DEF HandlesTypeOK, Destroy, CloseDescriptor, Closed
  <2>2. Temporaries'
    BY <1>3 DEF HandlesTypeOK, Temporaries, Destroy, CloseDescriptor, Closed
  <2>3. OneOwner'
    BY <1>3 DEF HandlesTypeOK, Temporaries, OneOwner, Destroy, CloseDescriptor, Closed
  <2>4. NoLeak'
    BY <1>3 DEF HandlesTypeOK, Temporaries, OneOwner, NoLeak, Destroy, CloseDescriptor, Closed
  <2>5. ModeIsSet'
    BY <1>3 DEF HandlesTypeOK, Temporaries, OneOwner, ModeIsSet, SetsMode, Destroy, CloseDescriptor, Closed
  <2>6. QED BY <2>1, <2>2, <2>3, <2>4, <2>5
<1>4. ASSUME NEW o \in Slots, NEW kind \in {"client", "server"}, Create(o, kind) PROVE HandlesInv'
  <2>0. /\ Setup(kind) \in Seq(Calls) /\ Setup(kind) # <<>>
       /\ \E i \in 1 .. Len(Setup(kind)) : Setup(kind)[i] = "set_blocking"
    BY SetupCalls
  <2>1. HandlesTypeOK'
    <3>1. <<>> \in Seq(Calls)  OBVIOUS
    <3>2. todo' \in Seq(Calls)  BY <1>4, <2>0, <3>1 DEF Create
    <3>3. sock' \in [Objects -> Descriptors \cup {Invalid, Dead}]
      BY <1>4 DEF HandlesTypeOK, Create, Opens, OpensNothing
    <3>4. mode' \in [Descriptors -> {"free", "blocking", "nonblocking"}]
      BY <1>4 DEF HandlesTypeOK, Create, Opens, OpensNothing
    <3> QED BY <1>4, <3>2, <3>3, <3>4 DEF HandlesTypeOK, Create
  <2>2. Temporaries'
    BY <1>4, <2>0 DEF HandlesTypeOK, Temporaries, Create, Opens, OpensNothing
  <2>3. OneOwner'
    BY <1>4 DEF HandlesTypeOK, Temporaries, OneOwner, Create, Opens, OpensNothing
  <2>4. NoLeak'
    BY <1>4 DEF HandlesTypeOK, Temporaries, OneOwner, NoLeak, Create, Opens, OpensNothing
  <2>5. ModeIsSet'
    BY <1>4, <2>0 DEF HandlesTypeOK, Temporaries, OneOwner, ModeIsSet, SetsMode, Create, Opens, OpensNothing
  <2>6. QED BY <2>1, <2>2, <2>3, <2>4, <2>5
<1>5. ASSUME NEW o \in Slots, NEW from \in Slots, MoveConstruct(o, from) PROVE HandlesInv'
  <2>1. HandlesTypeOK'
    BY <1>5 DEF HandlesTypeOK, MoveConstruct, LeftIn
  <2>2. Temporaries'
    BY <1>5 DEF HandlesTypeOK, Temporaries, MoveConstruct, LeftIn
  <2>3. OneOwner'
    BY <1>5 DEF HandlesTypeOK, Temporaries, OneOwner, MoveConstruct, LeftIn
  <2>4. NoLeak'
    BY <1>5 DEF HandlesTypeOK, Temporaries, OneOwner, NoLeak, MoveConstruct, LeftIn
  <2>5. ModeIsSet'
    BY <1>5 DEF HandlesTypeOK, Temporaries, OneOwner, ModeIsSet, SetsMode, MoveConstruct, LeftIn
  <2>6. QED BY <2>1, <2>2, <2>3, <2>4, <2>5
<1>6. ASSUME NEW o \in Slots, NEW from \in Slots, MoveAssign(o, from) PROVE HandlesInv'
  <2>1. HandlesTypeOK'
    BY <1>6 DEF HandlesTypeOK, MoveAssign, LeftIn
  <2>2. Temporaries'
    BY <1>6 DEF HandlesTypeOK, Temporaries, MoveAssign, LeftIn
  <2>3. OneOwner'
    BY <1>6 DEF HandlesTypeOK, Temporaries, OneOwner, MoveAssign, LeftIn
  <2>4. NoLeak'
    BY <1>6 DEF HandlesTypeOK, Temporaries, OneOwner, NoLeak, MoveAssign, LeftIn
  <2>5. ModeIsSet'
    BY <1>6 DEF HandlesTypeOK, Temporaries, OneOwner, ModeIsSet, SetsMode, MoveAssign, LeftIn
  <2>6. QED BY <2>1, <2>2, <2>3, <2>4, <2>5
<1>7. ASSUME NEW a \in Acceptors, NEW o \in Streams, Accept(a, o) PROVE HandlesInv'
  <2>1. HandlesTypeOK'
    BY <1>7 DEF HandlesTypeOK, Accept, Opens, OpensNothing, AcceptedMode
  <2>2. Temporaries'
    BY <1>7 DEF HandlesTypeOK, Temporaries, Accept, Opens, OpensNothing, AcceptedMode
  <2>3. OneOwner'
    BY <1>7 DEF HandlesTypeOK, Temporaries, OneOwner, Accept, Opens, OpensNothing, AcceptedMode
  <2>4. NoLeak'
    BY <1>7 DEF HandlesTypeOK, Temporaries, OneOwner, NoLeak, Accept, Opens, OpensNothing, AcceptedMode
  <2>5. ModeIsSet'
    BY <1>7 DEF HandlesTypeOK, Temporaries, OneOwner, ModeIsSet, SetsMode, Accept, Opens, OpensNothing, AcceptedMode
  <2>6. QED BY <2>1, <2>2, <2>3, <2>4, <2>5
<1>8. ASSUME NEW a \in Acceptors, NEW o \in Streams, AcceptedByFactory(a, o) PROVE HandlesInv'
  <2>0. /\ Setup("accepted") \in Seq(Calls) /\ Setup("accepted") # <<>>
       /\ \E i \in 1 .. Len(Setup("accepted")) : Setup("accepted")[i] = "set_blocking"
    BY SetupCalls
  <2>1. HandlesTypeOK'
    <3>1. <<>> \in Seq(Calls)  OBVIOUS
    <3>2. todo' \in Seq(Calls)  BY <1>8, <2>0, <3>1 DEF AcceptedByFactory
    <3>3. sock' \in [Objects -> Descriptors \cup {Invalid, Dead}]
      BY <1>8 DEF HandlesTypeOK, AcceptedByFactory, Opens, OpensNothing, AcceptedMode
    <3>4. mode' \in [Descriptors -> {"free", "blocking", "nonblocking"}]
      BY <1>8 DEF HandlesTypeOK, AcceptedByFactory, Opens, OpensNothing, AcceptedMode
    <3> QED BY <1>8, <3>2, <3>3, <3>4 DEF HandlesTypeOK, AcceptedByFactory
  <2>2. Temporaries'
    BY <1>8, <2>0 DEF HandlesTypeOK, Temporaries, AcceptedByFactory, Opens, OpensNothing, AcceptedMode
  <2>3. OneOwner'
    BY <1>8 DEF HandlesTypeOK, Temporaries, OneOwner, AcceptedByFactory, Opens, OpensNothing, AcceptedMode
  <2>4. NoLeak'
    BY <1>8 DEF HandlesTypeOK, Temporaries, OneOwner, NoLeak, AcceptedByFactory, Opens, OpensNothing, AcceptedMode
  <2>5. ModeIsSet'
    BY <1>8, <2>0 DEF HandlesTypeOK, Temporaries, OneOwner, ModeIsSet, SetsMode, AcceptedByFactory, Opens, OpensNothing, AcceptedMode
  <2>6. QED BY <2>1, <2>2, <2>3, <2>4, <2>5
<1>9. ASSUME CallSucceeds PROVE HandlesInv'
  <2>1. HandlesTypeOK'
    BY <1>9, LaterCall DEF HandlesTypeOK, CallSucceeds
  <2>2. Temporaries'
    BY <1>9 DEF HandlesTypeOK, Temporaries, CallSucceeds
  <2>3. OneOwner'
    BY <1>9 DEF HandlesTypeOK, Temporaries, OneOwner, CallSucceeds
  <2>4. NoLeak'
    BY <1>9 DEF HandlesTypeOK, Temporaries, OneOwner, NoLeak, CallSucceeds
  <2>5. ModeIsSet'
    <3> USE DEF HandlesTypeOK, Temporaries, OneOwner
    <3>1. sock[Local] \in Descriptors /\ todo' = Tail(todo) /\ sock[Returned] = Dead
      BY <1>9 DEF CallSucceeds
    <3>2. CASE Head(todo) = "set_blocking"
      BY <1>9, <3>1, <3>2 DEF ModeIsSet, CallSucceeds
    <3>3. CASE Head(todo) # "set_blocking"
      <4>1. mode' = mode  BY <1>9, <3>3 DEF CallSucceeds
      <4>2. mode[sock[Local]] = "nonblocking" \/ SetsMode'
        <5>1. todo \in Seq(Calls) /\ todo # <<>>
          BY <1>9 DEF CallSucceeds
        <5>2. CASE SetsMode
          <6>1. PICK i \in 1 .. Len(todo) : todo[i] = "set_blocking"
            BY <5>2 DEF SetsMode
          <6>2. Head(todo) = todo[1] /\ Len(todo) \in Nat
            BY ONLY <5>1, LaterCall
          <6>3. i \in 2 .. Len(todo)
            BY ONLY <3>3, <6>1, <6>2
          <6>4. i - 1 \in 1 .. Len(Tail(todo)) /\ Tail(todo)[i - 1] = todo[i]
            BY ONLY <5>1, <6>3, LaterCall
          <6> QED BY ONLY <3>1, <6>1, <6>4 DEF SetsMode
        <5> QED BY <5>1, <5>2 DEF ModeIsSet
      <4>3. CASE todo' = <<>>
        <5>1. mode[sock[Local]] = "nonblocking"  BY <4>2, <4>3 DEF SetsMode
        <5> QED BY <1>9, <3>1, <4>1, <4>3, <5>1 DEF ModeIsSet, CallSucceeds
      <4>4. CASE todo' # <<>>
        BY <1>9, <3>1, <4>1, <4>2, <4>4 DEF ModeIsSet, CallSucceeds
      <4> QED BY <4>3, <4>4
    <3> QED BY <3>2, <3>3
  <2>6. QED BY <2>1, <2>2, <2>3, <2>4, <2>5
<1>10. ASSUME CallFails PROVE HandlesInv'
  <2>1. HandlesTypeOK'
    BY <1>10 DEF HandlesTypeOK, CallFails, CloseDescriptor, Closed
  <2>2. Temporaries'
    BY <1>10 DEF HandlesTypeOK, Temporaries, CallFails, CloseDescriptor, Closed
  <2>3. OneOwner'
    BY <1>10 DEF HandlesTypeOK, Temporaries, OneOwner, CallFails, CloseDescriptor, Closed
  <2>4. NoLeak'
    BY <1>10 DEF HandlesTypeOK, Temporaries, OneOwner, NoLeak, CallFails, CloseDescriptor, Closed
  <2>5. ModeIsSet'
    BY <1>10 DEF HandlesTypeOK, Temporaries, OneOwner, ModeIsSet, SetsMode, CallFails, CloseDescriptor, Closed
  <2>6. QED BY <2>1, <2>2, <2>3, <2>4, <2>5
<1>11. ASSUME Constructed PROVE HandlesInv'
  <2>1. HandlesTypeOK'
    BY <1>11 DEF HandlesTypeOK, Constructed
  <2>2. Temporaries'
    BY <1>11 DEF HandlesTypeOK, Temporaries, Constructed
  <2>3. OneOwner'
    BY <1>11 DEF HandlesTypeOK, Temporaries, OneOwner, Constructed
  <2>4. NoLeak'
    BY <1>11 DEF HandlesTypeOK, Temporaries, OneOwner, NoLeak, Constructed
  <2>5. ModeIsSet'
    BY <1>11 DEF HandlesTypeOK, Temporaries, OneOwner, ModeIsSet, SetsMode, Constructed
  <2>6. QED BY <2>1, <2>2, <2>3, <2>4, <2>5
<1>12. QED BY <1>1, <1>2, <1>3, <1>4, <1>5, <1>6, <1>7, <1>8, <1>9, <1>10, <1>11 DEF HandlesNext, Program, Moves

\* The strengthened invariant holds in every reachable state.
LEMMA HandlesInvariance == HandlesSpec => []HandlesInv
<1>1. HandlesInit => HandlesInv
  <2> SUFFICES ASSUME HandlesInit PROVE HandlesInv  OBVIOUS
  <2> USE DEF HandlesInit, Objects, Slots, Local, Returned, Holds, Idle
  <2>1. HandlesTypeOK /\ OneOwner /\ NoLeak  BY HandlesAssumption DEF HandlesTypeOK, OneOwner, NoLeak
  <2>2. Temporaries  BY DEF Temporaries
  <2>3. ModeIsSet  BY HandlesAssumption DEF ModeIsSet
  <2> QED BY <2>1, <2>2, <2>3 DEF HandlesInv
<1>2. HandlesInv /\ [HandlesNext]_handleVars => HandlesInv'
  <2> SUFFICES ASSUME HandlesInv, [HandlesNext]_handleVars PROVE HandlesInv'  OBVIOUS
  <2>1. CASE HandlesNext  BY <2>1, HandlesStep
  <2>2. CASE UNCHANGED handleVars
    BY <2>2 DEF HandlesInv, HandlesTypeOK, Temporaries, OneOwner, NoLeak, ModeIsSet, SetsMode, Holds, Idle, handleVars
  <2> QED BY <2>1, <2>2
<1> QED BY <1>1, <1>2, PTL DEF HandlesSpec

\* The objects, the system's descriptors and the factories' calls keep their types.
THEOREM HandlesTypeCorrect == HandlesSpec => []HandlesTypeOK
<1>1. HandlesInv => HandlesTypeOK  BY DEF HandlesInv
<1> QED BY <1>1, HandlesInvariance, PTL

\* A descriptor has at most one holder, through the moves and destructors of socket.hpp,
\* and stays open while it has one.
THEOREM SingleOwner == HandlesSpec => []OneOwner
<1>1. HandlesInv => OneOwner  BY DEF HandlesInv
<1> QED BY <1>1, HandlesInvariance, PTL

\* What is open is held, but for descriptors dropped by a move assignment or kept open
\* by a failed close: the factories leave nothing behind wherever they fail.
THEOREM NothingLeaks == HandlesSpec => []NoLeak
<1>1. HandlesInv => NoLeak  BY DEF HandlesInv
<1> QED BY <1>1, HandlesInvariance, PTL

\* Where accepted sockets inherit the mode, no stream_socket or acceptor blocks.
THEOREM NonBlocking == HandlesSpec => []NeverBlocks
<1>1. HandlesInv => NeverBlocks
  BY ObjectsAssumption DEF HandlesInv, ModeIsSet, NeverBlocks, Objects
<1> QED BY <1>1, HandlesInvariance, PTL
=============================================================================
