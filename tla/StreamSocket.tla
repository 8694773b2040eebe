---------------------------- MODULE StreamSocket ----------------------------
(***************************************************************************)
(* One end of a banker stream: class stream_socket (stream_socket.hpp) and *)
(* the static functions of stream_socket_core it is made of.  The object   *)
(* belongs to one thread; what runs beside it is the TCP stack and the     *)
(* peer, whose actions interleave with every system call of tick().        *)
(*                                                                         *)
(* A byte is named by its place in its stream, counted from 1: byte k of   *)
(* the inbound stream is the k-th byte that arrived from the peer, byte k  *)
(* of the outbound stream the k-th byte given to enqueue().                *)
(*                                                                         *)
(* Sockets are non-blocking.  The POSIX branch of socket::sendv does not   *)
(* compile (it stores a const void* in iov_base), so the model follows the *)
(* Windows build, where accept() hands on the acceptor's non-blocking mode.*)
(***************************************************************************)
EXTENDS Naturals, Sequences

CONSTANTS
    ByteLimit,  \* group_byte_limit = byte_limit (16 KiB in the code)
    TickModes,  \* the pairs <<readable, writable>> the application ticks with
    BufSizes,   \* sizes of the vectors the application enqueues
    SndBuf,     \* bytes the kernel's send buffer holds
    Window,     \* bytes the peer sends beyond what the application consumed
    MaxIn,      \* bound: bytes that arrive from the peer
    MaxOut,     \* bound: bytes that are enqueued
    MaxQueue    \* bound: buffers queued at a time

ASSUME ByteLimitAssumption == ByteLimit \in Nat \ {0}
ASSUME ModesAssumption == TickModes \subseteq BOOLEAN \X BOOLEAN
ASSUME SizesAssumption == BufSizes \subseteq Nat
ASSUME BoundsAssumption == {SndBuf, Window, MaxIn, MaxOut, MaxQueue} \subseteq Nat

VARIABLES
    receive_buffer, \* receive_state.receive_buffer
    out_buffers,    \* send_state.out_buffers
    offset,         \* send_state.offset
    pc,             \* where the thread stands in tick()
    writable,       \* tick()'s second parameter
    result,         \* what tick() stores through its request_result*
    bytes_received, \* local of receive()
    vec,            \* the iovec writev()/WSASend() copies next
    remaining,      \* bytes copied by sendv(), then the local of the same name
    arrived,        \* inbound bytes the kernel has received so far
    taken,          \* inbound bytes recv() has handed out so far
    wire,           \* outbound bytes the kernel has accepted
    peerRead,       \* outbound bytes that left the kernel's send buffer
    peer,           \* what the peer did to the connection
    consumed,       \* inbound bytes the application erased from receive()
    enqueued,       \* outbound bytes given to enqueue() so far
    gone,           \* history: outbound bytes whose buffers have left out_buffers
    sendFailed      \* history: some flush_out_buffer() reported an error

sockVars == <<receive_buffer, out_buffers, offset>>
tickVars == <<pc, writable, result, bytes_received, vec, remaining>>
kernVars == <<arrived, taken, wire, peerRead, peer>>
appVars  == <<consumed, enqueued, gone, sendFailed>>
vars     == <<sockVars, tickVars, kernVars, appVars>>

Results == {"ok", "graceful_close", "error"}

\* The k outbound (or inbound) bytes that follow byte `from'.
Bytes(from, k) == [i \in 1 .. k |-> from + i]

Lesser(a, b) == IF a <= b THEN a ELSE b

\* Mutant: the first iovec ignores the offset.
IovecFromStart(v) == out_buffers[v]

\* What iovec v covers: io_vecs starts with to_iovec(offset), then to_iovec(0).
Iovec(v) == LET b == out_buffers[v]
            IN  IF v = 1 THEN SubSeq(b, offset + 1, Len(b)) ELSE b

\* Room left in the kernel's send buffer.
Space == SndBuf - (Len(wire) - peerRead)

Init ==
    /\ receive_buffer = <<>> /\ out_buffers = <<>> /\ offset = 0
    /\ pc = "idle" /\ writable = FALSE /\ result = "ok"
    /\ bytes_received = 0 /\ vec = 1 /\ remaining = 0
    /\ arrived = 0 /\ taken = 0 /\ wire = <<>> /\ peerRead = 0 /\ peer = "open"
    /\ consumed = <<>> /\ enqueued = 0 /\ gone = 0 /\ sendFailed = FALSE

-----------------------------------------------------------------------------
(* The application, between two ticks. *)

Enqueue(n) ==
    /\ pc = "idle"
    /\ enqueued + n <= MaxOut /\ Len(out_buffers) < MaxQueue
    /\ out_buffers' = Append(out_buffers, Bytes(enqueued, n))
    /\ enqueued' = enqueued + n
    /\ UNCHANGED <<receive_buffer, offset, tickVars, kernVars, consumed, gone, sendFailed>>

\* The application erases the first k bytes of receive().
Consume(k) ==
    /\ pc = "idle"
    /\ consumed' = consumed \o SubSeq(receive_buffer, 1, k)
    /\ receive_buffer' = SubSeq(receive_buffer, k + 1, Len(receive_buffer))
    /\ UNCHANGED <<out_buffers, offset, tickVars, kernVars, enqueued, gone, sendFailed>>

\* Mutant: a tick that may write never reads.
WritesFirst(r, w) == IF w THEN "flush" ELSE IF r THEN "recv" ELSE "idle"

\* What a tick does first.
FirstStage(r, w) == IF r THEN "recv" ELSE IF w THEN "flush" ELSE "idle"

\* tick(readable, writable, &result): with neither flag the stored result is
\* the uninitialised local_result.
Tick(r, w) ==
    /\ pc = "idle" /\ pc' = FirstStage(r, w)
    /\ writable' = w /\ bytes_received' = 0
    /\ result' \in IF r \/ w THEN {"ok"} ELSE Results
    /\ UNCHANGED <<sockVars, vec, remaining, kernVars, appVars>>

-----------------------------------------------------------------------------
(* receive(): one action per return of socket::recv. *)

\* receive() returns with result r; tick() goes on to the flush only after ok.
ReceiveReturns(r) ==
    /\ result' = r
    /\ pc' = IF r = "ok" /\ writable THEN "flush" ELSE "idle"

\* recv() hands out n bytes.
RecvTakes(n) ==
    /\ pc = "recv" /\ peer # "rst" /\ taken + n <= arrived
    /\ taken' = taken + n
    /\ UNCHANGED <<out_buffers, offset, writable, vec, remaining,
                   arrived, wire, peerRead, peer, appVars>>

\* Mutants: the limit counts as reached after the first chunk; a chunk is
\* inserted in front of what is there.
LimitIsOneChunk == bytes_received > 0
InsertedFront(n) == Bytes(taken, n) \o receive_buffer

\* The loop's second condition, and what it does to the receive buffer.
LimitReached == bytes_received >= ByteLimit
Appended(n) == receive_buffer \o Bytes(taken, n)

\* n > 0 bytes below the limit: they are appended and the loop calls recv again.
RecvChunk(n) ==
    /\ ~LimitReached
    /\ RecvTakes(n)
    /\ receive_buffer' = Appended(n)
    /\ bytes_received' = bytes_received + n
    /\ UNCHANGED <<pc, result>>

\* n > 0 bytes once the limit is reached: the loop ends without appending them.
RecvPastLimit(n) ==
    /\ LimitReached
    /\ RecvTakes(n)
    /\ ReceiveReturns("ok")
    /\ UNCHANGED <<receive_buffer, bytes_received>>

RecvWouldBlock ==
    /\ pc = "recv" /\ peer = "open" /\ taken = arrived
    /\ ReceiveReturns("ok")
    /\ UNCHANGED <<sockVars, writable, bytes_received, vec, remaining, kernVars, appVars>>

RecvClosed ==
    /\ pc = "recv" /\ peer = "fin" /\ taken = arrived
    /\ ReceiveReturns("graceful_close")
    /\ UNCHANGED <<sockVars, writable, bytes_received, vec, remaining, kernVars, appVars>>

RecvError ==
    /\ pc = "recv" /\ peer = "rst"
    /\ ReceiveReturns("error")
    /\ UNCHANGED <<sockVars, writable, bytes_received, vec, remaining, kernVars, appVars>>

-----------------------------------------------------------------------------
(* flush_out_buffer(). *)

FlushEmpty ==
    /\ pc = "flush" /\ out_buffers = <<>>
    /\ pc' = "idle" /\ result' = "ok"
    /\ UNCHANGED <<sockVars, writable, bytes_received, vec, remaining, kernVars, appVars>>

\* sendv() fails with anything but would_block: a reset connection, or a
\* transient condition such as WSAENOBUFS.  The queue is thrown away.
FlushError ==
    /\ pc = "flush" /\ out_buffers # <<>>
    /\ out_buffers' = <<>> /\ offset' = 0 /\ gone' = enqueued
    /\ result' = "error" /\ pc' = "idle" /\ sendFailed' = TRUE
    /\ UNCHANGED <<receive_buffer, writable, bytes_received, vec, remaining,
                   kernVars, consumed, enqueued>>

\* sendv() is entered with one iovec per queued buffer.
FlushSend ==
    /\ pc = "flush" /\ out_buffers # <<>> /\ peer # "rst"
    /\ pc' = "sendv" /\ vec' = 1 /\ remaining' = 0 /\ result' = "ok"
    /\ UNCHANGED <<sockVars, writable, bytes_received, kernVars, appVars>>

\* The kernel copies a whole iovec, if it has the room, ...
CopyWhole ==
    /\ pc = "sendv" /\ vec <= Len(out_buffers)
    /\ Len(Iovec(vec)) <= Space
    /\ wire' = wire \o Iovec(vec)
    /\ remaining' = remaining + Len(Iovec(vec))
    /\ vec' = vec + 1
    /\ UNCHANGED <<sockVars, pc, writable, result, bytes_received,
                   arrived, taken, peerRead, peer, appVars>>

\* ... or what fits of it, and sendv() returns: the count of bytes copied, or
\* would_block when there is none.
CopyPart ==
    /\ pc = "sendv" /\ vec <= Len(out_buffers)
    /\ Len(Iovec(vec)) > Space
    /\ wire' = wire \o SubSeq(Iovec(vec), 1, Space)
    /\ remaining' = remaining + Space
    /\ pc' = IF remaining' > 0 THEN "account" ELSE "idle"
    /\ vec' = 1
    /\ UNCHANGED <<sockVars, writable, result, bytes_received,
                   arrived, taken, peerRead, peer, appVars>>

\* sendv() copied every iovec and returns a count above 0.
SendvAll ==
    /\ pc = "sendv" /\ vec > Len(out_buffers) /\ remaining > 0
    /\ pc' = "account" /\ vec' = 1
    /\ UNCHANGED <<sockVars, writable, result, bytes_received, remaining,
                   kernVars, appVars>>

\* sendv() returns 0, which is read as the peer having closed.
SendvNothing ==
    /\ pc = "sendv" /\ vec > Len(out_buffers) /\ remaining = 0
    /\ out_buffers' = <<>> /\ offset' = 0 /\ gone' = enqueued
    /\ result' = "graceful_close" /\ pc' = "idle" /\ vec' = 1
    /\ UNCHANGED <<receive_buffer, writable, bytes_received, remaining,
                   kernVars, consumed, enqueued, sendFailed>>

\* Mutants: a buffer is popped whether or not it was sent to its end; a buffer
\* sent to its very end stays; the loop takes a whole buffer off the count.
AlwaysSent(off, size) == TRUE
SentBeyond(off, size) == off > size
TookAll(size) == size - offset

\* What the loop takes off the count for the front buffer, and whether that
\* buffer can go.
Took(size) == Lesser(size - offset, remaining)
FullySent(off, size) == off >= size

\* One round of the loop that takes the sent bytes off the queue.
Account ==
    /\ pc = "account" /\ remaining > 0 /\ out_buffers # <<>>
    /\ LET size == Len(Head(out_buffers))
           took == Took(size)
       IN  /\ remaining' = remaining - took
           /\ IF FullySent(offset + took, size)
              THEN out_buffers' = Tail(out_buffers) /\ offset' = 0 /\ gone' = gone + size
              ELSE offset' = offset + took /\ UNCHANGED <<out_buffers, gone>>
    /\ UNCHANGED <<receive_buffer, pc, writable, result, bytes_received, vec,
                   kernVars, consumed, enqueued, sendFailed>>

AccountDone ==
    /\ pc = "account" /\ (remaining = 0 \/ out_buffers = <<>>)
    /\ pc' = "idle" /\ remaining' = 0
    /\ UNCHANGED <<sockVars, writable, result, bytes_received, vec, kernVars, appVars>>

-----------------------------------------------------------------------------
(* The peer and the network. *)

Arrive(n) ==
    /\ peer = "open" /\ arrived + n <= MaxIn
    /\ arrived + n <= Len(consumed) + Window
    /\ arrived' = arrived + n
    /\ UNCHANGED <<sockVars, tickVars, taken, wire, peerRead, peer, appVars>>

\* The peer shuts its side down, and may go on reading ours.
PeerFin ==
    /\ peer = "open" /\ peer' = "fin"
    /\ UNCHANGED <<sockVars, tickVars, arrived, taken, wire, peerRead, appVars>>

PeerReset ==
    /\ peer # "rst" /\ peer' = "rst"
    /\ UNCHANGED <<sockVars, tickVars, arrived, taken, wire, peerRead, appVars>>

PeerDrain ==
    /\ peer # "rst" /\ peerRead < Len(wire)
    /\ peerRead' \in peerRead + 1 .. Len(wire)
    /\ UNCHANGED <<sockVars, tickVars, arrived, taken, wire, peer, appVars>>

-----------------------------------------------------------------------------
Application ==
    \/ \E n \in BufSizes : Enqueue(n)
    \/ \E k \in 1 .. Len(receive_buffer) : Consume(k)

Receive ==
    \/ \E n \in 1 .. ByteLimit : RecvChunk(n) \/ RecvPastLimit(n)
    \/ RecvWouldBlock \/ RecvClosed \/ RecvError

Flush ==
    \/ FlushEmpty \/ FlushError \/ FlushSend
    \/ CopyWhole \/ CopyPart \/ SendvAll \/ SendvNothing
    \/ Account \/ AccountDone

Environment ==
    \/ \E n \in 1 .. MaxIn : Arrive(n)
    \/ PeerFin \/ PeerReset \/ PeerDrain

Call == \E m \in TickModes : Tick(m[1], m[2])

Next == Application \/ Call \/ Receive \/ Flush \/ Environment

Spec == Init /\ [][Next]_vars

\* The owner's loop calls tick() again and again and the thread runs on; the
\* network drains the send buffer.  Nothing obliges the application to enqueue
\* or consume, or the peer to send, close or reset.
Fairness == WF_vars(Call) /\ WF_vars(Receive) /\ WF_vars(Flush) /\ WF_vars(PeerDrain)

FairSpec == Spec /\ Fairness

-----------------------------------------------------------------------------
(* What the component promises. *)

\* Inbound bytes the application got, in the order it got them.
Delivered == consumed \o receive_buffer

\* Outbound bytes that are behind us: sent, or thrown away with the queue.
Passed == gone + offset + remaining

\* The ways to cut the outbound bytes behind byte `from' up to byte `to' so that each
\* buffer holds those from one cut to the next: there is one, or none.
Cuts(buffers, from, to) ==
    {cut \in [1 .. Len(buffers) + 1 -> from .. to] :
        /\ cut[1] = from /\ cut[Len(buffers) + 1] = to
        /\ \A i, j \in 1 .. Len(buffers) + 1 : i <= j => cut[i] <= cut[j]
        /\ \A i \in 1 .. Len(buffers) : buffers[i] = Bytes(cut[i], cut[i + 1] - cut[i])}

TypeOK ==
    /\ receive_buffer \in Seq(Nat) /\ consumed \in Seq(Nat)
    /\ out_buffers \in Seq(Seq(Nat)) /\ offset \in Nat
    /\ pc \in {"idle", "recv", "flush", "sendv", "account"}
    /\ writable \in BOOLEAN /\ result \in Results
    /\ bytes_received \in Nat /\ vec \in Nat \ {0} /\ remaining \in Nat
    /\ arrived \in Nat /\ taken \in Nat /\ wire \in Seq(Nat) /\ peerRead \in Nat
    /\ peer \in {"open", "fin", "rst"}
    /\ enqueued \in Nat /\ gone \in Nat /\ sendFailed \in BOOLEAN

\* The inbound stream reaches the application without reordering, repetition or
\* invention, whatever arrives between the recv() calls of a tick; it may have
\* gaps (receive, lines 102-112).
InStream == INSTANCE OrderedStream
                WITH accepted <- arrived, passed <- taken, delivered <- Delivered
InboundIsOrderedStream == InStream!Spec

\* The outbound stream reaches the kernel in the order it was enqueued, each byte
\* at most once, through partial writes, would block, discarded queues and the
\* accounting loop (flush_out_buffer, lines 130-187).
OutStream == INSTANCE OrderedStream
                WITH accepted <- enqueued, passed <- Passed, delivered <- wire
OutboundIsOrderedStream == OutStream!Spec

\* If the peer never has more than ByteLimit bytes waiting to be consumed, every
\* byte recv() took is delivered: the chunk read past the limit never exists.
InboundGapless ==
    Window <= ByteLimit => Delivered = Bytes(0, taken)

\* A gap in the inbound stream is one chunk of at most ByteLimit bytes, and at
\* least ByteLimit bytes without a gap come before it: a tick loses one chunk.
GapShape ==
    \A i \in 1 .. Len(Delivered) - 1 :
        Delivered[i + 1] # Delivered[i] + 1 =>
            /\ Delivered[i + 1] - Delivered[i] - 1 <= ByteLimit
            /\ i >= ByteLimit
            /\ Delivered[i] - Delivered[i - ByteLimit + 1] = ByteLimit - 1

\* As long as no flush reported an error, what the kernel has accepted followed
\* by what is still queued is exactly what was enqueued: partial writes, would
\* block, empty buffers and the offset bookkeeping lose and repeat nothing.
OutboundConserved ==
    ~sendFailed /\ pc = "idle" =>
        /\ wire = Bytes(0, Len(wire))
        /\ Cuts(out_buffers, Len(wire) - offset, enqueued) # {}

\* The offset kept between ticks lies inside the first queued buffer: size(offset)
\* never underflows and a fully sent buffer never stays queued.
OffsetInside ==
    /\ out_buffers = <<>> => offset = 0
    /\ offset > 0 => offset < Len(out_buffers[1])

\* Bytes are thrown away only by a flush that reports an error: the application
\* that is told ok, or graceful_close, has lost nothing it enqueued.
LossIsReported ==
    [][ Passed' - Passed > Len(wire') - Len(wire) => result' = "error" ]_vars

\* Every enqueued byte is sent, unless the peer closes or resets, or a flush fails.
OutboundProgress ==
    \A k \in 1 .. MaxOut :
        enqueued >= k ~> Len(wire) >= k \/ peer # "open" \/ sendFailed

\* Every byte that arrives is taken out of the kernel, unless the peer resets.
InboundProgress ==
    \A k \in 1 .. MaxIn : arrived >= k ~> taken >= k \/ peer = "rst"
=============================================================================
