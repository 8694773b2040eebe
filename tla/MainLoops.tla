------------------------------ MODULE MainLoops ------------------------------
(***************************************************************************)
(* server() and client() of main.cpp, run against each other: clients that *)
(* enqueue their messages, wait for their socket with a poll_group and     *)
(* flush, and a server that reads and prints.  A message is never split.   *)
(* What a tick does in detail is StreamSocket's business.                  *)
(***************************************************************************)
EXTENDS Naturals, Sequences, SequencesExt

CONSTANTS
    Clients,    \* runs of client()
    Messages,   \* how many messages each enqueues
    Room,       \* messages the kernel holds for a connection
    ByteLimit   \* messages that one chunk of recv() and one tick may take

ASSUME SizesAssumption ==
    Messages \in Nat /\ Room \in Nat \ {0} /\ ByteLimit \in Nat \ {0}

VARIABLES
    \* client()
    cpc,        \* client -> off, poll, result, ended, killed
    queue,      \* client -> what is enqueued and not sent
    revents,    \* client -> events of the one entry in its poll_group
    read_offset,\* client -> _read_offset of the poll_group
    \* kernel
    conn,       \* client -> none, refused, pending, accepted, closed (by the server)
    gone,       \* client -> its end is closed
    lost,       \* client -> the connection was reset
    wire,       \* client -> messages sent and not received
    \* server()
    spc,        \* touch, accept, pass, ended
    clients,    \* the list, with the iterator as an index into it
    it,
    buf,        \* client -> receive buffer
    printed,    \* client -> what the server has printed of it
    holes       \* history: client -> how it lost messages while its connection stood

Msgs == [i \in 1 .. Messages |-> i]

client == <<cpc, queue, revents, read_offset>>
kernel == <<conn, gone, lost, wire>>
server == <<spc, clients, it, buf, printed>>
vars == <<client, kernel, server, holes>>

Init ==
    /\ cpc = [c \in Clients |-> "off"] /\ queue = [c \in Clients |-> <<>>]
    /\ revents = [c \in Clients |-> {}] /\ read_offset = [c \in Clients |-> 0]
    /\ conn = [c \in Clients |-> "none"] /\ gone = [c \in Clients |-> FALSE]
    /\ lost = [c \in Clients |-> FALSE] /\ wire = [c \in Clients |-> <<>>]
    /\ spc = "touch" /\ clients = <<>> /\ it = 1
    /\ buf = [c \in Clients |-> <<>>] /\ printed = [c \in Clients |-> <<>>]
    /\ holes = [c \in Clients |-> {}]

-----------------------------------------------------------------------------
(* client(). *)

\* The constructor connects, or leaves the socket invalid, which client() ignores.
Start(c) ==
    /\ cpc[c] = "off"
    /\ \E outcome \in {"refused"} \cup (IF spc = "ended" THEN {} ELSE {"pending"}) :
          conn' = [conn EXCEPT ![c] = outcome]
    /\ queue' = [queue EXCEPT ![c] = Msgs]
    /\ cpc' = [cpc EXCEPT ![c] = "poll"]
    /\ UNCHANGED <<revents, read_offset, gone, lost, wire, server, holes>>

\* What WSAPoll reports; for an invalid descriptor, none of the bits that are read.
Events(c) ==
    IF conn[c] = "refused" THEN {}
    ELSE {e \in {"writable", "error", "disconnected"} :
            \/ e = "writable" /\ Len(wire[c]) < Room /\ ~lost[c]
            \/ e = "error" /\ lost[c]
            \/ e = "disconnected" /\ (lost[c] \/ conn[c] = "closed")}

\* Mutant: poll() goes on behind the entries that were read.
OffsetKept(c) == read_offset[c]

OffsetAfterPoll(c) == 0

poll(c) ==
    /\ cpc[c] = "poll"
    /\ revents' = [revents EXCEPT ![c] = Events(c)]
    /\ read_offset' = [read_offset EXCEPT ![c] = OffsetAfterPoll(c)]
    /\ cpc' = [cpc EXCEPT ![c] = "result"]
    /\ UNCHANGED <<queue, kernel, server, holes>>

\* client() returns, or is killed; either way its end is closed.
Ends(c, how) == /\ cpc' = [cpc EXCEPT ![c] = how]
                /\ gone' = [gone EXCEPT ![c] = TRUE]

\* Mutant: a close is not looked at.
StopsOnError(events) == "error" \in events

Stops(events) == "error" \in events \/ "disconnected" \in events

\* next_result() has no entry left, or reports the end of the connection.
Break(c) ==
    /\ cpc[c] = "result"
    /\ read_offset[c] >= 1 \/ Stops(revents[c])
    /\ Ends(c, "ended")
    /\ UNCHANGED <<queue, revents, read_offset, conn, lost, wire, server, holes>>

\* Mutant: the buffer after the last one taken is popped with it.
OneMorePopped(q, n) == SubSeq(q, n + 2, Len(q))

Unsent(q, n) == SubSeq(q, n + 1, Len(q))

\* tick(false, true), of which client() asks no result.  Some messages are taken, or
\* none when the kernel has no room or there are none.
Sends(c) ==
    \E n \in 0 .. Len(queue[c]) :
        /\ Len(wire[c]) + n <= Room
        /\ n = 0 => queue[c] = <<>> \/ Len(wire[c]) = Room
        /\ wire'  = [wire EXCEPT ![c] = @ \o SubSeq(queue[c], 1, n)]
        /\ queue' = [queue EXCEPT ![c] = Unsent(@, n)]
        /\ UNCHANGED <<lost, holes>>

\* Or the send fails with another error than would_block, and the queue is cleared: the
\* connection was reset, or is now, by a peer that has closed it; or it stands, and the
\* system is short of buffers.
SendFails(c) ==
    /\ queue' = [queue EXCEPT ![c] = <<>>]
    /\ lost' = [lost EXCEPT ![c] = @ \/ (conn[c] = "closed" /\ queue[c] # <<>>)]
    /\ holes' = IF queue[c] # <<>> THEN [holes EXCEPT ![c] = @ \cup {"send"}] ELSE holes
    /\ UNCHANGED wire

Flush(c) ==
    \/ ~lost[c] /\ (conn[c] = "closed" => queue[c] = <<>>) /\ Sends(c)
    \/ (lost[c] \/ queue[c] # <<>>) /\ SendFails(c)

Handle(c) ==
    /\ cpc[c] = "result" /\ read_offset[c] = 0 /\ ~Stops(revents[c])
    /\ read_offset' = [read_offset EXCEPT ![c] = 1]
    /\ IF "writable" \in revents[c] THEN Flush(c) ELSE UNCHANGED <<queue, lost, wire, holes>>
    /\ cpc' = [cpc EXCEPT ![c] = "poll"]
    /\ UNCHANGED <<revents, conn, gone, server>>

-----------------------------------------------------------------------------
(* server(). *)

Pending == {c \in Clients : conn[c] = "pending"}

\* The accept loop goes round once more, or ends.
Touch ==
    /\ spc = "touch"
    /\ IF Pending # {} THEN spc' = "accept" /\ UNCHANGED it
                       ELSE spc' = "pass" /\ it' = 1
    /\ UNCHANGED <<client, kernel, clients, buf, printed, holes>>

AcceptClient ==
    /\ spc = "accept" /\ spc' = "touch"
    /\ \E c \in Pending :
          /\ conn' = [conn EXCEPT ![c] = "accepted"]
          /\ clients' = Append(clients, c)
    /\ UNCHANGED <<client, gone, lost, wire, it, buf, printed, holes>>

\* accept() hands out an invalid socket: the connection is gone since touch(), or the
\* process can open no more descriptors and it goes on waiting.
AcceptFails ==
    /\ spc = "accept" /\ spc' = "touch"
    /\ UNCHANGED <<client, kernel, clients, it, buf, printed, holes>>

\* Or the new socket cannot be made non-blocking, and is closed.
AcceptCloses ==
    /\ spc = "accept" /\ spc' = "touch"
    /\ \E c \in Pending :
          /\ conn' = [conn EXCEPT ![c] = "closed"]
          /\ wire' = [wire EXCEPT ![c] = <<>>]
    /\ UNCHANGED <<client, gone, lost, clients, it, buf, printed, holes>>

Visits(c) == spc = "pass" /\ it <= Len(clients) /\ clients[it] = c
Closed(c) == lost[c] \/ gone[c]

\* Mutant: a single message is not enough to print.
PrintsMany(r) == r > 1

Prints(r) == r # 0

\* Mutant: receive().clear() is left out.
NotCleared(received) == received

BufAfterPrinting(received) == <<>>

\* What tick(true, false) takes when it meets no end: all there is, or, at the limit, as
\* much as a last chunk below it leaves, and the chunk read after that is dropped.
Takes(c) ==
    LET w == Len(wire[c])
    IN  {take \in [got : 1 .. 2 * ByteLimit - 1, dropped : 0 .. ByteLimit] :
            /\ take.got + take.dropped <= w
            /\ IF take.dropped = 0 THEN take.got = w /\ ~Closed(c) ELSE take.got >= ByteLimit}

\* The result is ok: the buffer is printed and cleared, and the iterator stays where it is.
Tick(c) ==
    /\ Visits(c)
    /\ \E take \in Takes(c) :
          LET received == buf[c] \o SubSeq(wire[c], 1, take.got)
          IN  /\ wire' = [wire EXCEPT ![c] = SubSeq(@, take.got + take.dropped + 1, Len(@))]
              /\ IF Prints(take.got)
                 THEN /\ printed' = [printed EXCEPT ![c] = @ \o received]
                      /\ buf' = [buf EXCEPT ![c] = BufAfterPrinting(received)]
                 ELSE /\ buf' = [buf EXCEPT ![c] = received]
                      /\ UNCHANGED printed
              /\ holes' = IF take.dropped = 0 THEN holes
                          ELSE [holes EXCEPT ![c] = @ \cup {"limit"}]
    /\ UNCHANGED <<client, conn, gone, lost, spc, clients, it>>

\* The result is not ok: the client is erased, with whatever the same tick has read.
EraseClient(c) ==
    /\ Visits(c)
    /\ clients' = RemoveAt(clients, it)
    /\ conn' = [conn EXCEPT ![c] = "closed"]
    /\ wire' = [wire EXCEPT ![c] = <<>>] /\ buf' = [buf EXCEPT ![c] = <<>>]
    /\ UNCHANGED <<client, gone, lost, spc, it, printed, holes>>

\* The tick meets the end of the connection.
Erase(c) == Closed(c) /\ Len(wire[c]) < 2 * ByteLimit /\ EraseClient(c)

PassEnds ==
    /\ spc = "pass" /\ it > Len(clients)
    /\ spc' = "touch"
    /\ UNCHANGED <<client, kernel, clients, it, buf, printed, holes>>

-----------------------------------------------------------------------------
(* The network, and whoever stops a client or the server. *)

\* A connection that is reset while it waits to be accepted may vanish.
Reset(c) ==
    /\ conn[c] \in {"pending", "accepted", "closed"} /\ ~lost[c]
    /\ lost' = [lost EXCEPT ![c] = TRUE] /\ wire' = [wire EXCEPT ![c] = <<>>]
    /\ \/ UNCHANGED conn
       \/ conn[c] = "pending" /\ conn' = [conn EXCEPT ![c] = "closed"]
    /\ UNCHANGED <<client, gone, server, holes>>

\* A recv() of the server fails on a connection that stands.
ReceiveFails(c) == conn[c] = "accepted" /\ ~Closed(c) /\ EraseClient(c)

Kill(c) ==
    /\ cpc[c] \in {"poll", "result"}
    /\ Ends(c, "killed")
    /\ UNCHANGED <<queue, revents, read_offset, conn, lost, wire, server, holes>>

StopServer ==
    /\ spc # "ended" /\ spc' = "ended"
    /\ conn' = [c \in Clients |-> IF conn[c] = "accepted" THEN "closed" ELSE conn[c]]
    /\ lost' = [c \in Clients |-> lost[c] \/ conn[c] = "pending"]
    /\ wire' = [c \in Clients |-> <<>>]
    /\ UNCHANGED <<client, gone, clients, it, buf, printed, holes>>

ClientRuns(c) == poll(c) \/ Break(c) \/ Handle(c)
Accepting == Touch \/ AcceptClient \/ AcceptFails \/ AcceptCloses
ServerRuns == Accepting \/ PassEnds \/ \E c \in Clients : Tick(c) \/ Erase(c)

Next ==
    \/ ServerRuns \/ StopServer
    \/ \E c \in Clients :
          Start(c) \/ ClientRuns(c) \/ Reset(c) \/ ReceiveFails(c) \/ Kill(c)

\* Both loops run on; nobody has to start, to be stopped or to lose a connection.
Spec == Init /\ [][Next]_vars /\ WF_vars(ServerRuns) /\ \A c \in Clients : WF_vars(ClientRuns(c))

-----------------------------------------------------------------------------
\* A client that runs on a connection that stands.
Stands(c) == conn[c] \in {"pending", "accepted"} /\ ~Closed(c)

Received(c) == printed[c] \o buf[c]
Flow(c) == Received(c) \o wire[c] \o queue[c]

\* The first messages of a client, in order: Msgs or a beginning of it.
FirstMessages(s) == \A i \in DOMAIN s : s[i] = i

\* While a connection stands, what is printed, received, on its way and enqueued are the
\* client's messages, each once and in order.  Two things lose some all the same: a send
\* that fails, whose result client() does not ask for (main.cpp:115), loses the end of
\* the queue and nothing before it; and the chunk a tick reads past its limit is gone.
StandingLosesNothing ==
    \A c \in Clients : Stands(c) /\ "limit" \notin holes[c] =>
        /\ FirstMessages(Flow(c))
        /\ Len(Flow(c)) # Messages => "send" \in holes[c] /\ queue[c] = <<>>

\* Whatever fails, on either side, and also after the end of a connection: what the
\* server prints of a client are messages of that client, none twice and in the order in
\* which they were enqueued, and without a gap unless a tick went past its limit.
PrintedInOrder ==
    \A c \in Clients :
        /\ \A i \in DOMAIN printed[c] : printed[c][i] \in 1 .. Messages
        /\ \A i, j \in DOMAIN printed[c] : i < j => printed[c][i] < printed[c][j]
        /\ "limit" \notin holes[c] => FirstMessages(printed[c])

\* The accept loop goes round and round about a connection that it cannot accept.
AcceptSpins == spc \in {"touch", "accept"} /\ Pending # {}

\* Nothing keeps a message that was not lost from being printed, as long as the
\* connection stands, but a server that stays for ever at another client, which it does
\* as long as that one is open, or in its accept loop (main.cpp:47-52).
HeardUnlessStarved ==
    \A c \in Clients :
        <>[](Stands(c) /\ (queue[c] # <<>> \/ wire[c] # <<>> \/ buf[c] # <<>>))
            => \/ <>[](spc = "pass" /\ it <= Len(clients) /\ clients[it] # c)
               \/ <>[]AcceptSpins

\* A client stops if, and only if, its connection is reset or the server closes it; it
\* never runs out of poll results.  (One that was never connected does not stop.)
NoticesTheEnd ==
    \A c \in Clients :
        /\ (cpc[c] # "off" /\ (lost[c] \/ conn[c] = "closed")) ~> (cpc[c] \in {"ended", "killed"})
        /\ [](cpc[c] = "ended" => lost[c] \/ conn[c] = "closed")
=============================================================================
