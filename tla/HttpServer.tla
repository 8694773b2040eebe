----------------------------- MODULE HttpServer -----------------------------
(***************************************************************************)
(* The endless loop of http_server(): accept every waiting connection, then *)
(* tick each client of the list once, answer at most one complete request  *)
(* of its receive buffer, and erase it if the tick reported anything but   *)
(* ok.  One thread; the clients and the TCP stack interleave with it.      *)
(*                                                                         *)
(* A request arrives in two pieces, 2r-1 and 2r for the r-th request of a  *)
(* connection, the second of which ends with the blank line that the loop  *)
(* searches for.  The response of http_process() to it is named r, and     *)
(* counts as sent once its last byte is.  What a tick does byte by byte is *)
(* StreamSocket's business: here it reads all that has arrived (less than  *)
(* the byte limit) and sends what fits.                                    *)
(***************************************************************************)
EXTENDS Naturals, Sequences, SequencesExt

CONSTANTS
    Clients,        \* connections that may be made
    MaxOpen,        \* connections the process can hold open at a time
    Room,           \* responses a client's socket holds that it has not read
    MaxRequests     \* bound: for each connection, the requests made on it

ASSUME LimitsAssumption ==
    MaxOpen \in Nat /\ Room \in Nat \ {0} /\ MaxRequests \in [Clients -> Nat]

VARIABLES
    pc,         \* where the loop stands
    clients,    \* the list, as a sequence of connections
    it,         \* the iterator, as a position in the list
    result,     \* result of the current client's tick
    buf,        \* receive buffer of each client: pieces
    out,        \* queued responses of each client
    backlog,    \* connections that wait to be accepted
    conn,       \* none, waiting, open, closed
    peer,       \* what the client did to the connection: open, fin, rst
    sent,       \* pieces the client has sent
    arrived,    \* pieces received by the kernel, not yet by recv()
    delivered,  \* responses handed to the kernel
    read,       \* how many of those the client has read
    ticked,     \* history: clients ticked in this pass, in order
    served      \* history: clients of which a request was answered in this pass

loopVars   == <<pc, clients, it, result>>
streamVars == <<buf, out>>
kernVars   == <<backlog, conn, peer, sent, arrived, delivered, read>>
passVars   == <<ticked, served>>
vars       == <<loopVars, streamVars, kernVars, passVars>>

Init ==
    /\ pc = "touch" /\ clients = <<>> /\ it = 1 /\ result = "ok"
    /\ buf = [c \in Clients |-> <<>>] /\ out = [c \in Clients |-> <<>>]
    /\ backlog = <<>> /\ conn = [c \in Clients |-> "none"]
    /\ peer = [c \in Clients |-> "open"] /\ sent = [c \in Clients |-> 0]
    /\ arrived = [c \in Clients |-> <<>>] /\ delivered = [c \in Clients |-> <<>>]
    /\ read = [c \in Clients |-> 0]
    /\ ticked = <<>> /\ served = {}

-----------------------------------------------------------------------------
(* while (server.touch()) server.accept() *)

Touch ==
    /\ pc = "touch"
    /\ IF backlog # <<>>
       THEN pc' = "accept" /\ UNCHANGED served
       ELSE pc' = "scan" /\ served' = {}
    /\ UNCHANGED <<clients, it, result, streamVars, kernVars, ticked>>

AcceptClient ==
    /\ pc = "accept" /\ pc' = "touch"
    /\ backlog # <<>> /\ Len(clients) < MaxOpen
    /\ clients' = Append(clients, Head(backlog)) /\ backlog' = Tail(backlog)
    /\ conn' = [conn EXCEPT ![Head(backlog)] = "open"]
    /\ UNCHANGED <<it, result, streamVars, peer, sent, arrived, delivered, read, passVars>>

\* accept() hands out an invalid socket: the connection is gone since touch(), or
\* the process can open no more.  The connection then goes on waiting.
AcceptFails ==
    /\ pc = "accept" /\ pc' = "touch"
    /\ backlog = <<>> \/ Len(clients) >= MaxOpen
    /\ UNCHANGED <<clients, it, result, streamVars, kernVars, passVars>>

-----------------------------------------------------------------------------
(* for (it = clients.begin(); it != clients.end(); ) *)

Current == clients[it]

Visit ==
    /\ pc = "scan" /\ it <= Len(clients) /\ pc' = "receive"
    /\ ticked' = Append(ticked, Current)
    /\ UNCHANGED <<clients, it, result, streamVars, kernVars, served>>

PassEnds ==
    /\ pc = "scan" /\ it > Len(clients) /\ pc' = "touch"
    /\ it' = 1 /\ ticked' = <<>>
    /\ UNCHANGED <<clients, result, streamVars, kernVars, served>>

\* What the receive half of a tick reports, once it has read all that arrived.
ReceiveResult(c) ==
    CASE peer[c] = "open" -> "ok"
      [] peer[c] = "fin"  -> "graceful_close"
      [] peer[c] = "rst"  -> "error"

\* The receive half of tick(true, true, &result).
TickReceives ==
    /\ pc = "receive"
    /\ result' = ReceiveResult(Current)
    /\ pc' = IF result' = "ok" THEN "flush" ELSE "handle"
    /\ buf' = [buf EXCEPT ![Current] = @ \o arrived[Current]]
    /\ arrived' = [arrived EXCEPT ![Current] = <<>>]
    /\ UNCHANGED <<clients, it, out, backlog, conn, peer, sent, delivered, read, passVars>>

Fits(c) ==
    LET free == Room - (Len(delivered[c]) - read[c])
    IN  IF Len(out[c]) <= free THEN Len(out[c]) ELSE free

\* The flush half of the tick.
TickFlushes ==
    /\ pc = "flush" /\ pc' = "handle"
    /\ out[Current] = <<>> \/ peer[Current] # "rst"
    /\ LET n == Fits(Current)
       IN  /\ delivered' = [delivered EXCEPT ![Current] = @ \o SubSeq(out[Current], 1, n)]
           /\ out' = [out EXCEPT ![Current] = SubSeq(@, n + 1, Len(@))]
    /\ UNCHANGED <<clients, it, result, buf, backlog, conn, peer, sent, arrived, read, passVars>>

\* The send fails: the connection was reset since the receive half, or the system
\* is short of buffers.
TickFails ==
    /\ pc = "flush" /\ pc' = "handle"
    /\ out[Current] # <<>>
    /\ out' = [out EXCEPT ![Current] = <<>>] /\ result' = "error"
    /\ UNCHANGED <<clients, it, buf, kernVars, passVars>>

\* Mutants: a request is found only when more follows it; it stays in the buffer.
FoundBeforeMore(c) == Len(buf[c]) > 2
BufUnchanged(c) == buf[c]

\* The search for the blank line, and the buffer without what it ends.
FoundRequest(c) == Len(buf[c]) >= 2
BufAfterRequest(c) == SubSeq(buf[c], 3, Len(buf[c]))

\* One request is taken out of the buffer and its response is queued, whatever the
\* tick reported.
Handle ==
    /\ pc = "handle" /\ pc' = "advance"
    /\ IF FoundRequest(Current)
       THEN /\ out' = [out EXCEPT ![Current] = Append(@, buf[Current][2] \div 2)]
            /\ buf' = [buf EXCEPT ![Current] = BufAfterRequest(Current)]
            /\ served' = served \cup {Current}
       ELSE UNCHANGED <<streamVars, served>>
    /\ UNCHANGED <<clients, it, result, kernVars, ticked>>

\* Mutants: the iterator also moves on after an erase; only a failed connection is
\* erased.
NextAfterErase == it + 1
OnlyFailed(r) == r = "error"

\* clients.erase(it) returns the iterator of the client that followed.
AfterErase == it
Disconnected(r) == r # "ok"

EraseClient ==
    /\ pc = "advance" /\ pc' = "scan"
    /\ Disconnected(result)
    /\ clients' = RemoveAt(clients, it) /\ it' = AfterErase
    /\ conn' = [conn EXCEPT ![Current] = "closed"]
    /\ buf' = [buf EXCEPT ![Current] = <<>>] /\ out' = [out EXCEPT ![Current] = <<>>]
    /\ arrived' = [arrived EXCEPT ![Current] = <<>>] /\ result' = "ok"
    /\ UNCHANGED <<backlog, peer, sent, delivered, read, passVars>>

KeepClient ==
    /\ pc = "advance" /\ pc' = "scan"
    /\ ~Disconnected(result)
    /\ it' = it + 1
    /\ UNCHANGED <<clients, result, streamVars, kernVars, passVars>>

-----------------------------------------------------------------------------
(* The clients. *)

Connect(c) ==
    /\ conn[c] = "none" /\ conn' = [conn EXCEPT ![c] = "waiting"]
    /\ backlog' = Append(backlog, c)
    /\ UNCHANGED <<loopVars, streamVars, peer, sent, arrived, delivered, read, passVars>>

Alive(c) == conn[c] \in {"waiting", "open"}

Send(c) ==
    /\ Alive(c) /\ peer[c] = "open" /\ sent[c] < 2 * MaxRequests[c]
    /\ sent' = [sent EXCEPT ![c] = @ + 1]
    /\ arrived' = [arrived EXCEPT ![c] = Append(@, sent'[c])]
    /\ UNCHANGED <<loopVars, streamVars, backlog, conn, peer, delivered, read, passVars>>

Read(c) ==
    /\ Alive(c) /\ peer[c] # "rst" /\ read[c] < Len(delivered[c])
    /\ read' = [read EXCEPT ![c] = @ + 1]
    /\ UNCHANGED <<loopVars, streamVars, backlog, conn, peer, sent, arrived, delivered, passVars>>

Shutdown(c) ==
    /\ Alive(c) /\ peer[c] = "open" /\ peer' = [peer EXCEPT ![c] = "fin"]
    /\ UNCHANGED <<loopVars, streamVars, backlog, conn, sent, arrived, delivered, read, passVars>>

\* A reset discards what recv() has not taken, and a connection that is reset while
\* it waits may vanish from the backlog.
Reset(c) ==
    /\ Alive(c) /\ peer[c] # "rst" /\ peer' = [peer EXCEPT ![c] = "rst"]
    /\ \/ UNCHANGED <<backlog, conn>>
       \/ \E i \in 1 .. Len(backlog) :
             /\ backlog[i] = c /\ backlog' = RemoveAt(backlog, i)
             /\ conn' = [conn EXCEPT ![c] = "closed"]
    /\ arrived' = [arrived EXCEPT ![c] = <<>>]
    /\ UNCHANGED <<loopVars, streamVars, sent, delivered, read, passVars>>

-----------------------------------------------------------------------------
Accepting == Touch \/ AcceptClient \/ AcceptFails

Serving ==
    \/ Visit \/ PassEnds \/ TickReceives \/ TickFlushes \/ TickFails
    \/ Handle \/ EraseClient \/ KeepClient

Server == Accepting \/ Serving

ClientSteps == \E c \in Clients : Connect(c) \/ Send(c) \/ Read(c) \/ Shutdown(c) \/ Reset(c)

Next == Server \/ ClientSteps

Spec == Init /\ [][Next]_vars

\* The loop runs on, and a client that is sent a response reads it.  No client is
\* obliged to connect, to finish a request, or to close.
FairSpec == Spec /\ WF_vars(Server) /\ \A c \in Clients : WF_vars(Read(c))

-----------------------------------------------------------------------------
Requests(c) == 1 .. MaxRequests[c]

\* A client gets the responses to its requests in order, each once: what was sent
\* and what is queued are the responses to its first requests, however the
\* requests were cut into pieces or piled up (http_server, lines 403-413).
\* A failed flush may leave later responses queued, but they never leave the queue.
AnswersInOrder ==
    \A c \in Clients :
        LET answers == delivered[c] \o (IF pc = "scan" THEN out[c] ELSE <<>>)
        IN  answers = [i \in 1 .. Len(answers) |-> i]

\* A pass ticks every client of the list once and in the order of the list, though
\* clients are erased under the iterator (lines 399-421): the iterator is at most at the
\* end, and the clients before it are those that were ticked and are still open, in the
\* order in which they were ticked.
TicksEachOnce ==
    pc = "scan" =>
        /\ it <= Len(clients) + 1
        /\ IsInjective(ticked)
        /\ {clients[i] : i \in 1 .. it - 1} = {c \in Range(ticked) : conn[c] = "open"}
        /\ \A i, j \in 1 .. it - 1, m, n \in DOMAIN ticked :
              i < j /\ ticked[m] = clients[i] /\ ticked[n] = clients[j] => m < n

\* The accept loop finds a connection waiting that it cannot accept: it spins, and
\* serves nobody, until that connection is reset.
AcceptSpins == pc \in {"touch", "accept"} /\ backlog # <<>> /\ Len(clients) >= MaxOpen

\* Every complete request is answered, unless the client closes its side or the
\* connection fails, or the accept loop spins.
RequestsAnswered ==
    \A c \in Clients : \A r \in Requests(c) :
        sent[c] >= 2 * r ~>
            Len(delivered[c]) >= r \/ peer[c] # "open" \/ conn[c] = "closed" \/ AcceptSpins

\* Every client that closed or reset its connection is erased from the list, unless
\* the accept loop spins.
ClientsReleased ==
    \A c \in Clients :
        conn[c] = "open" /\ peer[c] # "open" ~> conn[c] = "closed" \/ AcceptSpins
=============================================================================
