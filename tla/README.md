# Verification of banker

banker is a C++ networking library (non-blocking TCP streams, packets, packet
encryption, a hash map, containers for clients) and a few programs built on it, among
them an HTTP file server. This directory holds TLA+ models of it, the TLC
configurations that check them, and proofs checked by TLAPS. Paths below are relative
to the repository; `core/` stands for `include/banker/core/networker/core/`.

The POSIX branch of `socket::sendv` does not compile (`core/socket/socket.hpp:360`
stores a `const void*` into `iov_base`), so the models follow the Windows build.

## Inventory

| Component | State | Operations | Interacts with | What is hard | Correct when |
|---|---|---|---|---|---|
| `stream_socket` (`core/stream_socket/`) | receive buffer, queue of out buffers, offset into the first | `enqueue`, `tick(readable, writable)`, `receive` | the kernel at every `recv` and `sendv`; the owner's loop | bytes arriving between two calls of one tick, partial vectored writes, errors with data queued, close vs. empty send | bytes keep order, none is repeated; every loss is reported; queued bytes get out |
| `tcp_operations` (`core/tcp/`) | none; the caller's vectors and offset | reads and writes that return a `request_result` | socket, its caller | resuming a vectored write in the middle of a vector | the caller's account equals what the kernel took |
| `packet` (`core/packet/`) | byte vector, read offset | `write`, `read`, `write_to_front`, `clear`, `serialize_*`, `deserialize` | stream buffers, `crypto_core` | nested reads that share an offset, underflow, headers cut by chunk limits | what is read is what was written; packets come out whole and in order |
| `crypto_core`, `crypter` | one counter per direction | `encrypt_packet`, `decrypt_packet`, nonces, increments | packet, the AEAD of the vendored monocypher | counters in step with what arrives | only what was sent is decrypted, in order |
| `handshake`, `crypto_rng` | key pair, shared secret, its validity | construction, `generate_shared_secret`, moves, wipe | monocypher, the system's random source | a random source that fails, a moved-from handshake, stale public keys | two ends share a secret exactly when each used the other's key; no key stays behind |
| `socket` (`core/socket/socket.hpp`) | a descriptor | create, bind, listen, connect, accept, send, recv, close, moves | the system | ownership through moves and temporaries, factories that fail half-way, close in the destructor | each descriptor has one owner and is closed by it; none blocks |
| `poll_group` (`core/socket/polling.hpp`) | descriptors, read offset | `add`, `reset`, `poll`, `next_result` | sockets | 16-bit offset, results that are stale | each polled socket is reported once |
| `robin_map` (`common/hash/robin_hash.hpp`) | slots, count, mask | `insert`, `find`, `erase`, `clear`, `_resize` | its owner | displacement, backward shift, resize inside an insert, width of the distance | it is a map; its loops end |
| `stable_storage`, `dense_storage` | items, two index tables | `add`, `remove`, `get`, `raw_at` | server code | swap with the last on remove | an item follows its id, and nothing else moves |
| `http_server()` (`src/http_server.hpp`) | list of clients | accept, tick, find a request, answer, erase | `stream_socket`, the file system, browsers | erase under an iterator, pipelined and cut requests, half-closing clients, accept that cannot succeed | each request is answered once and in order; closed clients are released |
| `http_process()` and the listing | none | parse, look up, answer, list | the file system, which changes beside it | up to five looks at one path; encoding and padding of names | every part of an answer was true; links lead back |
| `server()`, `client()` (`src/main.cpp`) | list of clients; poll group | accept, tick, print | `stream_socket` | the iterator of `server()` does not move past an open client; connections end at any moment | messages are printed once and in order; a client notices the end |
| `error.hpp` | none | maps system error codes | `tcp_operations` | - | a table |

Everything else is formatting, clocks, logging, the test runner, vendored cryptography,
`variant_buffer` (unused), `stream_server.hpp` (includes a file that is gone) and
`old/` (commented out). None of it is modelled. Every component here is used by one
thread; what runs beside it are the kernel, the peers and the file system.

`PROJECT.json` lists the hazards of this code line by line, with the properties that
watch them.

## Modules

### StreamSocket, OrderedStream

`StreamSocket` models `stream_socket` with the functions of `stream_socket_core` and
`stream_transmit_buffer`. The thread's place in `tick()` is `pc`; each return of
`recv()` is an action (`RecvChunk`, `RecvPastLimit`, `RecvWouldBlock`, `RecvClosed`,
`RecvError`), `sendv()` copies one vector per action (`CopyWhole`, `CopyPart`) and each
round of the loop that pops sent buffers is one (`Account`). `Arrive`, `PeerFin`,
`PeerReset` and `PeerDrain` of the kernel and the peer interleave with all of them.
`Enqueue` and `Consume` are the application's, between ticks. A byte is its place in
its stream, so order, repetition and loss are visible.

`OrderedStream` is the promise: bytes come out in order and at most once, and runs of
them may be lost. `StreamSocket` implements it in each direction
(`InboundIsOrderedStream`, `OutboundIsOrderedStream`).

### VectoredWrite

`request_write_vectorized_auto`, with the caller its comment describes: it drops the
vectors reported as written and hands `partial_offset` back. Vectors are lengths.

### StableStorage, IdMap, DenseStorage and RobinHash, KeyMap

`StableStorage` has the three containers and the id counter of `stable_storage` and
one action per method; positions count from 1. `IdMap` is the map it implements.
`DenseStorage` models `dense_storage`, whose `remove()` moves the last item to the
removed index and tells nobody; `stable_storage` moves its items in the same way
(`IsDense`) and is what an owner needs on top of that: tables that follow the move.

`RobinHash` has the table of `robin_map` and runs its loops one round per step
(`ProbeEmpty`, `ProbeSame`, `ProbeNext`, `ShiftBack`, `ShiftDone`); `_resize` queues the
old entries in front of the item whose insert called it, in the order in which the code
inserts them. `KeyMap` is the map it implements; an operation in progress counts as
done.

### HttpServer

The loop of `http_server()`: `Touch`, `AcceptClient` and `AcceptFails` are the accept
loop, `Visit` to `KeepClient` the pass over the list with its iterator. A tick is
two steps, `TickReceives` and `TickFlushes` or `TickFails`, between which clients act;
what it does byte by byte is StreamSocket's business. A request is two pieces, so
that it can arrive in parts and requests can pile up; the response of `http_process()`
carries the request's number. What ends the server, a look that throws or a padding that
overflows, is a step of HttpProcess and not of this module: it speaks of a server that runs.

### HttpProcess

`http_process()` and the listing, for one request at a time. Each call that asks the
file system (`exists`, `is_directory`, the directory iterator, and the `exists` and
`is_directory` of the status and of a download) is an action, and `Change` is what other
programs do between them. A look of `exists` or `is_directory` may throw
(`LookThrows`), which ends the server, because nothing catches it. A file is opened
(`Open`), read a piece at a time (`ReadPiece`) and ended (`ReadEnds`); neither the opening nor
the reading is checked, so either may fail and the function goes on. `file` is what the
open stream reads: it stays when the path gets another file, and changes when the file
is rewritten in place. The URL
functions, the paths, the links and the padding are operators on sequences of
characters; they are computed in full, because the properties are about them. A path has
one spelling: a target with `//` or `/./` in it finds nothing. `seen` is
history: what the path was since the request was accepted.

### MainLoops

`server()` and `client()` of `main.cpp`, several clients against one server. `poll`,
`Break` and `Handle` are the rounds of a client's loop around a `poll_group` of one
socket, with its `_read_offset`. `Touch`, `AcceptClient`, `AcceptFails` and `AcceptCloses`
are the server's accept loop, `Tick`, `Erase` and `PassEnds` its pass, with its iterator,
which `Tick` leaves where it is. A tick is one step here. `Takes` is what it may take: all
there is, or, at `ByteLimit`, a part, and then the chunk read next is dropped. `Flush` is
`client()`'s tick, of which it asks no result: it sends (`Sends`) or fails and clears the queue
(`SendFails`), also on a connection that stands; `ReceiveFails` is a `recv()` that fails
on one. `Reset`, `Kill` and `StopServer` end connections at any moment, and a
connect may be refused, which `client()` does not ask about. `holes` is history: by which of
the two ways, a failed send or the limit, messages of a client were lost.

### SocketHandles

Which object holds which descriptor. `Streams` and `Acceptors` are the program's
objects, `Local` and `Returned` the local and the result of a running factory.
`Create`, `Accept` and `AcceptedByFactory` start a constructor; `CallSucceeds` and
`CallFails` are the calls the factory then makes (`Setup`), each of which may fail;
`Constructed` is the move assignment at the end of the constructor. `close`, `Destroy`
and the two moves may come in any order between them. The system hands a closed
descriptor out again, so a second owner would meet a stranger's connection. `dropped`
and `unclosed` are history. The destructor is one step, since
only the first call of `close()` in its loop can reach the system.

### Handshake

The memory of each `handshake`, also while none lives there. `Construct` draws a key or,
where the random source fails, none; `Move` is both moves, with their wipes;
`generate_shared_secret` takes any public key that was ever handed out. A private key
is a model value, a public key the set of it, a secret the hash of the unordered pair.

### Packet

The byte vector and the read offset. Bytes are cells below `Radix`: a `uint32_t` takes two
and a character one, because `read` compares a vector's element count with bytes; a
length that does not fit two cells wraps, as the cast to `uint32_t` does. `read` is
one action for each kind, with and without a `valid` pointer. Three variables are history.
`unread` is what is in the packet and was not read: items, and the cells that reads leave
behind or meet again (`Rest`), which are the body of an embedded packet that was read,
and two cells after a `write_to_front` that follows a read. `ahead` is the offset that `clear`
left. `strayed` says that a read asked for another type than what came next; after that
the bytes have no meaning that the program gave them.

### PacketChannel

Sender and receiver of encrypted packets as the round trip of `encryption_tests.hpp`
puts them together, over a stream like StreamSocket's: chunks of any size in order, of
which `receive()` may lose one past its limit. `deserialize`, the header and the layout
of the packet are the code's. Ciphertext and mac are symbolic and the AEAD is ideal;
a length that is read from such bytes may be any number. The counters are incremented
when a packet was encrypted or decrypted: no code in the repository calls the increments
yet, so when they are called is the model's reading of what they are for.

## Runs

| Run | Checks | Bounds, and why they suffice |
|---|---|---|
| StreamSafety | both refinements, `OutboundConserved`, `OffsetInside`, `GapShape`, `LossIsReported` | all four pairs of flags, limit 2, kernel buffer 2, buffers of 0 to 2 bytes, two queued: writes that end inside a buffer, at its end and in the second one, and a chunk past the limit all happen; a second such chunk does not fit, and is the business of theorem `OneChunkLost` |
| SocketHandles | `OneOwner`, `NoLeak`, `NeverBlocks` | two stream sockets, two acceptors, three descriptors: moves in both directions, descriptors handed out again while others wander |
| StreamLive | `OutboundProgress`, `InboundProgress`, `InboundGapless` | the server's mode, a kernel buffer of 1 so that every flush is partial |
| Containers | of StableStorage `IsIdMap`, `IsDense`, `IndicesInverse` | 5 ids: removal of the first, a middle, the last and the only item |
| | of RobinHash `IsKeyMap`, `RobinHoodOrder`, `FindsEveryKey`, `RoomLeft`, `OperationsReturn` | tables of 4, 8 and 16 slots, keys that collide at one size and part at the next, clusters that wrap around the end |
| HttpServer | `AnswersInOrder`, `TicksEachOnce`, `RequestsAnswered`, `ClientsReleased` | three clients, one with two pipelined requests; two may be open, so a connection waits while others are served; a socket holds one unread response |
| HttpProcess | `AnswerWasTrue`, `LinksLeadBack`, `OnlyEscapesOverflow` | a path with an entry in it that may be a file, a directory or missing, and names with `+`, `%25` and `&`; five targets, each with and without `?download=1`; two contents, between which a file can be rewritten while its pieces are read; every tree they can form, changing between any two looks |
| MainLoops | `StandingLosesNothing`, `PrintedInOrder`, `HeardUnlessStarved`, `NoticesTheEnd` | two clients, so that one can starve behind the other or in the accept loop; two messages and a limit of one, so that a tick passes its limit; a message printed behind one that was lost needs a third, and is the business of theorem `PrintsInOrder` |
| PacketsAndKeys | of Packet `OffsetAtNextItem`, `ReadsWhatWasWritten` | every kind, among them nested vectors and an empty packet, 10 cells, which hold up to four items |
| | of Handshake `Agreement`, `ValidSecretIsOwn`, `OneHome` | three handshakes and three keys: two that agree and a third whose key is stale or moved |
| PacketChannel | `DeliveredInOrder`, `EverythingArrives` | three packets, an empty one anywhere, chunks of 1 to 4 cells against packets of 5 to 7: chunks end in headers and bodies and span packets |
| VectoredWrite | `AccountMatchesWire`, a finding | four vectors, one of them empty |
| PacketClear, PacketEmbedded | `ClearsFully`, `ReadsMoveForward`, findings | the packets of PacketsAndKeys |

Containers and PacketsAndKeys each check two models at once (`MCContainers`,
`MCPacketsAndKeys`). The two share no variable, and no property speaks of both,
so only one of them moves in a behaviour (`moving` says which): the run has every
behaviour of either, and the sum of their states instead of the product. The modules
list the actions of both one by one, so that TLC reports of each how often it was taken.

Every `Max...` constant is a bound of the model; `ByteLimit`, `SndBuf`, `Window`,
`Room` and `MaxOpen` are sizes of the real system, scaled down.
Deadlock is not checked where the caller simply stops (VectoredWrite, PacketsAndKeys,
PacketClear, PacketEmbedded, PacketChannel) or where all clients and the server may have ended (MainLoops); the
others must always have a step.

### Fairness

StreamSocket: the owner's loop ticks for ever and the thread runs on (`Call`,
`Receive`, `Flush`), and the network drains the send buffer (`PeerDrain`). RobinHash:
an operation that was called goes on. HttpServer: the loop goes on, and a client reads
what it is sent; no client has to connect, finish a request or close. PacketChannel:
the receiver goes on reading its socket and its stream.
MainLoops: the server's loop and each client's loop run on; nobody has to start, to be
stopped or to lose a connection, no send, receive or accept has to fail or to succeed, and
the kernel delivers as long as it does not reset.
All of it is weak fairness of steps that stay enabled. In StreamSocket nothing obliges
the application to enqueue or consume, nor the peer to send.

## Where the code disagrees with its documentation

Three comments say something that the code does not do, each a property that its run
violates:

* `AccountMatchesWire`: `partial_offset` of `request_write_vectorized_auto` is not "the
  amount of bytes written from the last buffer" (`core/tcp/tcp_operations.hpp:148`) after a
  write that blocks, or that starts inside a vector (`:211`, `:196`). `stream_socket` does
  not use this function.
* `ClearsFully`: `clear()` "clears the packet fully" (`core/packet/packet.hpp:164`), but for
  the read offset (`:167`): what is written next is read from there.
* `ReadsMoveForward`: `read()` will "read from there and move it forward" (`:178`), but for an
  embedded packet, over whose bytes it does not move (`:227`).

Two more have no run of their own; the models do what the code does:

* The destructor "attempts to close the socket multiple times if errors occur"
  (`core/socket/socket.hpp:145`), but `close()` forgets the descriptor first (`:406`), and the
  other attempts have nothing to close. A failed close in SocketHandles leaves the descriptor
  open for good, and `NoLeak` names it (`unclosed`) as one of its two exceptions.
* `valid` of `read()` is set "depending on if thr read was successful" (`packet.hpp:182`),
  but every nested read sets it anew (`:187`), so that it tells of the last element of a
  vector. It shows only where data are read as another type than they were written as;
  `ReadsWhatWasWritten` speaks of the others.

What else the models do because the code does it, and no document denies:

* `receive()` calls `recv()` before it tests the byte limit, so the chunk received once
  the limit is reached is dropped and the result is ok
  (`core/stream_socket/stream_socket_core.hpp:103`). `GapShape` says that this is the
  only gap; `InboundGapless` is checked and proved for a peer that never has more than
  the limit outstanding.
* A queue of empty buffers makes `sendv()` return 0, which is read as a close (line 159).
* A receive that meets a close skips the flush of its tick (`stream_socket.hpp:81`).
* `acceptor::accept()` does not set the accepted socket non-blocking
  (`stream_socket.hpp:133`). `NeverBlocks` holds where accepted sockets inherit the mode
  (`AcceptInherits`), as on Windows, and says nothing elsewhere.
* Nothing keeps the probe distance below the 255 that `insert()` asserts
  (`robin_hash.hpp:84`); the model wraps it.
* A word written to the front of a packet that was read from is not read; the last two
  cells read are met again (`packet.hpp:286`). `OffsetAtNextItem` says so, as it says what
  an embedded packet and `clear()` leave, and that nothing else moves the offset away.
* A packet with an empty body is never deserialized and blocks the stream
  (`packet.hpp:75`), the escape of `EverythingArrives`.
* `Connection: close` is answered and the connection kept; a request that arrives with
  the close is answered into a queue that is dropped (`http_server.hpp:414`).
* The accept loop spins while `accept()` fails (`:389`), the escape of the two liveness
  properties of HttpServer.
* A file that cannot be opened or read is answered with a 200 and what was read of it,
  perhaps nothing (`http_server.hpp:339`), and one that is rewritten meanwhile with pieces of
  both contents; `AnswerWasTrue` says what such a body holds.
* A link of the listing encodes the entry's name and not the directory's (`:227`), which
  `LinksLeadBack` excepts; a name that grows when escaped makes the padding wrap and ends
  the server (`:236`), which `OnlyEscapesOverflow` says is the only cause; a look that
  throws ends it as well (`:328`).
* `server()` stays at an open client (`main.cpp:53`), and in its accept loop while `accept()`
  fails (`:47`), the two escapes of `HeardUnlessStarved`; a client whose connect failed polls
  for ever, which `NoticesTheEnd` excepts.
* `client()` does not ask its tick for a result (`main.cpp:115`): a send that fails on a
  standing connection loses the queue, and nobody is told. `StandingLosesNothing` names this
  and the chunk past the limit of `server()`'s tick as the only losses. Data that come in one
  tick with the close are dropped unprinted (`:58`).
* A handshake whose random source failed has a key of zeros (`crypter.hpp:129`); the
  properties of Handshake speak of random keys.
* A wiped handshake hands out the zero point, and all secrets made with it are equal
  (`crypter.hpp:191`), which `Agreement` excepts.

## Proofs

All theorems hold for every value of the constants that satisfies the named
assumptions, which say no more of the constants than what they stand for. Those about
StableStorage are in `StableStorageProofs`, and so on; those about Packet, PacketChannel and
Handshake are together in `PacketProofs`, those about StreamSocket and SocketHandles in
`SocketProofs`. `Joining` has the lemmas that others share: induction up to a number, from
the least element of what is missed, and how a joined sequence is made of its parts.

* StreamSocket, `TypeCorrect` and `OffsetStaysInside`. `remaining` and `offset` are
  unsigned; they stay naturals because the offset lies inside the first buffer, so
  the inductive invariant `TInv` joins the two with `KernelInv`, that the kernel holds
  at most its buffer and hands out what arrived.
* StreamSocket, `InboundOrder`: from `TInv`, each step maps to `Put`, `Deliver`, `Lose`
  or a stutter of `OrderedStream`.
* StreamSocket, `Gapless`: with `Window <= ByteLimit`, the inductive invariant `GInv`
  says that what was taken is what was delivered, and that the bytes counted by a
  running `receive()` are in the receive buffer. Then the limit is reached only when
  the window is exhausted and no chunk can follow.
* StreamSocket, `OneChunkLost`: `GapInv` says that when bytes were taken behind the last
  one delivered, they are one chunk, it came after a run of `ByteLimit` bytes, and the
  tick that lost it is over. What follows is a gap with that run before it, for good.
* StreamSocket, `OutboundOrder`, `Conserved` and `LossReported`. The history variable
  `gone` counts the bytes whose buffers have left the queue. `OutInv` says that the
  queue holds the bytes behind `gone`, cut into runs (`Cuts`: the places where buffers
  meet), and that the wire holds every byte that passed unless a queue was thrown away.
  Each step then puts bytes in, copies the next ones, or throws some away and says so
  (`OutEffect`), and the three theorems read that off.
* RobinHash, `SlotAlwaysFree`: the invariant `TInv` joins the count to the filled slots
  and the load factor to the items still waiting in a resize (`LoadInv`), without
  which a resize in progress could fill the table.
* RobinHash, `OrderIsKept`, `KeysAreFound` and `RobinMapImplementsMap`. What is inductive
  (`OInv`) is that an entry at distance d has d filled slots before it, none of them
  nearer to its home than this entry was when it passed (`Run`), and the same of the
  item in the hands of `insert()` (`ItemFits`); during a backward shift one slot is
  excepted (`Hole`). The order of neighbours, and that `find()` does not stop early, follow.
  The map is that of the table, the item in hand and the waiting ones together; a
  resize puts the old entries in front of the waiting item, which may replace one of
  them. All three suppose `[]Asserted`, the `assert(dist < 255)` of line 84, because
  the code does nothing when it fails. `AssertionHolds` discharges it for tables of up to
  256 slots (`Small`), whose load factor leaves no run of 255, and `SmallTableIsMap`
  states the three without it.
* StableStorage, `IndicesStayInverse` and `StorageImplementsIdMap`: the
  inductive invariant adds that live ids are below the counter (`FreshIds`), without
  which a new id could overwrite a live one.
* StableStorage, `StorageIsDense`: under the same invariant each step is a step of
  DenseStorage or leaves the items alone.
* Packet, `OffsetIsAtNextItem` and `ReadReturnsWhatWasWritten`, supposing `Fits`: the packet
  is shorter than a `uint32_t` counts, the one thing `write()` does not check. A length
  is read back because two cells hold every number below `Radix * Radix` (`WordCellsAre`,
  `ReadWordAt`); a vector because each element is read where the one before it ended
  (`Path`), by induction along the loop (`Induction`), and because its cells, none of its elements empty, leave at least as many
  bytes as it has elements (`PartsFit`), which is what `read` compares. What is
  inductive (`PInv`, `Stands`) is that the cells behind the offset are those of `unread` and,
  after a `clear`, that the offset is still `ahead` and the data are exactly what is in
  `unread`. A write adds cells at the end of that (`StandsAppended`), a read takes the first
  item's off (`NextItem`) or, of an embedded packet, leaves its body (`NextBody`), and a word in
  front shifts what is behind the offset by two cells (`BehindInFront`).
* PacketChannel, `TypeCorrect` and `Delivery`: `DeliveredInOrder` is not inductive. The
  invariant adds that every mac in the wire or the stream was computed over the message
  whose number it carries (`MacsFrom(Computed, ...)`). A text that decrypts under the
  receiver's counter is then the next message (`DecryptedIsSent`), wherever
  the receiver took the packet's start to be.
* SocketHandles, `SingleOwner`, `NothingLeaks` and `NonBlocking`. None is inductive alone:
  the invariant adds when the temporaries are alive (`Temporaries`) and that
  while a factory runs, `set_blocking` is done or still among its calls
  (`ModeIsSet`); the assumptions say that the objects, descriptors and marks are distinct.
* Handshake, `HandshakesAgree`, `SecretsAreOwn` and `KeysHaveOneHome`, for any number of
  handshakes and keys. The invariant adds that the public key belongs to the private one
  and that a random key in memory has been drawn (`KeysMatch`). `Agreement`
  follows from it without being inductive: two hashes of unordered pairs of different
  keys are equal only if the pairs are.
* HttpServer, `AnswersStayInOrder`: `Numbered` says that what is queued, buffered and
  arrived follows, without a gap, what was sent; it is given up when a flush fails, until
  the client is erased (`Failed`). `Lists` is needed for the erase: the list and the
  backlog hold a connection once, so an erased client is never ticked again. What the
  tick does to the four sequences of one client is proved apart from the state
  (`ReceiveFollows`, `FlushFollows`, `HandleFollows`, `SendFollows`). The assumption
  gives `Room` and `MaxRequests` their types.
* HttpServer, `PassesTickOnce`: `TickInv` says that the clients before the iterator
  are those ticked and not erased, in order (`Passed`), and that none was ticked
  twice; with the invariant of the other theorem, an erase moves the iterator to the
  next client and no other.
* HttpProcess, `AnswersAreTrue`: the invariant says, for each look of the function, what
  the branches taken so far have seen (`Branches`) and which parts of the answer are
  there (`Parts`); `Now \in seen` makes every look one of the history. While a stream is
  open (`Stream`), what its file holds, and every piece read of it, is a content the path
  had. Assumed are
  that the served directory is not one of the paths and that contents are neither `none`
  nor `dir`.
* HttpProcess, `EscapesOverflow`: the column is as wide as the longest name, so a name that
  escaping leaves alone fits. It needs that the paths are finitely many sequences,
  without which there is no longest name.
* HttpProcess, `LinksComeBack`: `DecodeEncoded` says that decoding undoes encoding for every
  text, by induction from its end: each character's part stands at a known
  place in the joined text (`JoinedParts`), no two characters have the same escape
  (`Escapes`), and the recursion of `url_decode` has a solution (`DecodingExists`).
  `EncodedHasNoMark` keeps a name from being taken for a query (`LinkLeadsTo`), and
  `ParentAndName` puts the entry's path together from the directory and the name. The
  invariant adds that a directory that is listed is one of the paths or the served
  directory itself (`Listing`). Assumed of the paths is that they are spelled as the file
  system spells them: not empty, no slash at the end, not starting with `./`.
* MainLoops, `NothingIsLost` and `PrintsInOrder`: neither is inductive. The invariant
  (`Sound`) says, of what is printed, received, on its way and queued taken together, that it
  rises; that it is the first messages without a gap while the connection stands and no tick
  passed its limit; and that, of such a connection, only a failed send shortens it, at the
  end. A send moves the cut between two of the parts (`CutQueue`), a tick past its limit
  takes a run out of the middle (`MiddleLost`), and what ends a connection leaves a front of
  it (`FrontOf`, `WireLost`).

Every leaf has a wide margin: all the proofs also check with a tenth of the provers'
time limits (`tlapm --stretch 0.1`). Keep it so: a leaf that needs arithmetic and
sequences at once belongs in two steps.

Only model-checked: liveness (`OutboundProgress`, `InboundProgress`,
`OperationsReturn`, `RequestsAnswered`, `ClientsReleased`, `EverythingArrives`,
`HeardUnlessStarved`, `NoticesTheEnd`), which needs fairness and ENABLED, and the
three findings, which are counterexamples.

## Plan

Everything the inventory lists as the library's own logic has its module. What would
add most to it, in this order:

1. The second direction of PacketChannel, with keys from Handshake.
2. `request_read` and `request_write` of `tcp_operations`, which no code calls.

## Not modelled

Formatting and wording of responses, the styles and sizes of the listing, real byte
values and endianness, the queries of `socket` that change nothing, the system error
table, `reserve` and `reset` of `poll_group`, groups of more than one socket (no code
makes one; `_read_offset` would wrap at 65536), memory allocation and its failures, and
the cryptography itself. Security against a hostile peer is not a subject of these
models.
