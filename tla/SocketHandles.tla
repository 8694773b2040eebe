---------------------------- MODULE SocketHandles ----------------------------
(***************************************************************************)
(* Who holds which descriptor: class socket (socket.hpp) with its moves,   *)
(* close and destructor, the factories of stream_socket_core, and the      *)
(* stream_sockets and acceptors that a program constructs, moves, closes   *)
(* and destroys.  Every system call may fail, and the system hands a       *)
(* closed descriptor out again.                                            *)
(***************************************************************************)
EXTENDS Naturals, Sequences

CONSTANTS
    Streams, Acceptors, \* the program's objects; each has a socket
    Descriptors,        \* what the system hands out
    Invalid,            \* invalid_socket
    Dead,               \* no object is alive there
    AcceptInherits      \* an accepted socket inherits non-blocking mode (Windows)

Slots == Streams \cup Acceptors
Local == "s"        \* the local of a factory
Returned == "tmp"   \* the value a function returns
Objects == Slots \cup {Local, Returned}

ASSUME ObjectsAssumption == /\ {Local, Returned} \cap Slots = {}
                            /\ Streams \cap Acceptors = {}
ASSUME HandlesAssumption == /\ Invalid \notin Descriptors
                            /\ Dead \notin Descriptors \cup {Invalid} \cup Slots
ASSUME InheritsAssumption == AcceptInherits \in BOOLEAN

VARIABLES
    sock,       \* object -> its descriptor, Invalid or Dead
    mode,       \* descriptor -> free, blocking, nonblocking: the system's side
    todo,       \* calls a running factory has still to make on its local
    into,       \* the object whose constructor runs, or Dead
    dropped,    \* history: descriptors overwritten by a move assignment
    unclosed    \* history: descriptors whose close failed

handleVars == <<sock, mode, todo, into, dropped, unclosed>>

Alive(o) == sock[o] # Dead
Holds(o) == sock[o] \in Descriptors
Idle == into = Dead

HandlesInit ==
    /\ sock = [o \in Objects |-> Dead]
    /\ mode = [d \in Descriptors |-> "free"]
    /\ todo = <<>> /\ into = Dead /\ dropped = {} /\ unclosed = {}

-----------------------------------------------------------------------------
(* close(), the destructor and the moves. *)

\* Mutant: the destructor does not close.
LeftOpen(o) == mode
\* The system's side once the descriptor of o is closed.
Closed(o) == [mode EXCEPT ![sock[o]] = "free"]

\* close() forgets the descriptor whether or not it could be closed: after a failure the
\* other attempts of the destructor's loop find an invalid socket and make no system
\* call, against its comment, which promises several attempts (socket.hpp:145).
CloseDescriptor(o) ==
    \/ ~Holds(o) /\ UNCHANGED <<mode, unclosed>>
    \/ Holds(o) /\ mode' = Closed(o) /\ UNCHANGED unclosed
    \/ Holds(o) /\ unclosed' = unclosed \cup {sock[o]} /\ UNCHANGED mode

close(o) ==
    /\ Idle /\ Alive(o)
    /\ CloseDescriptor(o)
    /\ sock' = [sock EXCEPT ![o] = Invalid]
    /\ UNCHANGED <<todo, into, dropped>>

Destroy(o) ==
    /\ Idle /\ Alive(o)
    /\ CloseDescriptor(o)
    /\ sock' = [sock EXCEPT ![o] = Dead]
    /\ UNCHANGED <<todo, into, dropped>>

\* Mutant: the source keeps its descriptor.
KeptBy(from) == sock[from]

\* What a move leaves in its source.
LeftIn(from) == Invalid

MoveConstruct(o, from) ==
    /\ Idle /\ ~Alive(o) /\ Alive(from)
    /\ sock' = [sock EXCEPT ![o] = sock[from], ![from] = LeftIn(from)]
    /\ UNCHANGED <<mode, todo, into, dropped, unclosed>>

\* The descriptor that o held is not closed.
MoveAssign(o, from) ==
    /\ Idle /\ o # from /\ Alive(o) /\ Alive(from)
    /\ sock' = [sock EXCEPT ![o] = sock[from], ![from] = LeftIn(from)]
    /\ dropped' = IF Holds(o) THEN dropped \cup {sock[o]} ELSE dropped
    /\ UNCHANGED <<mode, todo, into, unclosed>>

Construct(o) ==
    /\ Idle /\ ~Alive(o) /\ o \in Streams
    /\ sock' = [sock EXCEPT ![o] = Invalid]
    /\ UNCHANGED <<mode, todo, into, dropped, unclosed>>

-----------------------------------------------------------------------------
(* The factories: what each calls on its local once that has a descriptor. *)

\* Mutant: new_client_socket() does not set the mode.
SetupBlocking(kind) ==
    CASE kind = "client"   -> <<"connect">>
      [] kind = "server"   -> <<"set_reuse_address", "bind", "listen", "set_blocking">>
      [] kind = "accepted" -> <<"set_blocking">>

Setup(kind) ==
    CASE kind = "client"   -> <<"connect", "set_blocking">>
      [] kind = "server"   -> <<"set_reuse_address", "bind", "listen", "set_blocking">>
      [] kind = "accepted" -> <<"set_blocking">>

\* A new descriptor in mode m, as the value of object o.
Opens(o, m) ==
    \E d \in Descriptors :
        /\ mode[d] = "free"
        /\ mode' = [mode EXCEPT ![d] = m]
        /\ sock' = [sock EXCEPT ![o] = d, ![into'] = Invalid]

\* No descriptor: the factory, or accept(), returns a default socket.
OpensNothing == sock' = [sock EXCEPT ![Returned] = Invalid, ![into'] = Invalid] /\ UNCHANGED mode

\* new_client_socket() or new_server_socket(), called by the constructor of o.
Create(o, kind) ==
    /\ Idle /\ ~Alive(o) /\ (o \in Acceptors) = (kind = "server")
    /\ into' = o
    /\ \/ Opens(Local, "blocking") /\ todo' = Setup(kind)
       \/ OpensNothing /\ todo' = <<>>
    /\ UNCHANGED <<dropped, unclosed>>

AcceptedMode(a) == IF AcceptInherits THEN mode[sock[a]] ELSE "blocking"

\* acceptor::accept() constructs the stream_socket o from what accept() returns ...
Accept(a, o) ==
    /\ Idle /\ Alive(a) /\ ~Alive(o)
    /\ into' = o
    /\ \/ Holds(a) /\ Opens(Returned, AcceptedMode(a))
       \/ OpensNothing
    /\ UNCHANGED <<todo, dropped, unclosed>>

\* ... and new_accepted_socket(), which sets the mode itself.
AcceptedByFactory(a, o) ==
    /\ Idle /\ Alive(a) /\ ~Alive(o)
    /\ into' = o
    /\ \/ Holds(a) /\ Opens(Local, AcceptedMode(a)) /\ todo' = Setup("accepted")
       \/ OpensNothing /\ todo' = <<>>
    /\ UNCHANGED <<dropped, unclosed>>

\* The next call succeeds; after the last one the local is moved into the result.
CallSucceeds ==
    /\ todo # <<>>
    /\ mode' = IF Head(todo) = "set_blocking"
               THEN [mode EXCEPT ![sock[Local]] = "nonblocking"] ELSE mode
    /\ todo' = Tail(todo)
    /\ sock' = IF todo' = <<>>
               THEN [sock EXCEPT ![Returned] = sock[Local], ![Local] = Dead] ELSE sock
    /\ UNCHANGED <<into, dropped, unclosed>>

\* It fails: a default socket is returned and the local destroyed.
CallFails ==
    /\ todo # <<>>
    /\ CloseDescriptor(Local)
    /\ sock' = [sock EXCEPT ![Returned] = Invalid, ![Local] = Dead]
    /\ todo' = <<>>
    /\ UNCHANGED <<into, dropped>>

\* _socket = the returned value, which is then destroyed.
Constructed ==
    /\ ~Idle /\ todo = <<>>
    /\ sock' = [sock EXCEPT ![into] = sock[Returned], ![Returned] = Dead]
    /\ dropped' = IF Holds(into) THEN dropped \cup {sock[into]} ELSE dropped
    /\ into' = Dead
    /\ UNCHANGED <<mode, todo, unclosed>>

Program(o) ==
    \/ Construct(o) \/ close(o) \/ Destroy(o)
    \/ \E kind \in {"client", "server"} : Create(o, kind)

Moves(o, from) == MoveConstruct(o, from) \/ MoveAssign(o, from)

HandlesNext ==
    \/ \E o \in Slots : Program(o)
    \/ \E o, from \in Streams : Moves(o, from)
    \/ \E o, from \in Acceptors : Moves(o, from)
    \/ \E a \in Acceptors, o \in Streams : Accept(a, o) \/ AcceptedByFactory(a, o)
    \/ CallSucceeds \/ CallFails \/ Constructed

HandlesSpec == HandlesInit /\ [][HandlesNext]_handleVars

-----------------------------------------------------------------------------
Calls == {"connect", "set_reuse_address", "bind", "listen", "set_blocking"}

HandlesTypeOK ==
    /\ sock \in [Objects -> Descriptors \cup {Invalid, Dead}]
    /\ mode \in [Descriptors -> {"free", "blocking", "nonblocking"}]
    /\ todo \in Seq(Calls)
    /\ into \in Slots \cup {Dead}
    /\ dropped \subseteq Descriptors /\ unclosed \subseteq Descriptors

\* Through every order of moves, closes and destructions a descriptor has at most one
\* holder and is open as long as it has one: no object closes, or writes to, a
\* descriptor that the system has meanwhile handed out to another.
OneOwner ==
    \A o \in Objects : Holds(o) =>
        /\ mode[sock[o]] # "free"
        /\ \A p \in Objects : sock[p] = sock[o] => p = o

\* An open descriptor has a holder that will close it, unless a move assignment dropped
\* it or its close failed: a factory that fails half-way leaves nothing open.  The
\* second exception contradicts socket.hpp:145, "attempts to close the socket multiple
\* times if errors occur": one failed attempt leaves the descriptor open for good.
NoLeak ==
    \A d \in Descriptors : mode[d] # "free" =>
        d \in dropped \cup unclosed \/ \E o \in Objects : sock[o] = d

\* Every socket a tick or an accept may be called on is non-blocking, where accepted
\* sockets inherit that: receive() goes on until a recv() would block.
NeverBlocks ==
    AcceptInherits => \A o \in Slots : Holds(o) => mode[sock[o]] = "nonblocking"
=============================================================================
