---------------------------- MODULE PacketChannel ----------------------------
(***************************************************************************)
(* Encrypted packets over a byte stream: the sender encrypts a packet with *)
(* crypto_core, writes the mac and the packet into another one and         *)
(* serializes it behind a header; the receiver deserializes, reads both    *)
(* back and decrypts (crypto_core.hpp, crypter.hpp, packet.hpp, and the    *)
(* round trip of encryption_tests.hpp, from which the two ends are taken). *)
(*                                                                         *)
(* The stream is what stream_socket gives: chunks of any size in order, of *)
(* which receive() can lose one past its byte limit (StreamSocket).  A     *)
(* cell is <<tag, value, nonce>>; ciphertext and mac are symbolic, and a   *)
(* number read from such bytes is any number.                              *)
(***************************************************************************)
EXTENDS Naturals, Sequences, SequencesExt

CONSTANTS
    Messages,   \* payloads: sequences of byte values
    Base,       \* a length is two cells below Base
    MaxSent,    \* bound: packets encrypted
    MaxChunk    \* bound: cells of one recv()

ASSUME BoundsAssumption ==
    Base \in Nat \ {0, 1} /\ MaxSent \in Nat /\ MaxChunk \in Nat \ {0}

ASSUME MessagesAssumption == Messages \subseteq Seq(Nat)

VARIABLES
    wire,           \* serialized and not received yet
    stream,         \* the receiver's vector
    _out_counter,   \* of the sender's crypto_core
    _in_counter,    \* of the receiver's crypto_core
    sent,           \* history: the messages encrypted
    delivered,      \* history: the messages decrypted
    emptyAt,        \* history: messages sent before the empty packet, or MaxSent + 1
    gap             \* history: receive() lost a chunk

vars == <<wire, stream, _out_counter, _in_counter, sent, delivered, emptyAt, gap>>

Plain(v) == <<"plain", v, 0>>
Numbers == 0 .. Base * Base - 1

\* A uint32_t, and the packet's header (generate_header_net).
Word(n) == <<Plain(n % Base), Plain(n \div Base)>>

\* What a reader can take two cells for.
NumbersIn(cells) ==
    IF \A i \in 1 .. 2 : cells[i][1] = "plain"
    THEN {cells[1][2] + Base * cells[2][2]} ELSE Numbers

-----------------------------------------------------------------------------
(* The external AEAD: in place, one output byte per input byte. *)

Locked(msg, nonce) == [i \in 1 .. Len(msg) |-> <<"cipher", msg[i], nonce>>]
Mac(msg, nonce) == <<"mac", msg, nonce>>
Unlocked(text) == [i \in 1 .. Len(text) |-> text[i][2]]

\* Mutant: the nonce is not part of what is checked.
DecryptsAnyNonce(mac, text, nonce) ==
    mac[1] = "mac" /\ text = Locked(mac[2], mac[3])

decrypt(mac, text, nonce) == mac[1] = "mac" /\ mac[3] = nonce /\ text = Locked(mac[2], nonce)

\* pkt.write(mac); pkt.write(data), data encrypted under the outgoing nonce.
Sealed(msg, nonce) == <<Mac(msg, nonce)>> \o Word(Len(msg)) \o Locked(msg, nonce)

serialize(body) == Word(Len(body)) \o body

-----------------------------------------------------------------------------
(* deserialize() *)

HeaderSize == 2

\* Mutant: the last byte of a packet must be followed by another one.
CompleteBelow(size) == size + HeaderSize < Len(stream)

Complete(size) == size + HeaderSize <= Len(stream)

Erased(size) == SubSeq(stream, size + HeaderSize + 1, Len(stream))

\* It gives a valid packet: a header is there and not 0, and the body is complete.
Deserializes(size) ==
    /\ Len(stream) >= HeaderSize /\ size \in NumbersIn(stream)
    /\ size # 0 /\ Complete(size)

Body(size) == SubSeq(stream, HeaderSize + 1, HeaderSize + size)

-----------------------------------------------------------------------------
\* Mutant: the counter moves although nothing was decrypted.
AfterOpeningAlways(good) == _in_counter + 1

AfterOpening(good) == IF good THEN _in_counter + 1 ELSE _in_counter

Init ==
    /\ wire = <<>> /\ stream = <<>> /\ _out_counter = 0 /\ _in_counter = 0
    /\ sent = <<>> /\ delivered = <<>> /\ emptyAt = MaxSent + 1 /\ gap = FALSE

\* encrypt_packet with generate_outgoing_nonce, then increment_outgoing.
Send(msg) ==
    /\ Len(sent) < MaxSent
    /\ wire' = wire \o serialize(Sealed(msg, _out_counter))
    /\ _out_counter' = _out_counter + 1
    /\ sent' = Append(sent, msg)
    /\ UNCHANGED <<stream, _in_counter, delivered, emptyAt, gap>>

\* A packet nothing was written to is serialized.
SendEmpty ==
    /\ emptyAt > MaxSent
    /\ wire' = wire \o serialize(<<>>) /\ emptyAt' = Len(sent)
    /\ UNCHANGED <<stream, _out_counter, _in_counter, sent, delivered, gap>>

Chunks == {n \in 1 .. MaxChunk : n <= Len(wire)}

Receive ==
    /\ \E n \in Chunks :
          /\ stream' = stream \o SubSeq(wire, 1, n)
          /\ wire' = SubSeq(wire, n + 1, Len(wire))
    /\ UNCHANGED <<_out_counter, _in_counter, sent, delivered, emptyAt, gap>>

\* A chunk taken from the socket when the byte limit was reached.
ReceivePastLimit ==
    /\ ~gap /\ gap' = TRUE
    /\ \E n \in Chunks : wire' = SubSeq(wire, n + 1, Len(wire))
    /\ UNCHANGED <<stream, _out_counter, _in_counter, sent, delivered, emptyAt>>

\* One packet: read<mac>, read<packet> and decrypt_packet under the incoming nonce,
\* which moves on when the packet was decrypted.
Open(size, len) ==
    /\ Deserializes(size)
    /\ LET body == Body(size)
           text == SubSeq(body, 4, 3 + len)
           good == /\ size >= 3 /\ len \in NumbersIn(Tail(body)) /\ 3 + len <= size
                   /\ decrypt(body[1], text, _in_counter)
       IN  /\ size >= 3 => len \in NumbersIn(Tail(body))
           /\ _in_counter' = AfterOpening(good)
           /\ delivered' = IF good THEN Append(delivered, Unlocked(text)) ELSE delivered
    /\ stream' = Erased(size)
    /\ UNCHANGED <<wire, _out_counter, sent, emptyAt, gap>>

OpenNext == \E size \in Numbers, len \in Numbers : Open(size, len)

Next ==
    \/ \E msg \in Messages : Send(msg)
    \/ SendEmpty
    \/ Receive
    \/ ReceivePastLimit
    \/ OpenNext

\* The receiver's loop ticks its socket and empties its stream again and again.
Fairness == WF_vars(Receive) /\ WF_vars(OpenNext)

Spec == Init /\ [][Next]_vars /\ Fairness

-----------------------------------------------------------------------------
\* Counters count what was encrypted and decrypted, also after a loss.
TypeOK ==
    /\ sent \in Seq(Messages) /\ _out_counter = Len(sent)
    /\ delivered \in Seq(Messages) /\ _in_counter = Len(delivered)
    /\ emptyAt \in 0 .. MaxSent + 1 /\ gap \in BOOLEAN
    /\ _in_counter <= _out_counter /\ _out_counter <= MaxSent

\* What the receiver decrypts are the messages sent, in order, from the first on:
\* no message is skipped, repeated or put together from pieces of two, also when
\* receive() lost a chunk and headers are read in the middle of packets.
DeliveredInOrder == IsPrefix(delivered, sent)

\* Without a loss every message is decrypted, up to an empty packet: deserialize()
\* takes its header for an incomplete packet and never gets past it.
EverythingArrives ==
    \A n \in 1 .. MaxSent :
        Len(sent) >= n /\ ~gap ~> Len(delivered) >= n \/ emptyAt < n \/ gap
=============================================================================
