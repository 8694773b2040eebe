-------------------------- MODULE MCPacketsAndKeys --------------------------
(* The packet in memory and the handshakes, for TLC.  The two share no variable, so a *)
(* run in which only one of them moves has every behaviour of either.  The actions of *)
(* both are listed, so that TLC reports of each how often it was taken.               *)
EXTENDS MCPacket, Handshake

VARIABLE moving

mcVars == <<moving, packetVars, handshakeVars>>

MCInit == moving \in {"packet", "handshake"} /\ PacketInit /\ HandshakeInit

InPacket(A) == moving = "packet" /\ A /\ UNCHANGED <<moving, handshakeVars>>
InHandshakes(A) == moving = "handshake" /\ A /\ UNCHANGED <<moving, packetVars>>

MCNext ==
    \/ \E item \in Items : InPacket(write(item)) \/ InPacket(write_to_front(item))
    \/ \E kind \in Kinds, checked \in BOOLEAN : InPacket(read(kind, checked))
    \/ InPacket(clear)
    \/ \E h \in Handshakes : InHandshakes(Construct(h)) \/ InHandshakes(Destroy(h))
    \/ \E h, from \in Handshakes : InHandshakes(Move(h, from))
    \/ \E h \in Handshakes, p \in {{k} : k \in used \cup {Zero}} \cup {NoPoint} :
          InHandshakes(generate_shared_secret(h, p))

MCSpec == MCInit /\ [][MCNext]_mcVars
=============================================================================
