--------------------------- MODULE MCPacketChannel ---------------------------
(* An instance of PacketChannel for TLC. *)
EXTENDS PacketChannel

MCMessages == {<<>>, <<1, 2>>}
=============================================================================
