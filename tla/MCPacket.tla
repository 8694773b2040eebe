------------------------------ MODULE MCPacket ------------------------------
(* An instance of Packet for TLC. *)
EXTENDS Packet

MCItems == {[kind |-> "word",   value |-> 3],
            [kind |-> "text",   value |-> <<1, 0>>],
            [kind |-> "words",  value |-> <<3, 0>>],
            [kind |-> "texts",  value |-> <<<<>>, <<2>>>>],
            [kind |-> "packet", value |-> <<1>>],
            [kind |-> "packet", value |-> <<>>]}
=============================================================================
