--------------------------- MODULE MCVectoredWrite ---------------------------
(* An instance of VectoredWrite for TLC. *)
EXTENDS VectoredWrite

MCVectors == <<2, 0, 3, 1>>
=============================================================================
