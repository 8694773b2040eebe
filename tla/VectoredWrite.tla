---------------------------- MODULE VectoredWrite ----------------------------
(***************************************************************************)
(* request_write_vectorized_auto (tcp_operations.hpp): one vectored write  *)
(* that starts at partial_offset in the first vector, and the account of   *)
(* how far it got.  Its caller writes a list of vectors by calling it until *)
(* all are written: it drops the vectors that were fully written and hands *)
(* partial_offset back, as the comment of the function says.               *)
(***************************************************************************)
EXTENDS Naturals, Sequences, SequencesExt, FiniteSetsExt

CONSTANTS Vectors   \* lengths of the vectors the caller writes

VARIABLES
    data,           \* vectors still to be written: their lengths
    partial_offset, \* bytes of the first of them that are written
    result,         \* ok, graceful_close, error
    wire            \* bytes the kernel has accepted so far

vars == <<data, partial_offset, result, wire>>

Init ==
    /\ data = Vectors /\ partial_offset = 0 /\ result = "ok" /\ wire = 0

Total(lengths) == FoldLeft(LAMBDA sum, len : sum + len, 0, lengths)

\* Bytes handed to the kernel: the first vector is shortened for the call.
Offered == Total(data) - partial_offset

\* The loop over the written bytes: it counts the vectors that they fill, starting
\* at the whole first vector, and stops when no byte remains.
BuffersSent(bytes) ==
    Min({i \in 0 .. Len(data) :
            \/ i = Len(data)
            \/ bytes <= Total(SubSeq(data, 1, i))
            \/ bytes < Total(SubSeq(data, 1, i + 1))})

\* What the loop leaves of the count when it stops inside a vector.
Remaining(bytes) ==
    LET sent == BuffersSent(bytes)
    IN  IF sent = Len(data) THEN 0 ELSE bytes - Total(SubSeq(data, 1, sent))

\* The kernel takes some of the bytes, or none because it would block, and the
\* caller drops the vectors that are reported as written.
WriteSome ==
    /\ result = "ok" /\ data # <<>> /\ Offered > 0
    /\ \E bytes \in 0 .. Offered :
          /\ wire' = wire + bytes
          /\ partial_offset' = Remaining(bytes)
          /\ data' = SubSeq(data, BuffersSent(bytes) + 1, Len(data))
    /\ UNCHANGED result

\* The write reports 0 bytes although it did not block.
WriteNothing ==
    /\ result = "ok" /\ data # <<>> /\ Offered = 0
    /\ result' = "graceful_close"
    /\ UNCHANGED <<data, partial_offset, wire>>

WriteFails ==
    /\ result = "ok" /\ data # <<>>
    /\ result' = "error"
    /\ UNCHANGED <<data, partial_offset, wire>>

Next == WriteSome \/ WriteNothing \/ WriteFails

Spec == Init /\ [][Next]_vars

-----------------------------------------------------------------------------
\* The vectors not yet reported as written, less partial_offset, are what the
\* kernel has yet to accept (tcp_operations.hpp:147-149, "will be modified to 0 if
\* everything got send, or the amount of bytes written from the last buffer that
\* didn't get fully sent").
AccountMatchesWire == wire + Total(data) = Total(Vectors) + partial_offset
=============================================================================
