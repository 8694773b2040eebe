--------------------------- MODULE OrderedStream ---------------------------
(***************************************************************************)
(* What one direction of a banker stream promises: bytes are delivered in  *)
(* the order they were put in, each at most once.  Bytes may be lost, but  *)
(* only whole runs of them, and a lost byte never shows up later.          *)
(***************************************************************************)
EXTENDS Naturals, Sequences

VARIABLES
    accepted,   \* bytes put into the stream so far; byte k is the k-th of them
    passed,     \* bytes that were delivered or lost
    delivered   \* bytes that came out, in order

streamVars == <<accepted, passed, delivered>>

Init == accepted = 0 /\ passed = 0 /\ delivered = <<>>

Put ==
    /\ accepted' \in Nat /\ accepted' > accepted
    /\ UNCHANGED <<passed, delivered>>

Deliver ==
    /\ passed' \in passed + 1 .. accepted
    /\ delivered' = delivered \o [i \in 1 .. passed' - passed |-> passed + i]
    /\ UNCHANGED accepted

Lose ==
    /\ passed' \in passed + 1 .. accepted
    /\ UNCHANGED <<accepted, delivered>>

Next == Put \/ Deliver \/ Lose

Spec == Init /\ [][Next]_streamVars

=============================================================================
