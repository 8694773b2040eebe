SPECIFICATION HandlesSpec
CONSTANTS
    Streams = {c1, c2}
    Acceptors = {a1, a2}
    Descriptors = {d1, d2, d3}
    Invalid = Invalid
    Dead = Dead
    AcceptInherits = TRUE
INVARIANTS
    OneOwner
    NoLeak
    NeverBlocks
