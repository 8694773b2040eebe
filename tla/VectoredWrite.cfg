SPECIFICATION Spec
CONSTANTS
    Vectors <- MCVectors
CHECK_DEADLOCK FALSE
INVARIANTS
    AccountMatchesWire
