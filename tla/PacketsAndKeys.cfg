SPECIFICATION MCSpec
CONSTANTS
    Items <- MCItems
    Radix = 4
    MaxCells = 10
    Handshakes = {a, b, c}
    RandomKeys = {k1, k2, k3}
    Zero = zero
CHECK_DEADLOCK FALSE
INVARIANTS
    OffsetAtNextItem
    Agreement
    ValidSecretIsOwn
    OneHome
PROPERTIES
    ReadsWhatWasWritten
