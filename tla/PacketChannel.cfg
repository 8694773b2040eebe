SPECIFICATION Spec
CONSTANTS
    Messages <- MCMessages
    Base = 3
    MaxSent = 3
    MaxChunk = 4
CHECK_DEADLOCK FALSE
INVARIANTS
    TypeOK
    DeliveredInOrder
PROPERTIES
    EverythingArrives
