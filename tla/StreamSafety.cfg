SPECIFICATION Spec
CONSTANTS
    ByteLimit = 2
    TickModes <- AllModes
    BufSizes = {0, 1, 2}
    SndBuf = 2
    Window = 4
    MaxIn = 4
    MaxOut = 3
    MaxQueue = 2
INVARIANTS
    TypeOK
    GapShape
    OutboundConserved
    OffsetInside
PROPERTIES
    InboundIsOrderedStream
    OutboundIsOrderedStream
    LossIsReported
