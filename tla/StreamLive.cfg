SPECIFICATION FairSpec
CONSTANTS
    ByteLimit = 2
    TickModes <- ServerMode
    BufSizes = {1, 2}
    SndBuf = 1
    Window = 2
    MaxIn = 3
    MaxOut = 3
    MaxQueue = 2
INVARIANTS
    InboundGapless
PROPERTIES
    OutboundProgress
    InboundProgress
