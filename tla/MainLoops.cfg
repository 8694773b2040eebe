SPECIFICATION Spec
CONSTANTS
    Clients = {1, 2}
    Messages = 2
    Room = 2
    ByteLimit = 1
CHECK_DEADLOCK FALSE
INVARIANTS
    StandingLosesNothing
    PrintedInOrder
PROPERTIES
    HeardUnlessStarved
    NoticesTheEnd
