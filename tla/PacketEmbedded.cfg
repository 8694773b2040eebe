SPECIFICATION PacketSpec
CONSTANTS
    Items <- MCItems
    Radix = 4
    MaxCells = 10
CHECK_DEADLOCK FALSE
PROPERTIES
    ReadsMoveForward
