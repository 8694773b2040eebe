SPECIFICATION MCSpec
CONSTANTS
    ItemValues = {a, b}
    MaxId = 5
    Keys = {0, 1, 7, 8, 15, 16}
    EmptyKey = 255
    Values = {a, b}
    InitialCapacity = 4
    DistanceMax = 255
    MaxCapacity = 16
INVARIANTS
    IndicesInverse
    RoomLeft
    RobinHoodOrder
    FindsEveryKey
PROPERTIES
    IsIdMap
    IsDense
    IsKeyMap
    OperationsReturn
