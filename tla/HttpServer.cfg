SPECIFICATION FairSpec
CONSTANTS
    Clients = {"c1", "c2", "c3"}
    MaxOpen = 2
    Room = 1
    MaxRequests <- MCRequests
INVARIANTS
    AnswersInOrder
    TicksEachOnce
PROPERTIES
    RequestsAnswered
    ClientsReleased
