SPECIFICATION FairSpec
CONSTANTS
    SocketSize = 1
    MaxCursor = 3
    MaxFaults = 2
INVARIANTS
    AckCoversStored
    NothingBetween
PROPERTIES
    GapStops
    BoundaryArrives
CHECK_DEADLOCK FALSE
