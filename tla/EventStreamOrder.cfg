SPECIFICATION Spec
CONSTANTS
    SocketSize = 2
    MaxCursor = 2
    MaxFaults = 1
INVARIANT NoBoundaryLost
CHECK_DEADLOCK FALSE
