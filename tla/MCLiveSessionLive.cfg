SPECIFICATION FairSpec
CONSTANTS
    None = None
    c1 = c1
    c2 = c2
    c3 = c3
    Call = {c1}
    Foreign = {}
    MaxFaults = 3
PROPERTIES
    SessionEnds
    SlotFreed
CHECK_DEADLOCK FALSE
