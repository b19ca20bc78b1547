SPECIFICATION Spec
CONSTANTS
    None = None
    c1 = c1
    c2 = c2
    c3 = c3
    Call = {c1, c2, c3}
    Foreign = {c3}
    MaxFaults = 2
SYMMETRY Symmetry
INVARIANTS
    TypeOK
    NoStartAfterBye
    NoOrphan
    StreamReported
CHECK_DEADLOCK FALSE
