SPECIFICATION Spec
CONSTANTS
    Limits <- MCLimits
    Sizes = {1, 2}
    MaxEvents = 4
    MaxCursor = 3
INVARIANTS
    TypeOK
    BoundaryDurable
    BoundaryReplayed
    MissingCursorReported
