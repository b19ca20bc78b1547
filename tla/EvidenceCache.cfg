SPECIFICATION Spec
CONSTANTS
    MaxBytes = 2
    Window = 2
    NoteLimit = 1
    Retention = 1
    Sizes = {1, 2}
    MaxFrame = 2
    MaxEpoch = 2
    MaxSerial = 1
    MaxLife = 2
    MaxTime = 1
    MaxFaults = 2
INVARIANTS
    RecordWhole
    LeaseKept
    WithinBudget
    RightPicture
    StagedPicture
CHECK_DEADLOCK FALSE
