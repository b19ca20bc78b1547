SPECIFICATION FairSpec
CONSTANTS
    Stream <- MCStartStream
    AlarmPhases <- MCStartOnly
    EvidenceEnabled = TRUE
    Limits <- MCTight
    MaxLine = 2
    Faults = {}
    MaxAttempts = 2
    MaxFaults = 2
PROPERTIES
    IngestProgress
    AlarmSettles
    EvidenceSettles
CHECK_DEADLOCK FALSE
