SPECIFICATION Spec
CONSTANTS
    Stream <- MCStream
    AlarmPhases <- MCStartOnly
    EvidenceEnabled = TRUE
    Limits <- MCLimits
    MaxLine = 2
    Faults = {}
    MaxAttempts = 2
    MaxFaults = 1
INVARIANTS
    AlarmSettledRightly
    AckedEvidenceKept
PROPERTIES
    AlarmFinal
CHECK_DEADLOCK FALSE
