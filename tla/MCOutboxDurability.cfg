SPECIFICATION Spec
CONSTANTS
    Stream <- MCStream
    AlarmPhases <- MCAlarmPhases
    EvidenceEnabled = TRUE
    Limits <- MCLimits
    MaxLine = 2
    Faults = {"partial", "noeol"}
    MaxAttempts = 2
INVARIANTS
    VisibleDurable
    LogBounded
    NoSilentLoss
PROPERTIES
    PendingProtected
