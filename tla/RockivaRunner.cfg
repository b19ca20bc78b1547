SPECIFICATION RunnerSpec
CONSTANT MaxFrames = 3
INVARIANTS
    FramesCounted
    BufferHeld
    FreedQuiet
PROPERTIES
    ShutdownEnds
    FrameReturned
CHECK_DEADLOCK FALSE
