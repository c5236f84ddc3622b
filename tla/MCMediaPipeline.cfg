SPECIFICATION FairSpec
CONSTANTS
    Ids = {p, q}
    FramesCap = 2
    MaxFrames = 5
    NoId = NoId
INVARIANTS TypeOK SendIsSafe
PROPERTIES NoFrameSkipped ShutdownEnds
CHECK_DEADLOCK FALSE
