SPECIFICATION CaptureSpec
CONSTANTS
    Deltas = {1}
    Spots = {5}
    Home = 0
    Rebuilders = {r1}
    QueueCap = 1
    MaxMotions = 3
    MaxCrossings = 1
    Pixels = {3}
    RingCap = 3
    LinePx = 2
    MaxEvents = 3
    MaxStarts = 2
INVARIANTS
    CaptureTypeOK
    MotionIsRaw
    NothingForgotten
    MotionSummed
    NotchesCounted
PROPERTY
    StopReturns
CHECK_DEADLOCK FALSE
