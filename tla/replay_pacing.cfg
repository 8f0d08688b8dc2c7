SPECIFICATION Spec
CONSTANTS
    Capture <- MCShort
    Slices = 2
    MaxCalls = 3
    MayFail = FALSE
    Risky <- MCNoRisk
CHECK_DEADLOCK FALSE
INVARIANT
    PlaysOnTheTimeline
