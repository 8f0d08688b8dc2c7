SPECIFICATION FairSpec
CONSTANTS
    Capture <- MCCapture
    Slices = 2
    MaxCalls = 5
    MayFail = TRUE
    Risky <- MCNoRisk
CHECK_DEADLOCK FALSE
INVARIANT
    Faithful
PROPERTIES
    DrainedMeansShown
    ReplaySettles
