SPECIFICATION FairSpec
CONSTANTS
    Capture <- MCCapture
    Slices = 2
    MaxCalls = 4
    MayFail = TRUE
    Risky <- MCCancelled
CHECK_DEADLOCK FALSE
PROPERTY
    ReplaySettles
