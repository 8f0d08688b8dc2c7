SPECIFICATION Spec
CONSTANTS
    Capture <- MCCapture
    Slices = 2
    MaxCalls = 4
    MayFail = TRUE
    Risky <- MCAhead
CHECK_DEADLOCK FALSE
INVARIANT
    Faithful
