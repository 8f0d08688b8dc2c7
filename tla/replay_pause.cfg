SPECIFICATION Spec
CONSTANTS
    Capture <- MCCapture
    Slices = 2
    MaxCalls = 4
    MayFail = TRUE
    Risky <- MCPause
CHECK_DEADLOCK FALSE
INVARIANT
    Faithful
