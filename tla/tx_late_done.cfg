CONSTANTS
    None = None
    Kinds = {"request"}
    Overflow = "reject_new"
    MaxPending = 2
    MaxAttempts = 2
    DoneFrom = {"tx"}
    OneDone = TRUE
    MayWriteLate = FALSE
    MayDiscard = FALSE
    Empty = {}
    MaxRequests = 2
    MaxBurst = 2
    MaxCalls = 1
    MaxRx = 0
    MaxOpens = 1
    MaxDrops = 0
    MaxResets = 0
SPECIFICATION Spec
PROPERTIES
    DoneCompletesCurrent
