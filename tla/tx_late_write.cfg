CONSTANTS
    None = None
    Kinds = {"guarded"}
    Overflow = "reject_new"
    MaxPending = 2
    MaxAttempts = 2
    DoneFrom = {"rx"}
    OneDone = TRUE
    MayWriteLate = TRUE
    MayDiscard = FALSE
    Empty = {}
    MaxRequests = 1
    MaxBurst = 1
    MaxCalls = 1
    MaxRx = 0
    MaxOpens = 1
    MaxDrops = 0
    MaxResets = 0
SPECIFICATION Spec
PROPERTIES
    RetryingMeansRequeued
