CONSTANTS
    None = None
    Kinds = {"guarded"}
    Overflow = "drop_newest"
    MaxPending = 2
    MaxAttempts = 1
    DoneFrom = {"call"}
    OneDone = FALSE
    MayWriteLate = TRUE
    MayDiscard = TRUE
    Empty = {}
    MaxRequests = 2
    MaxBurst = 2
    MaxCalls = 1
    MaxRx = 0
    MaxOpens = 2
    MaxDrops = 1
    MaxResets = 1
SPECIFICATION Spec
INVARIANTS
    WaitsOnlyForWritten
    HostAgreesWhoWaits
PROPERTIES
    HaltedGuardHoldsBack
