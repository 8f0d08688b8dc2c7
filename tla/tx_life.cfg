CONSTANTS
    None = None
    Kinds = {"send", "guarded"}
    Overflow = "drop_oldest_waiting"
    MaxPending = 2
    MaxAttempts = 2
    DoneFrom = {"rx"}
    OneDone = TRUE
    MayWriteLate = FALSE
    MayDiscard = TRUE
    Empty = {3}
    MaxRequests = 3
    MaxBurst = 3
    MaxCalls = 1
    MaxRx = 1
    MaxOpens = 1
    MaxDrops = 0
    MaxResets = 0
SPECIFICATION Spec
INVARIANTS
    TypeOK
    QueueBound
    OneAtATime
PROPERTIES
    ImplementsRequestLife
    DoneCompletesCurrent
