CONSTANTS
    c1 = c1
    c2 = c2
    Conns = {c1}
    Detached = Detached
    None = None
    Configs <- NoOutputLimit
    Ops <- ClosePushOps
    MaxBytes = 4
    MaxChunk = 4
    MaxCommands = 1
    MayThrow = FALSE
SPECIFICATION FairSpec
PROPERTIES
    PostReturns
