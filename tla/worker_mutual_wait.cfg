CONSTANTS
    c1 = c1
    c2 = c2
    Conns = {c1}
    Detached = Detached
    None = None
    Configs <- TightConfig
    Ops <- PostPushOps
    MaxBytes = 4
    MaxChunk = 4
    MaxCommands = 2
    MayThrow = FALSE
SPECIFICATION FairSpec
PROPERTIES
    PostReturns
CHECK_DEADLOCK FALSE
