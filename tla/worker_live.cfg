CONSTANTS
    c1 = c1
    c2 = c2
    Conns = {c1}
    Detached = Detached
    None = None
    Configs <- LiveConfigs
    Ops <- LiveOps
    MaxBytes = 3
    MaxChunk = 1
    MaxCommands = 2
    MayThrow = FALSE
SPECIFICATION FairSpec
INVARIANTS
    RxBound
PROPERTIES
    CallsReturn
    RxSettles
