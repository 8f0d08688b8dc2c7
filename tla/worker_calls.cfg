CONSTANTS
    c1 = c1
    c2 = c2
    Conns = {c1}
    Detached = Detached
    None = None
    Configs <- CallConfigs
    Ops <- CallOps
    MaxBytes = 2
    MaxChunk = 2
    MaxCommands = 2
    MayThrow = TRUE
SPECIFICATION Spec
INVARIANTS
    WaitIdleIsBarrier
    StoppedIsEmpty
CHECK_DEADLOCK FALSE
