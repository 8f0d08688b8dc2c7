CONSTANTS
    c1 = c1
    c2 = c2
    Conns = {c1, c2}
    Detached = Detached
    None = None
    Configs <- TightConfig
    Ops <- PumpOps
    MaxBytes = 3
    MaxChunk = 3
    MaxCommands = 2
    MayThrow = FALSE
SPECIFICATION Spec
INVARIANTS
    RxAccounting
    SnapshotIsSound
    ReloadStartsClean
PROPERTIES
    ImplementsLedger
SYMMETRY Symmetry
