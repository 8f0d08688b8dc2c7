SPECIFICATION Spec
CONSTANTS
    None = None
    Kinds <- MCKinds
    MaxConns = 2
    MaxBytes = 3
    MaxOpens = 2
    MaxExtras = 1
    ReadSize = 2
    PumpBytes = 2
    RxBudget = 1
CHECK_DEADLOCK FALSE
INVARIANTS
    EachByteOnce
    BytesOfTheirOwn
    ActiveIsCurrent
PROPERTY
    CallbacksNest
    BytesArrive
