SPECIFICATION Spec
CONSTANTS
    Size = 3
    QueueLimit = 2
    MaxImports = 1
    Previous = {"old", "none"}
    Risky <- MCSlowRound
CHECK_DEADLOCK FALSE
INVARIANT
    WorkerAgrees
