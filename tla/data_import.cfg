SPECIFICATION FairSpec
CONSTANTS
    Size = 3
    QueueLimit = 2
    MaxImports = 3
    Previous = {"old", "none"}
    Risky <- MCNoRisk
CHECK_DEADLOCK FALSE
INVARIANTS
    AppliedInOrder
    WorkerAgrees
PROPERTIES
    CanceledIsQuiet
    ImportEnds
