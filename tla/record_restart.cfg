CONSTANTS
    None = None
    MaxId = 4
    MaxBatch = 1
    MaxVolumes = 2
    MaxCrashes = 1
    MaxFaults = 0
    MaxSnapshots = 0
SPECIFICATION Spec
CHECK_DEADLOCK FALSE
INVARIANT NeverRefused
