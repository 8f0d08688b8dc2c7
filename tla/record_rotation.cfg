CONSTANTS
    None = None
    MaxId = 4
    MaxBatch = 1
    MaxVolumes = 4
    MaxCrashes = 1
    MaxFaults = 1
    MaxSnapshots = 1
SPECIFICATION Spec
CHECK_DEADLOCK FALSE
INVARIANTS
    TypeOK
    EachRecordOnce
    SnapshotIntact
    StartsUnlessHalfMade
PROPERTIES
    ImplementsRecordLog
    SnapshotIsExact
