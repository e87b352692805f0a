SPECIFICATION Spec
CONSTANTS
    k1 = k1
    k2 = k2
    b1 = b1
    p1 = p1
    p2 = p2
    None = None
    NotInt64 = NotInt64
    Keys = {k1, k2}
    BucketKeys = {k1}
    PathKeys = {k2}
    BucketNames = {b1}
    Paths = {p1, p2}
    Amounts = {0, 1}
    Specs <- BucketAndPathSpecs
    BucketDeletionEnabled = TRUE
    PathDeletionEnabled = TRUE
    PeriodicResync = FALSE
    MaxUser = 4
    MaxFaults = 1
    MaxReadFaults = 0
    MaxTampers = 0
INVARIANTS
    ReconciledMeansApplied
    NoOrphanBucket
    NoOrphanPath
    IInv
    S3Inv
PROPERTIES
    ProvisionOnlyWhileHeld
    ImplementsManagedResource
    PathsImplementManagedResource
CHECK_DEADLOCK FALSE
