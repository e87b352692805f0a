SPECIFICATION Spec
CONSTANTS
    k1 = k1
    k2 = k2
    b1 = b1
    p1 = p1
    p2 = p2
    None = None
    NotInt64 = NotInt64
    Keys = {k1}
    BucketKeys = {k1}
    PathKeys = {}
    BucketNames = {b1}
    Paths = {p1, p2}
    Amounts = {0, 1, 2}
    Specs <- OverrideSpecs
    BucketDeletionEnabled = TRUE
    PathDeletionEnabled = TRUE
    PeriodicResync = FALSE
    MaxUser = 2
    MaxFaults = 0
    MaxReadFaults = 0
    MaxTampers = 0
INVARIANTS
    ReconciledMeansApplied
CHECK_DEADLOCK FALSE
