SPECIFICATION Spec
CONSTANTS
    k1 = k1
    k2 = k2
    b1 = b1
    p1 = p1
    p2 = p2
    None = None
    NotInt64 = NotInt64
    Keys = {k1}
    BucketKeys = {k1}
    PathKeys = {}
    BucketNames = {b1}
    Paths = {p1, p2}
    Amounts = {0, 1, 2}
    Specs <- PlainSpecs
    BucketDeletionEnabled = TRUE
    PathDeletionEnabled = TRUE
    PeriodicResync = FALSE
    MaxUser = 1
    MaxFaults = 1
    MaxReadFaults = 1
    MaxTampers = 0
INVARIANTS
    FailureIsRetried
CHECK_DEADLOCK FALSE
