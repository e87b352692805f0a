SPECIFICATION FairSpec
CONSTANTS
    k1 = k1
    k2 = k2
    b1 = b1
    p1 = p1
    p2 = p2
    None = None
    NotInt64 = NotInt64
    Keys = {k1, k2}
    BucketKeys = {k1}
    PathKeys = {k2}
    BucketNames = {b1}
    Paths = {p1}
    Amounts = {0, 1, 2}
    Specs <- OverrideAndPathSpecs
    BucketDeletionEnabled = FALSE
    PathDeletionEnabled = TRUE
    PeriodicResync = TRUE
    MaxUser = 2
    MaxFaults = 1
    MaxReadFaults = 1
    MaxTampers = 1
PROPERTIES
    ConvergesAndSaysSo
CHECK_DEADLOCK FALSE
