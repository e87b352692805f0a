SPECIFICATION FairSpec
CONSTANTS
    k1 = k1
    n1 = n1
    None = None
    NotJson = NotJson
    read = read
    write = write
    Keys = {k1}
    PolicyNames = {n1}
    Contents = {read, write}
    Verbatim = {read}
    Specs <- EditedSpecs
    PolicyDeletionEnabled = TRUE
    PeriodicResync = TRUE
    MaxUser = 3
    MaxFaults = 1
    MaxReadFaults = 1
    MaxTampers = 1
INVARIANTS
    PolicyIsAsReconciled
    NoOrphanPolicy
    IInv
    PoliciesInv
PROPERTIES
    PolicyOnlyWhileHeld
    ManagedWhileUntouched
    PolicyConverges
    PolicyDeletionCompletes
CHECK_DEADLOCK FALSE
