SPECIFICATION SmallSpec
CONSTANTS
    k1 = k1
    a1 = a1
    s1 = s1
    s2 = s2
    p1 = p1
    f1 = f1
    f2 = f2
    f3 = f3
    Empty = Empty
    FieldNames = {f1, f2, f3}
    None = None
    Keys = {k1}
    AccessKeys = {a1}
    SecretNames = {s1, s2}
    PolicyNames = {p1}
    Listing = {p1}
    DefaultName <- NamedAsTheCR
    Passwords <- EightPasswords
    Specs <- RenamedSpecs
    Flags <- AllFlags
    Foreign <- ByOthers
    S3UserDeletionEnabled = TRUE
    PeriodicResync = FALSE
    MaxUser = 2
    MaxFaults = 1
    MaxReadFaults = 0
    MaxLag = 1
INVARIANTS
    UserTypeOK
    CredentialsDelivered
    CredentialsInv
    NoOrphanUser
PROPERTIES
    UserOnlyWhileHeld
    ImplementsManagedResource
    UserConverges
CHECK_DEADLOCK FALSE
