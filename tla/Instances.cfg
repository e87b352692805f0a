SPECIFICATION SmallSpec
CONSTANTS
    i1 = i1
    d1 = d1
    bucket = bucket
    path = path
    inst = inst
    None = None
    Keys = {i1, d1}
    InstanceKeys = {i1}
    Id <- Names
    Kinds = {bucket, path}
    KindOf <- OneBucket
    Characters = {"x", "y", "*"}
    Star = "*"
    Namespaces <- TwoNamespaces
    Patterns <- SomePatterns
    Specs <- InstanceAndDependent
    PeriodicResync = FALSE
    MaxUser = 2
    MaxFaults = 1
    MaxReadFaults = 0
INVARIANTS
    IInv
PROPERTIES
    OnlyThroughOpenInstances
    CountSeesEveryHolder
    ComesToRest
CHECK_DEADLOCK FALSE
