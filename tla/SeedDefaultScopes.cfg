SPECIFICATION FairSeedSpec
CONSTANTS
    Instances = {i1, i2}
    N = 2
    Clients = {c1, c2}
    MaxCrashes = 2
    None = None
INVARIANTS
    DuplicatesAreBounded
PROPERTIES
    ImplementsRunner
    AllServe
CHECK_DEADLOCK FALSE
