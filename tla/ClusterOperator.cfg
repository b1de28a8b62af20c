SPECIFICATION FairSpec
CONSTANTS
    Operators = {o1, o2}
    Versions = {v1, v2}
    Stuck = {v2}
    MaxEvents = 3
    None = None
INVARIANTS
    NothingLeftBehind
    ApiIsPrepared
PROPERTY ClusterSettles
CHECK_DEADLOCK FALSE
