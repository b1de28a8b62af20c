SPECIFICATION Spec
CONSTANTS
    Instances = {i1, i2}
    Requests = {q1, q2}
    Versions = {1, 2}
    Rows = {1, 2, 3}
    Names = {master, n1, n2}
    Master = master
    MaxEvents = 5
    None = None
SYMMETRY SymmetryAll
INVARIANTS
    TypeOK
    InOrder
    RecordedMeansDone
    ServingIsReady
    KeysAreFew
    ClientsMatchRealms
CHECK_DEADLOCK FALSE
