SPECIFICATION Spec
CONSTANTS
    e1 = e1
    e2 = e2
    e3 = e3
    n1 = n1
    n2 = n2
    Users = {u1, u2}
    Entries = {e1, e2, e3}
    Names = {n1, n2}
    NameOf <- Usernames
    Runs = {r1, r2}
    Modes = {"Import", "Force"}
    MaxEvents = 1
    Local = Local
    None = None
SYMMETRY SymmetryAll
INVARIANTS
    SyncConverges
    MappingsAreSound
    ImportedAreClaimed
PROPERTY DisablesOnlyTheMissing
CHECK_DEADLOCK FALSE
