SPECIFICATION Spec
CONSTANTS
    t1 = t1  t2 = t2  t3 = t3
    f1 = f1  f2 = f2  u1 = u1  r1 = r1  r2 = r2
    Tokens = {t1, t2, t3}
    Families = {f1, f2}
    Users = {u1}
    Requests = {r1, r2}
    Owner <- OneOwner
    None = None
SYMMETRY Symmetry
INVARIANTS
    LinearChain
    RevokedOnlyForCause
    NoRowsOfDeletedUser
PROPERTIES
    ImplementsTokenFamilies
CHECK_DEADLOCK FALSE
