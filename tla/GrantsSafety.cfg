SPECIFICATION Spec
CONSTANTS
    Sessions = {s1, s2}
    Brokered = {s2}
    Codes = {c1, c2}
    Devices = {d1, d2}
    UserCodes = {k1}
    Users = {u1, u2}
    Requests = {r1, r2}
    None = None
SYMMETRY SymmetryAll
INVARIANTS
    AnsweredCodeStaysSpent
    TokensForTheirLogin
    GrantsFollowApproval
