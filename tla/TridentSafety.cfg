SPECIFICATION Spec
CONSTANTS
    Users = {u1}
    Codes = {1, 2, 3, 4, 5}
    Amounts = {1, 2}
    Tokens = {1, 2, 3}
    Rows = {1, 2, 3}
    Links = {1, 2}
    Secrets = {1, 2, 3, 4}
    Challenges = {1, 2, 3}
    Passkeys = {1, 2}
    Counters = {0, 1, 2, 3}
    Requests = {r1, r2}
    MaxActive = 1
    None = None
SYMMETRY SymmetryRequests
INVARIANTS
    AnswersLogInOnce
    NewestBatchIntact
    UsedCodesAreGone
    LostOnlyByCrash
    OvershootIsBounded
    LinksLogInOnce
    OtpIsKept
CHECK_DEADLOCK FALSE
