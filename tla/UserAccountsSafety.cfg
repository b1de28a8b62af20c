SPECIFICATION Spec
CONSTANTS
    Users = {u1, u2}
    Applicants = {u1}
    n1 = n1
    m1 = m1
    Names = {n1, n2}
    Mails = {m1, m2}
    Tokens = {t1}
    Subjects = {s1}
    NameOf <- MCNameOf
    MailOf <- MCMailOf
    Requests = {r1, r2}
    MaxEdits = 1
    None = None
SYMMETRY SymmetryAll
INVARIANTS
    TypeOK
    EditsStand
    VerifiedForCause
    RegistrationIsAllOrNothing
    BrokeredAccountsAreLinked
CHECK_DEADLOCK FALSE
