SPECIFICATION Spec
CONSTANTS
    Themes = {t1, t2}
    Pages = {p1, p2}
    Layouts = {l1, l2}
    Requests = {r1, r2}
    None = None
SYMMETRY SymmetryAll
INVARIANTS
    TypeOK
    LiveThemeIsValid
    DefaultIsKept
PROPERTY ActiveThemeIsKept
