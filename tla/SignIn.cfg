SPECIFICATION Spec
CONSTANTS
    Tab = {t1, t2}
    Attempt = {a1, a2}
    Code = {c1, c2}
    Person = {p1, p2}
    None = None
    StrictMode = FALSE
    MaxDetours = 2
SYMMETRY Symmetry
CHECK_DEADLOCK FALSE
INVARIANTS
    TypeOK
    IssuedForItsAttempt
    CodeMeetsItsAttempt
    OneSessionPerCode
    StraightPathIsKnown
