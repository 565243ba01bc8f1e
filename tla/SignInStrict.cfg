SPECIFICATION Spec
CONSTANTS
    Tab = {t1, t2}
    Attempt = {a1, a2}
    Code = {c1, c2}
    Person = {p1, p2}
    None = None
    StrictMode = TRUE
    MaxDetours = 0
SYMMETRY Symmetry
CHECK_DEADLOCK FALSE
INVARIANT ElsewhereIsElsewhere
