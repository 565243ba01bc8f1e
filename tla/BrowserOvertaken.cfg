SPECIFICATION Spec
CONSTANTS
    Tab = {t1, t2}
    Family = {f1, f2}
    MaxLoads = 2
    Locks = TRUE
    Lossy = FALSE
    Faulty = FALSE
    None = None
CHECK_DEADLOCK FALSE
INVARIANT RefusedMeansOver
