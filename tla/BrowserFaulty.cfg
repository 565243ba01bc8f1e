SPECIFICATION Spec
CONSTANTS
    Tab = {t1, t2}
    Family = {f1}
    MaxLoads = 3
    Locks = TRUE
    Lossy = FALSE
    Faulty = TRUE
    None = None
CHECK_DEADLOCK FALSE
INVARIANT RefusedMeansOver
