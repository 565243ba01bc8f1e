SPECIFICATION Spec
CONSTANTS
    Tab = {t1, t2}
    Family = {f1}
    MaxLoads = 3
    Locks = FALSE
    Lossy = FALSE
    Faulty = FALSE
    None = None
CHECK_DEADLOCK FALSE
INVARIANT HonestTabsStaySignedIn
