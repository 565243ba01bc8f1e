SPECIFICATION Spec
CONSTANTS
    Tab = {t1, t2, t3}
    Family = {f1, f2, f3}
    MaxLoads = 3
    Locks = TRUE
    Lossy = FALSE
    Faulty = FALSE
    None = None
SYMMETRY Symmetry
CHECK_DEADLOCK FALSE
INVARIANTS
    TypeOK
    HonestTabsStaySignedIn
    OverUnlessOvertaken
    KeptUnlessOvertaken
    SignOutHolds
PROPERTY ImplementsFamilies
