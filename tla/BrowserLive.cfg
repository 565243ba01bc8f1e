SPECIFICATION FairSpec
CONSTANTS
    Tab = {t1, t2}
    Family = {f1}
    MaxLoads = 2
    Locks = TRUE
    Lossy = TRUE
    Faulty = TRUE
    None = None
CHECK_DEADLOCK FALSE
INVARIANT ReuseNeedsLoss
PROPERTY EveryRefreshSettles
