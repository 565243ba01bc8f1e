SPECIFICATION FairSpec
CONSTANTS
    Request = {q1, q2}
    PoolSize = 1
    Migrations = 2
    Repeatable = {1}
    Statements = 3
    Stalling = TRUE
    Retries = 2
    MaxKills = 2
    MaxTroubles = 2
INVARIANTS
    TypeOK
    ServesOnlyReady
    OrderlyExit
PROPERTIES
    ShutdownEndsUnlessStalled
    KeepsTrying
    PoolServesAll
