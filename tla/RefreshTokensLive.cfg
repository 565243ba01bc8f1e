SPECIFICATION FairSpec
CONSTANTS
    Hash = {h1, h2}
    Family = {f1}
    User = {u1}
    Request = {r1, r2}
    None = None
    Grace = 2
    TTL = 3
    MaxClock = 1
PROPERTY EveryRequestAnswered
