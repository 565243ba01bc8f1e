SPECIFICATION Spec
CONSTANTS
    Hash = {h1, h2, h3, h4}
    Family = {f1}
    User = {u1}
    Request = {r1, r2}
    None = None
    Grace = 3
    TTL = 2
    MaxClock = 4
SYMMETRY Symmetry
INVARIANTS
    TypeOK
    ExactlyOneSuccessor
    RevokedFamilyStaysDead
    ReusedMeansRevoked
    DescendedByTimestamp
    BenignOnlyForTipsParent
PROPERTIES
    TimestampsStick
    ImplementsFamilies
