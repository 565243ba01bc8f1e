SPECIFICATION Spec
CONSTANTS
    Provider = {google, apple}
    Subject = {s1}
    Email = {e1, relay}
    Relay = {relay}
    Profile = {p1, p2}
    User = {u1, u2, u3}
    Request = {r1, r2}
    None = None
SYMMETRY Symmetry
INVARIANTS
    TypeOK
    OneVerifiedAccountPerEmail
    LinkedIffVerifiedEmail
    NoOrphanAccount
    SignedInAsOwner
PROPERTY NothingMoves
