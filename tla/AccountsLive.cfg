SPECIFICATION VouchedSpec
CONSTANTS
    Provider = {google, apple}
    Subject = {s1}
    Email = {e1}
    Relay = {}
    Profile = {p1, p2}
    User = {u1}
    Request = {r1, r2}
    None = None
PROPERTY EveryProvisionAnswered
