SPECIFICATION Spec
CONSTANTS
    Requests = {r1, r2}
    Users = {u1, u2, u3}
    Superusers = {u1, u2}
    Passwords = {p1, p2}
    Contents = {c1}
    SessionHours = 1
    None = None
    Gone = Gone
    MaxTime = 2
    MaxCalls = 5
SYMMETRY Symmetry
PROPERTIES
    RevocationReachesAll
    SuperusersGoOnlyTogether
    OnlyCapturesOutlivePurge
CHECK_DEADLOCK FALSE
