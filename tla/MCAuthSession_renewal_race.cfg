CONSTANTS
    Users = {u1, u2}
    SessionIds = {s1, s2}
    Clients = {c1}
    Requests = {r1, r2}
    NoId = NoId
    NoSession = NoSession
    Keep = Keep
    Removed = Removed
    TTL <- MCTTL
    RefreshInterval <- MCRefreshInterval
    MaxTime <- MCMaxTime
    FailingOps <- NoFailures
SPECIFICATION Spec
PROPERTY ExpirationNeverShrinks
SYMMETRY MCSymmetry
