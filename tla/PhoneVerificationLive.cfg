\* Liveness and the contract of the codes, without symmetry, the API host's clock
\* ahead of the database's.
SPECIFICATION FairSpec
CONSTANTS
    Users = {u1}
    Requests = {r1, r2, r3}
    NoRequest = NoRequest
    TTL = 1
    Cooldown = 2
    ResendWindow = 1
    MaxResends = 2
    MaxAttempts = 2
    Skew = 1
    MaxTime = 1
INVARIANTS
    VerifiedInTime
PROPERTIES
    EveryRequestAnswered
    ImplementsContract
