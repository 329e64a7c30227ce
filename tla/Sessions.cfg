\* Three requests about one user, without symmetry because of the liveness
\* property.
SPECIFICATION FairSpec
CONSTANTS
    Users = {u1}
    Requests = {r1, r2, r3}
    NoRequest = NoRequest
    RefreshTTL = 1
    Skew = 0
    MaxTime = 2
INVARIANTS
    TypeOK
    NoTokenLost
PROPERTIES
    RotationConsumesLive
    SessionsEndForGood
    ImplementsLedger
    EveryRequestAnswered
