\* Four interleaved requests about one user, up to renaming of the requests.
SPECIFICATION Spec
CONSTANTS
    Users = {u1}
    Requests = {r1, r2, r3, r4}
    NoRequest = NoRequest
    TTL = 2
    Cooldown = 1
    ResendWindow = 1
    MaxResends = 2
    MaxAttempts = 2
    Skew = 0
    MaxTime = 2
SYMMETRY Symmetric
INVARIANTS
    TypeOK
    AtMostOneLive
    WindowLimit
    GuessBudget
    OneRedemption
    WaitsEnd
PROPERTIES
    SettledFrozen
    FirstVerificationStands
    CooldownHeld
