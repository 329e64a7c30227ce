\* One user: four requests, up to renaming. A request may read the account in one
\* tick and sign in the next, and the clock runs on until that token has expired.
SPECIFICATION Spec
CONSTANTS
    Users = {u1}
    Requests = {r1, r2, r3, r4}
    NoRequest = NoRequest
    AccessTTL = 1
    WriteTimeout = 2
    MaxTime = 3
SYMMETRY Symmetric
INVARIANTS
    TypeOK
    DeactivationBites
    LogoutBites
