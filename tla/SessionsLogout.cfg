\* A Logout whose UPDATE fails is answered like one that succeeded.
SPECIFICATION Spec
CONSTANTS
    Users = {u1}
    Requests = {r1, r2}
    NoRequest = NoRequest
    RefreshTTL = 1
    Skew = 0
    MaxTime = 0
INVARIANTS
    LogoutHonoured
