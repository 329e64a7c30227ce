\* Two logins in flight on two accounts and one address, no symmetry because
\* of the liveness property.
SPECIFICATION FairSpec
CONSTANTS
    Accounts = {a1, a2}
    Addresses = {i1}
    Workers = {w1, w2}
    Window = 2
    MaxFailures = 2
INVARIANTS
    TypeOK
    FailuresBounded
PROPERTIES
    KeyReopens
