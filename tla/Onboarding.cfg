\* One user, whose messages in the sink others overwrite, and up to four faults.
SPECIFICATION FairSpec
CONSTANTS
    Users = {u1}
    Codes = {c1, c2, c3}
    NoCode = NoCode
    MaxAttempts = 2
    MaxFaults = 4
PROPERTIES
    RegisteredGetsIn
