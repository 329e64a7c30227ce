\* Every environment, two connections.  The engine ends, and what it started
\* with it or not: the system really stops.
SPECIFICATION FairSpec
CONSTANTS
    Handlers = {h1, h2}
INVARIANTS
    TypeOK
    AnsweredIfDrained
    NoTransactionTorn
    ApiConfigured
PROPERTIES
    CtrlCStops
CHECK_DEADLOCK FALSE
