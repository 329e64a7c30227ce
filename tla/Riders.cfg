\* All operations of one rider, two requests in flight, no symmetry because
\* of the liveness property.  A suspended rider may have nothing left to do
\* that is not refused: the system really stops.
SPECIFICATION FairSpec
CONSTANTS
    Riders = {r1}
    Plates = {p1, p2}
    Workers = {w1, w2}
    Nobody = Nobody
    Operations = {"create", "submit", "availability", "add", "activate", "approve", "reject", "suspend"}
INVARIANTS
    TypeOK
    WaitsEnd
    VehicleBehindApplication
PROPERTIES
    ImplementsRegister
    EveryRequestAnswered
CHECK_DEADLOCK FALSE
