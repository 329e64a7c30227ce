\* Two requests set the availability of one rider.
SPECIFICATION FairSpec
CONSTANTS
    Riders = {r1}
    Plates = {p1}
    Workers = {w1, w2}
    Nobody = Nobody
    Operations = {"create", "add", "submit", "approve", "availability"}
PROPERTIES
    AvailabilityMoves
