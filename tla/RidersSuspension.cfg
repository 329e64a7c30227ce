\* A suspension and a change of availability.
SPECIFICATION FairSpec
CONSTANTS
    Riders = {r1}
    Plates = {p1}
    Workers = {w1, w2}
    Nobody = Nobody
    Operations = {"create", "add", "submit", "approve", "availability", "suspend"}
PROPERTIES
    StatusMoves
