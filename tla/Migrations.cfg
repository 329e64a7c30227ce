\* Three hosts migrate one database, from four states of the directory.
SPECIFICATION Spec
CONSTANTS
    Runners = {r1, r2, r3}
    Versions = 3
    Texts = {"a", "b"}
    Absent = Absent
    Nobody = Nobody
    Checkouts <- Releases
SYMMETRY Symmetric
INVARIANTS
    TypeOK
    RecordTrue
    UpToDate
    CheckHolds
PROPERTIES
    AppliedInOrder
