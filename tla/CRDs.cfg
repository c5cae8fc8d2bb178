SPECIFICATION Spec
CONSTANTS
    Replicas = {r1, r2}
    NumCRDs = 2
    MaxTicks = 2
    Absent = Absent
INVARIANTS
    TypeOK
    RunsOnEstablished
    StopsOnlyForRemoval
PROPERTIES
    Recovers
