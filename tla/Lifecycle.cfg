SPECIFICATION Spec
CONSTANTS
    Specs = {s1, s2}
    MaxCreated <- OnceOrAgain
    MaxLag = 1
    PEs = {e1, e2}
    MaxPELag = 2
    Absent = Absent
INVARIANTS
    TypeOK
    ProtectedByFinalizer
    OrphansEscaped
PROPERTIES
    SettlesUnlessDoubtful
    Released
