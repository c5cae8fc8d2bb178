SPECIFICATION Spec
CONSTANTS
    Absent = Absent
    ConfigMaps = {Absent, "true", "false"}
    Enabling = {"true"}
    MaxLag = 3
INVARIANTS
    TypeOK
    ActsUnlessMissed
PROPERTIES
    FollowsUnlessMissed
