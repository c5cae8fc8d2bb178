SPECIFICATION Spec
CONSTANTS
    Specs = {s1}
    MaxCreated <- NetworkPolicyAgain
    MaxLag = 1
    PEs = {e1}
    MaxPELag = 1
    Absent = Absent
PROPERTIES
    Settles
