SPECIFICATION Spec
CONSTANTS
    IsCluster = FALSE
    References = {TRUE,FALSE}
    EgressRules = {FALSE}
    Places = {"local", "remote"}
    Overlooked = {FALSE}
    MaxNotes = 1
    MaxPolicyNotes = 1
    MaxChannel = 1
    Absent = Absent
INVARIANTS
    NoLostChange
