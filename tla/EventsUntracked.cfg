SPECIFICATION Spec
CONSTANTS
    IsCluster = FALSE
    References = {TRUE}
    EgressRules = {TRUE}
    Places = {"remote"}
    Overlooked = {FALSE}
    MaxNotes = 1
    MaxPolicyNotes = 1
    MaxChannel = 1
    Absent = Absent
INVARIANTS
    NoLostChange
