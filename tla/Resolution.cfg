SPECIFICATION Spec
CONSTANTS
    a = a
    b = b
    s = s
    http = http
    net = net
    site = site
    Anywhere = Anywhere
    Nil = Nil
    Absent = Absent
    Namespaces = {1, 2}
    Home <- InNamespaces
    Names = {http}
    Labels = {"app", "team"}
    CIDRs = {net}
    Sites = {site}
    Numbers = {80, 443, 8080}
    Policies <- Examples
    PodVersions <- PodStates
    NamespaceVersions <- NamespaceStates
    ServiceVersions <- ServiceStates
    MaxPending = 2
INVARIANTS
    TypeOK
    RecognisesChanges
    ServicePortsLeadToAllowedPorts
    MergeKeepsRules
