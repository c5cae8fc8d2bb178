SPECIFICATION Spec
CONSTANTS
    a = a
    b = b
    p = p
    q = q
    Peers = {a, b, p, q}
    Ports = {80, 443}
    AnyPort = 0
    IsCluster = FALSE
    endpointChunkSize = 2
    Policies <- TwoVersions
    Selectors = {"app", "web"}
    Isolations = {"In", "InOut"}
    PEs = {1, 2, 3}
    MaxLag = 1
    Absent = Absent
    Nothing = Nothing
PROPERTIES
    Converges
