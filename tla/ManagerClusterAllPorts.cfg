SPECIFICATION Spec
CONSTANTS
    a = a
    b = b
    p = p
    q = q
    Peers = {a, b, p, q}
    Ports = {80, 443}
    AnyPort = 0
    IsCluster = TRUE
    endpointChunkSize = 2
    Policies <- SharedPeers
    Selectors = {"app", "web"}
    Isolations = {"In", "InOut"}
    PEs = {1, 2, 3, 4}
    MaxLag = 2
    Absent = Absent
    Nothing = Nothing
INVARIANTS
    PublishedExactly
