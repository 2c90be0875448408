SPECIFICATION Spec
CONSTANTS
    None = None
    w1 = w1  w2 = w2
    k1 = k1  k2 = k2  k3 = k3
    o1 = o1  o2 = o2  o3 = o3  o4 = o4
    Worker = {w1, w2}
    Key = {k1, k2}
    Endpoint = {1, 2}
    Op = {o1, o2}
    MaxClient = 1
    LostExchange = TRUE
    Capped = TRUE
    Crashes = TRUE
SYMMETRY Symmetric
INVARIANTS TypeOK StateFitsKey SecretOfEndpoint GateMeansSetUp
PROPERTIES FailureKeepsConnection
