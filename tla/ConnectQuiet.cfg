SPECIFICATION Spec
CONSTANTS
    None = None
    w1 = w1  w2 = w2
    k1 = k1  k2 = k2  k3 = k3
    o1 = o1  o2 = o2  o3 = o3  o4 = o4
    Worker = {w1}
    Key = {k1, k2, k3}
    Endpoint = {1, 2, 3}
    Op = {o1, o2, o3}
    MaxClient = 1
    LostExchange = FALSE
    Capped = FALSE
    Crashes = FALSE
CHECK_DEADLOCK FALSE
SYMMETRY Symmetric
INVARIANTS EndpointAlive KeyWorks
