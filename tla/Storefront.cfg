SPECIFICATION Spec
CONSTANTS
    None = None
    w1 = w1  w2 = w2
    m1 = m1  m2 = m2
    c1 = c1  c2 = c2
    Worker = {w1, w2}
    Merchant = {m1, m2}
    Customer = {c1, c2}
    Owners <- SomeOwners
    Isolations = {"repeatable_read", "read_committed"}
SYMMETRY SymmetricWorkers
INVARIANTS TypeOK AccountFitsKey
PROPERTIES NoClobber PassiveCallsAreRare LiveLinkKept
