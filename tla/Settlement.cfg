SPECIFICATION Spec
CONSTANTS
    None = None
    Unset = Unset
    t1 = t1  t2 = t2
    w1 = w1  w2 = w2
    s1 = s1  s2 = s2  s3 = s3
    Tx = {t1, t2}
    Session = {s1, s2}
    Worker = {w1, w2}
    Siblings <- SameOrder
    ProcessedCap = 2
    SupersededCap = 2
    Recheckout = FALSE
    Amounts = {"match"}
    MaxEvents = 3
SYMMETRY Symmetric
INVARIANTS TypeOK HandedSessionFindable OnlySweptPaymentsAreDropped
PROPERTIES KeepsPromise SupersededNeverSettles
