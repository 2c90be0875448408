SPECIFICATION Spec
CONSTANTS
    None = None
    Unset = Unset
    t1 = t1  t2 = t2
    w1 = w1  w2 = w2
    s1 = s1  s2 = s2  s3 = s3
    Tx = {t1, t2}
    Session = {s1, s2, s3}
    Worker = {w1}
    Siblings <- SameOrder
    ProcessedCap = 2
    SupersededCap = 2
    Recheckout = TRUE
    Amounts = {"match"}
    MaxEvents = 2
SYMMETRY SymmetricSessions
INVARIANTS DoneByOwnPaidSession
PROPERTIES IssuedReferenceSurvives
