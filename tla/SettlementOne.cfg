SPECIFICATION FairSpec
CONSTANTS
    None = None
    Unset = Unset
    t1 = t1  t2 = t2
    w1 = w1  w2 = w2
    s1 = s1  s2 = s2  s3 = s3
    Tx = {t1}
    Session = {s1}
    Worker = {w1, w2}
    Siblings <- NoSiblings
    ProcessedCap = 1
    SupersededCap = 1
    Recheckout = FALSE
    Amounts = {"match", "mismatch", "unreadable"}
    MaxEvents = 4
INVARIANTS ParkedIsPaid
PROPERTIES ClosedStaysClosed PendingNotCanceled KeepsPromise UnsweptEventuallyAccounted
