SPECIFICATION Spec
CONSTANTS
    None = None
    Unset = Unset
    w1 = w1  w2 = w2
    r1 = r1  r2 = r2
    MaxChild = 2
    Refund = {r1, r2}
    Worker = {w1, w2}
    SourceAmount = 1
    SameCurrency = FALSE
    RateNum = 2
    RateDen = 1
    ProcessedCap = 1
    External = FALSE
    Outcomes = {"SUCCEEDED", "PENDING", "FAILED"}
    Deviates = TRUE
CHECK_DEADLOCK FALSE
SYMMETRY SymmetricRefunds
INVARIANTS TypeOK DoneIsRefunded RejectedIsSettled AckedRefundOnRecord
PROPERTIES SettledKeyNotReused
