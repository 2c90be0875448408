SPECIFICATION Spec
CONSTANTS
    None = None
    Unset = Unset
    w1 = w1  w2 = w2
    r1 = r1  r2 = r2
    MaxChild = 2
    Refund = {r1}
    Worker = {w1, w2}
    SourceAmount = 1
    SameCurrency = TRUE
    RateNum = 1
    RateDen = 1
    ProcessedCap = 1
    External = FALSE
    Outcomes = {"SUCCEEDED"}
    Deviates = FALSE
CHECK_DEADLOCK FALSE
INVARIANTS OneDonePerRefund
