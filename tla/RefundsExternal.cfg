SPECIFICATION Spec
CONSTANTS
    None = None
    Unset = Unset
    w1 = w1  w2 = w2
    r1 = r1  r2 = r2
    MaxChild = 2
    Refund = {r1, r2}
    Worker = {w1}
    SourceAmount = 2
    SameCurrency = FALSE
    RateNum = 3
    RateDen = 2
    ProcessedCap = 1
    External = TRUE
    Outcomes = {"SUCCEEDED"}
    Deviates = FALSE
CHECK_DEADLOCK FALSE
SYMMETRY SymmetricRefunds
INVARIANTS AckedRefundOnRecord OneAnswerPerKey OneDonePerRefund FullRefundReturnsAll
