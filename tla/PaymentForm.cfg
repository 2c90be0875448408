SPECIFICATION FairSpec
CONSTANTS
    None = None
    card = card  wallet = wallet  other = other
    f1 = f1  f2 = f2
    Option = {card, wallet}
    Other = other
    Flow = {f1, f2}
    Shop <- SmallShops
    Budget = 9
    Unsafe = {"/"}
    MaxElement = 2
    MaxTx = 2
INVARIANTS TypeOK OneLiveElement ChargeIsRecognised OwnSessionKey
PROPERTIES ConfirmsItsElement ChargesShownTotal NeverStuck
