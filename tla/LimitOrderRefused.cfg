\* A refused retry of an order that a lost first attempt had placed.
CONSTANTS
    o1 = o1
    w = w
    s1 = s1
    c1 = c1
    k1 = k1
    None = None
    Order = {o1}
    Wallet = {w}
    Submitter = {s1}
    Checker = {c1}
    Canceller = {k1}
    MaxAttempts = 2
    MaxActive = 1
    OwnerOf <- MCOwnerOf
    ScopeOf <- MCScopeOf
    OneInch <- AllOrders
    Configs <- EverythingOn
SPECIFICATION Spec
INVARIANTS
    RejectedCannotExecute
