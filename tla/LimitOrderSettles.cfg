\* One CoW order under fairness, two status workers.
CONSTANTS
    o1 = o1
    w = w
    s1 = s1
    c1 = c1
    c2 = c2
    k1 = k1
    None = None
    Order = {o1}
    Wallet = {w}
    Submitter = {s1}
    Checker = {c1, c2}
    Canceller = {k1}
    MaxAttempts = 2
    MaxActive = 1
    OwnerOf <- MCOwnerOf
    ScopeOf <- MCScopeOf
    OneInch <- NoOrders
    Configs <- EverythingOn
SPECIFICATION CowSpec
PROPERTIES
    EverySavedOrderSettles
