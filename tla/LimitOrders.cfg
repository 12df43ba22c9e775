\* Two CoW orders of one allowance scope; one 1inch order that is also cancelled, 1inch switched.
CONSTANTS
    o1 = o1
    o2 = o2
    o3 = o3
    w = w
    s1 = s1
    s2 = s2
    c1 = c1
    k1 = k1
    None = None
    Order <- Orders
    Wallet <- OneWallet
    Submitter = {s1, s2}
    Checker = {c1}
    Canceller = {k1}
    MaxAttempts = 2
    MaxActive = 2
    OwnerOf <- OwnerOfEach
    ScopeOf <- ScopeOfEach
    OneInch = {o3}
    Configs <- OneInchMayGo
SPECIFICATION MCSpec
SYMMETRY Symmetric
INVARIANTS
    TypeOK
    OneLivePerScope
    ReleasedOrderIsDead
    OutcomeIsTrue
    LocalOrderUntouched
    TrackedUntilSettled
PROPERTIES
    TerminalIsFinal
    ImplementsReservation
CHECK_DEADLOCK FALSE
