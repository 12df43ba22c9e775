\* One alert, one monitor, two workers, two cooldown windows.
CONSTANTS
    a1 = a1
    m1 = m1
    w1 = w1
    w2 = w2
    None = None
    Alert = {a1}
    Monitor = {m1}
    Worker = {w1, w2}
    Cooldown = 2
    MaxTime = 3
    MaxAttempts = 2
SPECIFICATION Spec
SYMMETRY Symmetric
INVARIANTS
    TypeOK
    CopiesWithinAttempts
    SentHasLeft
    SentIsRecorded
