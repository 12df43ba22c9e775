\* One alert, two monitors, two workers under fairness, one cooldown window.
CONSTANTS
    a1 = a1
    m1 = m1
    m2 = m2
    w1 = w1
    w2 = w2
    None = None
    Alert = {a1}
    Monitor = {m1, m2}
    Worker = {w1, w2}
    Cooldown = 2
    MaxTime = 1
    MaxAttempts = 2
SPECIFICATION FairSpec
INVARIANTS
    CopiesWithinAttempts
    SentIsRecorded
    MonitorsDoNotOverlap
PROPERTIES
    NotificationsSettle
