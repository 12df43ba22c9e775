\* One alert, one replica, two cooldown windows.
CONSTANTS
    a1 = a1
    m1 = m1
    w1 = w1
    None = None
    Alert = {a1}
    Monitor = {m1}
    Worker = {w1}
    Cooldown = 2
    MaxTime = 3
    MaxAttempts = 2
SPECIFICATION Spec
PROPERTIES
    CooldownRespected
