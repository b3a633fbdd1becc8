SPECIFICATION Spec
CONSTANTS
    Phones = {p1}
    Ips = {i1, i2}
    Devices = {d1, d2}
    Requests = {r1, r2}
    Purposes = {"signup", "password_reset"}
    Cooldown = 1
    CodeTtl = 2
    Hour = 2
    PhoneLimit = 1
    IpLimit = 2
    MaxAttempts = 2
    TokenTtl = 2
    SessionTtl = 1
    None = None
    MaxCodes = 2
    MaxSessions = 3
    MaxTime = 2
SYMMETRY Symmetry
CHECK_DEADLOCK FALSE
INVARIANTS
    RequestQuota
    CodeAcceptedOnce
    TokenMakesAccount
    RotatedOnce
    ResetEndsSessions
PROPERTIES
    NewestCodeOnly
