SPECIFICATION FairSpec
CONSTANTS
    Users = {u1}
    Requests = {r1, r2}
    Runners = {w1, w2}
    Grace = 1
    Lease = 1
    BatchLimit = 1
    None = None
    MaxTime = 2
    MaxFaults = 2
CHECK_DEADLOCK FALSE
PROPERTIES
    ImplementsAccountLifecycle
    EventuallyForgotten
    LastJobKeepsRunning
