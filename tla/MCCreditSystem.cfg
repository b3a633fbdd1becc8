SPECIFICATION Spec
CONSTANTS
    alice = alice
    bob = bob
    carol = carol
    t1 = t1
    t2 = t2
    Users = {alice, bob, carol}
    Txns = {t1, t2, t3}
    EventIds = {1, 2, 3, 4, 5}
    Timestamps = {1, 2, 3}
    SuperLikePack = 1
    Events <- MCEvents
    Requests = {r1, r2}
    Compatible <- MCPairs
    Limits = {1, 2, 3, Unlimited}
    FreeLimit = 1
    BasicLimit = 2
    GoldLimit = 3
    Unlimited = Unlimited
    None = None
    DayLength = 1
    BoostTime = 1
    Leavers = {carol}
    MaxBlocks = 0
    MaxLag = 0
    MaxCredits <- MCMaxCredits
    MaxTime = 0
    t3 = t3
    Actors = {alice}
SYMMETRY Symmetry
CHECK_DEADLOCK FALSE
INVARIANTS
    CreditsReconciled
    PlanHonoured
