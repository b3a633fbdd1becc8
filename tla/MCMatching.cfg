SPECIFICATION MatchingSpec
CONSTANTS
    alice = alice
    bob = bob
    Users = {alice, bob}
    Requests = {r1, r2}
    Compatible <- MCCompatible
    Limits = {Unlimited}
    Unlimited = Unlimited
    None = None
    DayLength = 1
    BoostTime = 2
    Leavers = {alice}
    MaxBlocks = 1
    MaxLag = 1
    MaxCredits <- MCMaxCredits
    MaxTime = 1
SYMMETRY Symmetry
CHECK_DEADLOCK FALSE
INVARIANTS
    MutualLikesMatched
    MatchAnnouncedOnce
    LikesFollowActions
    BoostsDisjoint
