SPECIFICATION BillingSpec
CONSTANTS
    alice = alice
    bob = bob
    t1 = t1
    t2 = t2
    Users = {alice, bob}
    Txns = {t1, t2, t3, t4}
    EventIds = {1, 2, 3, 4, 5, 6, 7, 8, 9, 10, 11}
    Timestamps = {1, 2, 3, 4}
    SuperLikePack = 2
    None = None
    Events <- MCEvents
    t3 = t3
    t4 = t4
CHECK_DEADLOCK FALSE
INVARIANTS
    NewestEventWins
    BalanceConserved
    LedgerExplains
