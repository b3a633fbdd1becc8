SPECIFICATION FairSpec
CONSTANTS
    alice = alice
    bob = bob
    Users = {alice}
    Devices = {d1}
    TokenValues = {t1, t2}
    TokenIds = {k1}
    Notifications = {n1}
    Recipient <- MCRecipientAlice
    None = None
    MaxSends = 2
    MaxReceipts = 2
    BatchLimit = 1
    MaxFlights = 2
    MaxFaults = 2
CHECK_DEADLOCK FALSE
INVARIANTS
    AttemptBudget
PROPERTIES
    NeverResent
    EventuallyCompleted
