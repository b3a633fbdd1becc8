SPECIFICATION Spec
CONSTANTS
    alice = alice
    bob = bob
    Users = {alice, bob}
    Devices = {d1}
    TokenValues = {t1, t2}
    TokenIds = {k1, k2}
    Notifications = {n1}
    Recipient <- MCRecipientAlice
    None = None
    MaxSends = 2
    MaxReceipts = 1
    BatchLimit = 2
    MaxFlights = 2
    MaxFaults = 2
SYMMETRY Symmetry
CHECK_DEADLOCK FALSE
INVARIANTS
    JobsAddressed
    RefusedTokenCurrent
