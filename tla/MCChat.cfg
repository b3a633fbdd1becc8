SPECIFICATION Spec
CONSTANTS
    bob = bob
    k1 = k1
    Members = {alice, bob}
    Readers = {alice}
    Keys = {k1}
    Sends <- SomeSends
    Requests = {r1, r2}
    PageLimit = 1
    None = None
    MaxMessages = 3
    MaxChanges = 1
    MaxTime = 1
SYMMETRY Symmetry
CONSTRAINT OneActivity
CHECK_DEADLOCK FALSE
INVARIANTS
    KeySentOnce
    FirstMessageShort
    NoGapInHistory
PROPERTIES
    ReadStaysRead
