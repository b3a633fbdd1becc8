SPECIFICATION FairSpec
CONSTANTS
    w1 = w1
    w2 = w2
    w3 = w3
    Runners = {w1, w2, w3}
    FilesOf <- Releases
    None = None
    MaxFaults = 4
CHECK_DEADLOCK FALSE
INVARIANTS
    RecordedMeansApplied
    DoneMeansMigrated
PROPERTIES
    EventuallyMigrated
