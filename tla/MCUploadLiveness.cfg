SPECIFICATION FairSpec
CONSTANTS
    alice = alice
    Users = {alice}
    Uploads = {u1}
    Owner <- MCOwnerAlice
    Images = {i1}
    Garbage = garbage
    LegacyPhotos = {}
    Finalizers = {f1}
    None = None
    UploadTtl = 2
    FinalizeLease = 1
    CleanupLease = 1
    RetryDelays <- MCRetryDelays
    MaxActive = 2
    MaxRecent = 2
    CreateWindow = 3
    MaxPhotos = 2
    Grace = 1
    BatchLimit = 1
    MaxLag = 0
    MaxTime = 3
    MaxFaults = 2
    MaxJobs = 1
CHECK_DEADLOCK FALSE
PROPERTIES
    EventuallySettled
    EventuallyReclaimed
