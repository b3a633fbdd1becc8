SPECIFICATION Spec
CONSTANTS
    alice = alice
    Users = {alice}
    Uploads = {u1}
    Owner <- MCOwnerAlice
    Images = {i1, i2}
    Garbage = garbage
    LegacyPhotos = {old}
    Finalizers = {f1, f2}
    None = None
    UploadTtl = 2
    FinalizeLease = 1
    CleanupLease = 1
    RetryDelays <- MCRetryDelays
    MaxActive = 2
    MaxRecent = 2
    CreateWindow = 3
    MaxPhotos = 2
    Grace = 1
    BatchLimit = 1
    MaxLag = 0
    MaxTime = 3
    MaxFaults = 1
    MaxJobs = 1
SYMMETRY Symmetry
CHECK_DEADLOCK FALSE
INVARIANTS
    TypeOK
    DatabaseChecks
    VerifiedObjectStored
    PhotosServed
    FinalObjectTracked
PROPERTIES
    ImplementsLifecycle
