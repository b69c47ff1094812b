SPECIFICATION Spec
CONSTANTS
    Adapter <- MCAdapter
    Provider = {Cloudflare, Google}
    Fastest = "auto"
    Lease4 <- MCLease4
    Lease6 <- MCLease6
    Settings <- MCSettings
    None = None
    FaultSets <- MCFaultSets
SYMMETRY MCSymmetry
INVARIANTS
    TypeOK
    BackupAtRest
PROPERTIES
    RevertsAll
    RestoresRecorded
    DohCleared
    KeepsPromise
