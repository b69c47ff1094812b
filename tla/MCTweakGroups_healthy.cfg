SPECIFICATION Spec
CONSTANTS
    Proc = {"app"}
    Group <- MCGroup
    Value <- MCValue
    GroupOf <- MCGroupOf
    PerAdapter <- MCPerAdapter
    Eager <- MCEager
    Data <- MCDataWide
    Absent = "absent"
    Tuned <- MCTunedWide
    None = None
    Faults = {"write", "restore"}
INVARIANTS
    TypeOK
    OriginalsAuthentic
    OriginalRecoverable
    ArchivedAtRest
    WriteAhead
PROPERTIES
    RevertRestores
    KeepsPromise
