SPECIFICATION Spec
CONSTANTS
    Proc = {"app"}
    Group <- MCGroup
    Value <- MCValue
    GroupOf <- MCGroupOf
    PerAdapter <- MCPerAdapter
    Eager <- MCEager
    Data <- MCData
    Absent = "absent"
    Tuned <- MCTuned
    None = None
    Faults = {"read", "write", "restore", "save", "crash"}
INVARIANTS
    MemoryKnowsDisk
PROPERTIES
    SavedOriginalKept
