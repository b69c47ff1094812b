SPECIFICATION Spec
CONSTANTS
    Proc = {"app"}
    Group <- MCGroup
    Value <- MCValue
    GroupOf <- MCGroupOf
    PerAdapter <- MCPerAdapter
    Eager <- MCEager
    Data <- MCData
    Absent = "absent"
    Tuned <- MCTuned
    None = None
    Faults = {"read", "save", "crash"}
INVARIANTS
    OriginalRecoverable
