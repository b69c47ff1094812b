SPECIFICATION Spec
CONSTANTS
    Group = {tcp}
    Own = {own1, own2}
    Tuned = Tuned
    None = None
    Missing = Missing
    Torn = Torn
    Instant <- MCInstant
    Keep = 2
    FaultSets <- MCRestoreFails
INVARIANT
    EntryKept
