SPECIFICATION Spec
CONSTANTS
    Group <- MCGroups
    Mtu = "mtu"
    Setting <- MCSettings
    Cycle <- MCCycles
    Overridable = {"power"}
    MaxFailures = 1
INVARIANTS
    TypeOK

    
