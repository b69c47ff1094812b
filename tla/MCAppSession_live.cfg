SPECIFICATION FairSpec
CONSTANTS
    Group <- MCMtuOnly
    Mtu = "mtu"
    Setting <- MCMtuSettings
    Cycle <- MCMtuCycle
    Overridable = {}
    MaxFailures = 1
PROPERTIES
    Healing
    SessionEnds
    MtuDriftShown
    ErrorShown
