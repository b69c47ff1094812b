SPECIFICATION FairSpec
CONSTANTS
    Cloudflare = Cloudflare
    Google = Google
    Automatic = Automatic
    Other = Other
    None = None
    History = 2
    Conditions <- MCConditions
    MaxMoves = 3
INVARIANTS
    TypeOK
    NoStaleTime
PROPERTIES
    AdoptsAnswering
    Settles
