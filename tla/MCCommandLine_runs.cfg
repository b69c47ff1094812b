SPECIFICATION Spec
CONSTANTS
    Group <- MCGroup
    Configs <- MCConfigs
    Name = {"lan"}
    Number <- MCNumber
    Lines <- MCLines
    None = None
    Malformed = Malformed
CHECK_DEADLOCK FALSE
INVARIANTS
    TypeOK
    ParsedUnlessProfile
    StatusExact
PROPERTIES
    ChangesAsAllowed
    PlanKept
