SPECIFICATION Spec
CONSTANTS
    Adapter = {eth, wifi}
    Mtu = {1400, 1500}
    Target = {1400, 1500}
    Usual = 1500
    Absent = Absent
    None = None
SYMMETRY MCSymmetry
INVARIANTS
    TypeOK
    RevertReturns
    StatusShowsLink
    LinkFollows
