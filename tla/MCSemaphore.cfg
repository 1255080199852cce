\* Five clients compete for two permissions.
CONSTANTS
    Clients = {c1, c2, c3, c4, c5}
    Capacity = 2
SPECIFICATION Spec
INVARIANTS
    TypeOK
    PermitsAreGuards
    NoLostPermit
