CONSTANTS
    Key = {k1}
    NoKey = NoKey
    MaxPN = 6
    MaxSA = 1
    ReplayProtect = TRUE
    Window = 3
SPECIFICATION Spec
INVARIANTS TypeOK WindowExact
PROPERTY ImplementsService
