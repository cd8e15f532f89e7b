CONSTANTS
    Key = {k1, k2}
    NoKey = NoKey
    MaxPN = 2
    MaxSA = 2
    ReplayProtect = TRUE
    Window = 0
SPECIFICATION Spec
INVARIANTS WindowExact NextPnFresh CacheSound
PROPERTY ImplementsService
