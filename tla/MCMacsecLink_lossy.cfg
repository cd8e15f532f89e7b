CONSTANTS
    Key = {1, 2, 3, 4, 5, 6}
    NoKey = 0
    StaticKey = 6
    StaticAn = 2
    MaxPN = 1
    MaxSA = 4
    ReplayProtect = FALSE
    Window = 0
    CknLen = 4
    MnMax = 1
    KnMax = 5
    Server = 1
    Client = 2
    Prio <- Priorities
    Faults <- TwoLost
SPECIFICATION Spec
PROPERTIES Converges
