CONSTANTS
    Key = {1, 2, 3}
    NoKey = 0
    StaticKey = 3
    StaticAn = 2
    MaxPN = 1
    MaxSA = 4
    ReplayProtect = FALSE
    Window = 0
    CknLen = 16
    MnMax = 1
    KnMax = 5
    ConfigModes = {"MKA_PSK"}
    Prio = 5
    Peers <- RestartedServer
    UseKeys <- FirstTwo
    LocalKeys = {}
    ClockSteps = {3}
    DataFrames = {}
    MaxBoots = 1
    AsyncTx = FALSE
SPECIFICATION Spec
INVARIANT SecuredBothWays
