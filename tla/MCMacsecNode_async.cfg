CONSTANTS
    Key = {1, 2, 3}
    NoKey = 0
    StaticKey = 3
    StaticAn = 2
    MaxPN = 1
    MaxSA = 4
    ReplayProtect = FALSE
    Window = 0
    CknLen = 16
    MnMax = 2
    KnMax = 5
    ConfigModes = {"MKA_PSK"}
    Prio = 5
    Peers <- ClientPeers
    UseKeys <- FirstKey
    LocalKeys = {1, 2}
    ClockSteps = {3}
    DataFrames <- OneFrameEach
    MaxBoots = 1
    AsyncTx = TRUE
SPECIFICATION Spec
PROPERTY NewReasonsOutliveReport
