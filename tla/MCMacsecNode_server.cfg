CONSTANTS
    Key = {1, 2, 3}
    NoKey = 0
    StaticKey = 3
    StaticAn = 2
    MaxPN = 1
    MaxSA = 4
    ReplayProtect = FALSE
    Window = 0
    CknLen = 16
    MnMax = 1
    KnMax = 2
    ConfigModes = {"MKA_PSK"}
    Prio = 5
    Peers <- ClientPeers
    UseKeys <- FirstTwo
    LocalKeys = {1, 2, 3}
    ClockSteps = {3}
    DataFrames = {}
    MaxBoots = 2
    AsyncTx = FALSE
SPECIFICATION Spec
INVARIANTS TypeOK StateMatchesPeer SlotsMatchFrameLayer SecuredBothWays DistributedBeforeInstalled NonceOnce ConfirmationIsPeers NumbersNeverZero
PROPERTY RetiresOnlyWhenConfirmed
