CONSTANTS
    Stations = {a, b}
    Xor <- ByteXor
    EncryptionKey <- SetEncKey
    DecryptionKey <- SetDecKey
    Encrypt <- AesEncrypt
    Decrypt <- AesDecrypt
    Expanded <- FipsKeyExpansion
    Cipher <- FipsCipher
    InvCipher <- FipsInvCipher
    Jobs <- BenchJobs
    Psks <- BenchPsks
    Pdus <- BenchPdus
    Saks <- BenchSaks
    MaxSetups = 4
    MaxCalls = 3
    MaxWork = 8
SYMMETRY Interchangeable
SPECIFICATION Spec
INVARIANTS
    AesIsFips197
    CmacIsRfc4493
    GcmIsSp80038d
    GcmFailsClosed
    KeysFollowPsk
    IcvBindsKeyAndPdu
    WrapIsRfc3394
    SakReachesItsAssociation
CHECK_DEADLOCK FALSE
