CONSTANTS
    Messages = {"m1", "m2"}
    Relays = {"", "r1"}
    Keys = {"k1", "k2", "old"}
    KeyType <- MCKeyType
    Certificates <- MCCertificates
    Expired = {"old"}
    Destinations <- MCDestinations
    MaxEdits = 2
    Settings <- MCSettings
    key2 = key2
    Config <- MCConfig
    Foreign <- MCForeign
    Stray <- MCStray
    Length <- MCLength
    RsaKey <- MCRsaKey
    SpKey = SpKey
    Clear = Clear
    None = None
    Error = Error
SPECIFICATION Protected
INVARIANTS ProcessedIsSigned SignedArrives VerifiedWasSigned RewritingHarmless Readable ReadsWhole
CHECK_DEADLOCK FALSE
