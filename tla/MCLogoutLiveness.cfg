CONSTANTS
    sp1 = sp1  sp2 = sp2  k1 = k1  k2 = k2  u1 = u1  u2 = u2
    slo1 = slo1  slo2 = slo2  slo2r = slo2r
    Sp <- MCSp
    Entity = {sp1, sp2}
    Others <- MCNone
    User = {u1}
    StrayRequests = {}
    StrayResponses = {}
    IdpSLO <- MCIdpSLO
    IdpRequests = {}
    Failures = FALSE
    None = None
    NoSignature = NoSignature
    NoID = NoID
    BadCert = BadCert
    MaxIssueDelay = 2
    MaxClockSkew = 1
    SessionMaxAge = 1
    MaxRequests = 2
    MaxResponses = 12
    MaxSessions = 1
    MaxTime = 2
SPECIFICATION FairSpec
PROPERTY LogoutCompletes
CHECK_DEADLOCK FALSE
