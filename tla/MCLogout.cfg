CONSTANTS
    sp1 = sp1  sp2 = sp2  k1 = k1  k2 = k2  u1 = u1  u2 = u2
    slo1 = slo1  slo2 = slo2  slo2r = slo2r
    Sp <- MCSpRedirect
    Entity = {sp1, sp2}
    Others <- MCOthers
    User = {u1, u2}
    StrayRequests <- MCStrayRequests
    StrayResponses <- MCStrayResponses
    IdpSLO <- MCIdpSLO
    IdpRequests = {1}
    Failures = TRUE
    None = None
    NoSignature = NoSignature
    NoID = NoID
    BadCert = BadCert
    MaxIssueDelay = 1
    MaxClockSkew = 1
    SessionMaxAge = 1
    MaxRequests = 2
    MaxResponses = 2
    MaxSessions = 2
    MaxTime = 2
SPECIFICATION Spec
INVARIANT DoneMeansEnded
PROPERTY EndedOnRequest
CHECK_DEADLOCK FALSE
