CONSTANTS
    t1 = t1  t2 = t2  b1 = b1  b2 = b2  p1 = p1  p2 = p2
    Tab = {t1, t2}
    Browser = {b1}
    Owner <- MCOneBrowser
    Page = {p1, p2}
    Asks <- MCAsksOwn
    Local = {p1}
    User = {u1}
    AllowIDPInitiated = FALSE
    Binding = {"post"}
    CookiePath = "/app"
    FixedIndex = None
    ChangedRelay = {1}
    HostOnlyApart = TRUE
    Lossy = FALSE
    Revisits = TRUE
    None = None
    NoSignature = NoSignature
    NoID = NoID
    MaxIssueDelay = 3
    MaxClockSkew = 1
    SessionMaxAge = 1
    MaxRequests = 2
    MaxUnsolicited = 0
    MaxTime = 1
SPECIFICATION FairSpec
INVARIANTS FlowsIndependent RedirectsOwnPages
PROPERTY FlowsEnd
CHECK_DEADLOCK FALSE
