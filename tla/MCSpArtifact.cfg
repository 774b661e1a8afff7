CONSTANTS
    t1 = t1  t2 = t2  b1 = b1  b2 = b2  p1 = p1  p2 = p2
    Tab = {t1, t2}
    Browser = {b1, b2}
    Owner <- MCTwoBrowsers
    Page = {p1, p2}
    Asks <- MCAsksAny
    Local = {p1}
    User = {u1}
    AllowIDPInitiated = TRUE
    Binding = {"post", "artifact"}
    CookiePath = "/app"
    FixedIndex = None
    ChangedRelay = {1, p1, p2, 0}
    HostOnlyApart = TRUE
    Lossy = TRUE
    Revisits = FALSE
    None = None
    NoSignature = NoSignature
    NoID = NoID
    MaxIssueDelay = 1
    MaxClockSkew = 1
    SessionMaxAge = 1
    MaxRequests = 1
    MaxUnsolicited = 1
    MaxTime = 2
SYMMETRY Symmetry
SPECIFICATION Spec
INVARIANTS SessionsSolicited SessionsTimely
CHECK_DEADLOCK FALSE
