CONSTANTS
    r1 = r1  r2 = r2
    alice = alice  bob = bob
    a = a  A = A  b = b  pw1 = pw1
    Slot = {r1, r2}
    Browser = {ua}
    User = {alice}
    Email = {a}
    Fold <- MCFold0
    Password = {pw1}
    NoEmail = NoEmail
    NoPassword = NoPassword
    NotFound = NotFound
    None = None
    InitialUsers <- MCAlice
    Bodies <- Body
    Logouts = {}
    SessionMaxAge = 0
    MaxRevision = 2
    MaxSessions = 1
    MaxTime = 1
SYMMETRY Symmetry
SPECIFICATION Spec

PROPERTY HashRetained
CHECK_DEADLOCK FALSE
