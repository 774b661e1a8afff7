CONSTANTS
    r1 = r1  r2 = r2
    alice = alice  bob = bob
    a = a  A = A  b = b  pw1 = pw1
    Slot = {r1, r2}
    Browser = {ua}
    User = {alice, bob}
    Email = {a, A}
    Fold <- MCFold1
    Password = {pw1}
    NoEmail = NoEmail
    NoPassword = NoPassword
    NotFound = NotFound
    None = None
    InitialUsers <- MCInitialUsers
    Bodies <- Body
    Logouts = {}
    SessionMaxAge = 0
    MaxRevision = 2
    MaxSessions = 0
    MaxTime = 0
SPECIFICATION FairSpec
INVARIANT EmailsUnique
PROPERTY RequestsFinish
CHECK_DEADLOCK FALSE
