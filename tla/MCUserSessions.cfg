CONSTANTS
    r1 = r1  r2 = r2
    alice = alice  bob = bob
    a = a  A = A  b = b  pw1 = pw1
    Slot = {r1, r2}
    Browser = {ua}
    User = {alice, bob}
    Email = {a, b}
    Fold <- MCFold2
    Password = {pw1}
    NoEmail = NoEmail
    NoPassword = NoPassword
    NotFound = NotFound
    None = None
    InitialUsers <- MCAlice
    Bodies <- MCHandedOver
    Logouts <- MCLogouts
    SessionMaxAge = 0
    MaxRevision = 2
    MaxSessions = 2
    MaxTime = 1
SYMMETRY Symmetry
SPECIFICATION Spec
INVARIANTS TypeOK NoStaleSession OneUserPerNameID
PROPERTY RefusedForever
CHECK_DEADLOCK FALSE
