CONSTANTS
    e1 = e1  e2 = e2  foo = foo
    Slot = {r1, r2}
    Service = {s1, s2}
    Entity = {e1, e2}
    Shortcut = {x1}
    Suffix = {foo}
    Document <- MCDocument
    Body <- MCBody
    NotFound = NotFound
    None = None
    MaxTime = 3
SPECIFICATION FairSpec
INVARIANTS RegistryMatchesStore RestartAccepted NoExpiredAnswer
PROPERTIES RequestsFinish ImplementsDirectory
