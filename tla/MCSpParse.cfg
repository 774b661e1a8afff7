CONSTANTS
    k1 = k1  k2 = k2  idp = idp  other = other  sp = sp  acs = acs  url = url
    id1 = id1  id2 = id2
    None = None
    NoSignature = NoSignature
    NoID = NoID
    MaxIssueDelay = 1
    MaxClockSkew = 2
    ResolveID = resolve
    CurrentURL = url
    Message <- MCMessage
SPECIFICATION Spec
INVARIANTS OutermostSignatureValid AcceptedIffConforming
CHECK_DEADLOCK FALSE
