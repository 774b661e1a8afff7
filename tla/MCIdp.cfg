CONSTANTS
    t1 = t1  t2 = t2  sp1 = sp1  sp2 = sp2  k1 = k1  k2 = k2
    acs1 = acs1  acs2 = acs2  id1 = id1  id2 = id2
    u1 = u1  u2 = u2  n1 = n1  n2 = n2  ip = ip
    weak = weak  medium = medium  equal = equal  strong = strong
    Tab = {t1, t2}
    Entity = {sp1, sp2}
    Settings <- MCSettings
    User = {u1, u2, "u3"}
    Details <- MCDetails
    Self <- MCSelf
    None = None
    NoSignature = NoSignature
    NoID = NoID
    BadCert = BadCert
    MaxIssueDelay = 1
    MaxClockSkew = 1
    SessionMaxAge = 1
SPECIFICATION Spec
INVARIANTS DeliveredToRequester Confidential MeetsRequest AnsweredAsSigned AnsweredInTime FormsResume ForcedFresh
