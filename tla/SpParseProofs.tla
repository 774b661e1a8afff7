---------------------------- MODULE SpParseProofs ----------------------------
(***************************************************************************)
(* What a service provider accepts, for every message and configuration,   *)
(* proved with TLAPS.                                                      *)
(***************************************************************************)
EXTENDS SpParse, TLAPS, WellFoundedInduction

\* A non-empty set of positions has a first one.
LEMMA FirstOf ==
    ASSUME NEW S \in SUBSET Nat, S # {}
    PROVE  First(S) \in S
  <1>1. \E i \in S : \A j \in S : ~(<<j, i>> \in OpToRel(<, Nat))
    BY NatLessThanWellFounded, WFMin
  <1>2. PICK i \in S : \A j \in S : <<j, i>> \notin OpToRel(<, Nat)
    BY <1>1
  <1>3. ASSUME NEW j \in S PROVE i <= j
    <2>1. j < i => <<j, i>> \in OpToRel(<, Nat)
      BY DEF OpToRel
    <2>2. ~(j < i)
      BY <1>2, <2>1, Zenon
    <2>3. i \in Nat /\ j \in Nat
      OBVIOUS
    <2>. QED BY <2>2, <2>3
  <1>. QED BY <1>3 DEF First

\* Six checks hold if none of them is among the failing ones.
LEMMA SixChecks ==
    ASSUME NEW n1, NEW n2, NEW n3, NEW n4, NEW n5, NEW n6,
           NEW c1 \in BOOLEAN, NEW c2 \in BOOLEAN, NEW c3 \in BOOLEAN,
           NEW c4 \in BOOLEAN, NEW c5 \in BOOLEAN, NEW c6 \in BOOLEAN
    PROVE  Failing(<< <<n1, c1>>, <<n2, c2>>, <<n3, c3>>, <<n4, c4>>, <<n5, c5>>,
                      <<n6, c6>> >>) = {}
             <=> c1 /\ c2 /\ c3 /\ c4 /\ c5 /\ c6
  BY DEF Failing

\* The signature ParseResponse acts on, and the assertions acceptable to it.
ResponseSignature(sp, response, required) ==
    IF required THEN VerifySignature(sp, response) ELSE "absent"
Acceptable(sp, response, ids, now, required) ==
    {i \in DOMAIN response.assertions :
       AssertionOK(sp, response.assertions[i], ids, now,
                   required /\ ResponseSignature(sp, response, required) = "absent")}

\* ParseResponse accepts if every check holds and an assertion is acceptable, and
\* returns such a one.
LEMMA ParseResponseAccepts ==
    ASSUME NEW sp, NEW response, NEW ids, NEW now, NEW required, NEW url,
           DOMAIN response.assertions \subseteq Nat
    PROVE  LET p == ParseResponse(sp, response, ids, now, required, url)
               signature == ResponseSignature(sp, response, required)
               acceptable == Acceptable(sp, response, ids, now, required)
           IN
           /\ p.accepted <=>
                /\ ValidDestination(sp, response, signature # "absent", url)
                /\ ValidRequestID(sp, response, ids)
                /\ now <= response.issueInstant + MaxIssueDelay
                /\ response.issuer \in {None, sp.idp}
                /\ response.status = "Success"
                /\ signature # "invalid"
                /\ acceptable # {}
           /\ p.accepted =>
                \E i \in acceptable : p.assertion = response.assertions[i].assertion
  <1> DEFINE signature == ResponseSignature(sp, response, required)
             acceptable == Acceptable(sp, response, ids, now, required)
             c1 == ValidDestination(sp, response, signature # "absent", url)
             c2 == ValidRequestID(sp, response, ids)
             c3 == now <= response.issueInstant + MaxIssueDelay
             c4 == response.issuer \in {None, sp.idp}
             c5 == response.status = "Success"
             c6 == signature # "invalid"
             checks == << <<"destination", c1>>, <<"inResponseTo", c2>>, <<"expired", c3>>,
                          <<"issuer", c4>>, <<"status", c5>>, <<"signature", c6>> >>
             encrypted == {i \in acceptable : response.assertions[i].encrypted}
             first == First(IF encrypted # {} THEN encrypted ELSE acceptable)
             p == ParseResponse(sp, response, ids, now, required, url)
  <1>1. p = IF Failing(checks) # {} THEN Reject(checks[First(Failing(checks))][1])
            ELSE IF acceptable = {} THEN Reject("assertion")
            ELSE Accept(response.assertions[first].assertion)
    BY DEF ParseResponse, ResponseSignature, Acceptable
  <1>2. /\ c1 \in BOOLEAN /\ c2 \in BOOLEAN /\ c3 \in BOOLEAN
        /\ c4 \in BOOLEAN /\ c5 \in BOOLEAN /\ c6 \in BOOLEAN
    BY DEF ValidDestination, ValidRequestID
  <1>3. acceptable # {} => first \in acceptable
    <2>1. acceptable \in SUBSET Nat /\ encrypted \in SUBSET acceptable
      BY DEF Acceptable
    <2>2. CASE encrypted # {}
      BY <2>1, <2>2, FirstOf
    <2>3. CASE encrypted = {}
      BY <2>1, <2>3, FirstOf
    <2>. QED BY <2>2, <2>3
  <1> HIDE DEF signature, acceptable, c1, c2, c3, c4, c5, c6, first, p
  <1>4. Failing(checks) = {} <=> c1 /\ c2 /\ c3 /\ c4 /\ c5 /\ c6
    BY <1>2, SixChecks
  <1> HIDE DEF checks
  <1>5. /\ p.accepted <=> Failing(checks) = {} /\ acceptable # {}
        /\ p.accepted => p.assertion = response.assertions[first].assertion
    BY <1>1 DEF Accept, Reject
  <1>6. p.accepted <=> c1 /\ c2 /\ c3 /\ c4 /\ c5 /\ c6 /\ acceptable # {}
    BY <1>4, <1>5
  <1>7. p.accepted =>
          \E i \in acceptable : p.assertion = response.assertions[i].assertion
    BY <1>3, <1>5
  <1>. QED BY <1>6, <1>7 DEF signature, acceptable, c1, c2, c3, c4, c5, c6, p

\* ParseXMLArtifactResponse accepts if every check of the ArtifactResponse holds
\* and ParseResponse accepts what is in it.
LEMMA ArtifactAccepts ==
    ASSUME NEW sp, NEW artifact, NEW ids, NEW resolveID, NEW now, NEW url,
           DOMAIN artifact.response.assertions \subseteq Nat
    PROVE  LET p == ParseXMLArtifactResponse(sp, artifact, ids, resolveID, now, url)
               signature == VerifySignature(sp, artifact)
               q == ParseResponse(sp, artifact.response, ids, now,
                                  signature = "absent", url)
           IN
           /\ p.accepted <=>
                /\ artifact.inResponseTo = resolveID
                /\ now <= artifact.issueInstant + MaxIssueDelay
                /\ artifact.issuer \in {None, sp.idp}
                /\ artifact.status = "Success"
                /\ signature # "invalid"
                /\ artifact.response # None
                /\ q.accepted
           /\ p.accepted => p = q
  <1> DEFINE signature == VerifySignature(sp, artifact)
             c1 == artifact.inResponseTo = resolveID
             c2 == now <= artifact.issueInstant + MaxIssueDelay
             c3 == artifact.issuer \in {None, sp.idp}
             c4 == artifact.status = "Success"
             c5 == signature # "invalid"
             c6 == artifact.response # None
             checks == << <<"inResponseTo", c1>>, <<"expired", c2>>, <<"issuer", c3>>,
                          <<"status", c4>>, <<"signature", c5>>, <<"response", c6>> >>
             p == ParseXMLArtifactResponse(sp, artifact, ids, resolveID, now, url)
             q == ParseResponse(sp, artifact.response, ids, now, signature = "absent", url)
  <1>1. p = IF Failing(checks) # {} THEN Reject(checks[First(Failing(checks))][1]) ELSE q
    BY DEF ParseXMLArtifactResponse
  <1>2. /\ c1 \in BOOLEAN /\ c2 \in BOOLEAN /\ c3 \in BOOLEAN
        /\ c4 \in BOOLEAN /\ c5 \in BOOLEAN /\ c6 \in BOOLEAN
    OBVIOUS
  <1> HIDE DEF signature, c1, c2, c3, c4, c5, c6, p, q
  <1>3. Failing(checks) = {} <=> c1 /\ c2 /\ c3 /\ c4 /\ c5 /\ c6
    BY <1>2, SixChecks
  <1> HIDE DEF checks
  <1>4. /\ p.accepted <=> Failing(checks) = {} /\ q.accepted
        /\ p.accepted => p = q
    BY <1>1 DEF Reject
  <1>5. p.accepted <=> c1 /\ c2 /\ c3 /\ c4 /\ c5 /\ c6 /\ q.accepted
    BY <1>3, <1>4
  <1>. QED BY <1>4, <1>5 DEF signature, c1, c2, c3, c4, c5, c6, p, q

-----------------------------------------------------------------------------
\* The service provider.

\* The signature inside is required unless the ArtifactResponse is signed.
Required(m) == m.artifact # None => m.artifact.signature = NoSignature

Inner(m) == ParseResponse(m.sp, m.response, m.ids, m.now, Required(m), CurrentURL)

Decision(m) ==
    IF m.artifact = None
    THEN ParseXMLResponse(m.sp, m.response, m.ids, m.now, CurrentURL)
    ELSE ParseXMLArtifactResponse(m.sp, [m.artifact EXCEPT !.response = m.response],
                                  m.ids, ResolveID, m.now, CurrentURL)

\* The decision on a message is that on its Response, if the ArtifactResponse
\* around it is in order.
LEMMA DecisionAccepts ==
    ASSUME NEW m \in Message
    PROVE  /\ Decision(m).accepted <=>
                /\ m.artifact # None =>
                     /\ EnvelopeConforms(m, m.artifact, {ResolveID})
                     /\ VerifySignature(m.sp, m.artifact) # "invalid"
                /\ Inner(m).accepted
           /\ Decision(m).accepted => Decision(m) = Inner(m)
  <1>1. CASE m.artifact = None
    BY <1>1 DEF Decision, Inner, Required, ParseXMLResponse
  <1>2. CASE m.artifact # None
    <2> DEFINE artifact == [m.artifact EXCEPT !.response = m.response]
    <2>1. /\ artifact.signature = m.artifact.signature
          /\ artifact.inResponseTo = m.artifact.inResponseTo
          /\ artifact.issueInstant = m.artifact.issueInstant
          /\ artifact.issuer = m.artifact.issuer
          /\ artifact.status = m.artifact.status
          /\ artifact.response = m.response
      BY <1>2, MessageAssumption
    <2>2. m.response # None /\ DOMAIN m.response.assertions \subseteq Nat
      BY MessageAssumption
    <2>3. Decision(m) = ParseXMLArtifactResponse(m.sp, artifact, m.ids, ResolveID, m.now,
                                                 CurrentURL)
      BY <1>2 DEF Decision
    <2> HIDE DEF artifact
    <2>4. /\ VerifySignature(m.sp, artifact) = VerifySignature(m.sp, m.artifact)
          /\ VerifySignature(m.sp, artifact) = "absent" <=> Required(m)
      BY <1>2, <2>1 DEF VerifySignature, VerifyCertificate, SigningCerts, Required
    <2>5. ParseResponse(m.sp, artifact.response, m.ids, m.now,
                        VerifySignature(m.sp, artifact) = "absent", CurrentURL) = Inner(m)
      BY <2>1, <2>4 DEF Inner, Required
    <2>. QED BY <1>2, <2>1, <2>2, <2>3, <2>4, <2>5, ArtifactAccepts DEF EnvelopeConforms
  <1>. QED BY <1>1, <1>2

\* validateAssertion asks exactly what the profile does.
LEMMA ConformsIsValid ==
    ASSUME NEW m \in Message, NEW i \in DOMAIN m.response.assertions
    PROVE  LET a == m.response.assertions[i].assertion IN
           ValidAssertion(m.sp, a, m.ids, m.now) <=> Conforms(m, a)
  <1> DEFINE a == m.response.assertions[i].assertion
  <1>1. /\ m.now \in Nat /\ a.notBefore \in Nat /\ a.notOnOrAfter \in Nat
        /\ \A j \in DOMAIN a.confirmations : a.confirmations[j].notOnOrAfter \in Nat
    BY MessageAssumption
  <1> HIDE DEF a
  <1>2. ASSUME NEW t \in Nat
        PROVE  /\ m.now <= t + MaxClockSkew <=> m.now - MaxClockSkew <= t
               /\ t <= m.now + MaxClockSkew <=> m.now + MaxClockSkew >= t
    BY <1>1, <1>2, DelaysAssumption
  <1>3. ASSUME NEW j \in DOMAIN a.confirmations
        PROVE  LET c == a.confirmations[j] IN
               ValidBearer(m.sp, c, m.ids, m.now) <=>
                 /\ c.data /\ c.recipient = m.sp.acsURL
                 /\ m.now - MaxClockSkew <= c.notOnOrAfter
                 /\ c.inResponseTo \in
                      m.ids \cup (IF m.sp.allowIDPInitiated THEN {NoID} ELSE {})
    BY <1>1, <1>2 DEF ValidBearer
  <1>4. ValidSubject(m.sp, a, m.ids, m.now) <=>
          /\ a.subject
          /\ \E j \in DOMAIN a.confirmations :
                LET c == a.confirmations[j] IN
                /\ c.bearer /\ c.data /\ c.recipient = m.sp.acsURL
                /\ m.now - MaxClockSkew <= c.notOnOrAfter
                /\ c.inResponseTo \in
                     m.ids \cup (IF m.sp.allowIDPInitiated THEN {NoID} ELSE {})
    BY <1>3 DEF ValidSubject
  <1>5. ValidAssertion(m.sp, a, m.ids, m.now) <=> Conforms(m, a)
    BY <1>1, <1>2, <1>4 DEF ValidAssertion, ValidAudience, Conforms
  <1>. QED BY <1>5 DEF a

\* An assertion is good if it is acceptable and no signature that is looked at is
\* invalid: the three ways in which the outermost signature is found.
LEMMA GoodIsAcceptable ==
    ASSUME NEW m \in Message, NEW i \in DOMAIN m.response.assertions
    PROVE  i \in Good(m) <=>
             /\ m.artifact # None => VerifySignature(m.sp, m.artifact) # "invalid"
             /\ ResponseSignature(m.sp, m.response, Required(m)) # "invalid"
             /\ i \in Acceptable(m.sp, m.response, m.ids, m.now, Required(m))
  <1> DEFINE item == m.response.assertions[i]
             sig == ResponseSignature(m.sp, m.response, Required(m))
  <1>1. ValidAssertion(m.sp, item.assertion, m.ids, m.now) <=> Conforms(m, item.assertion)
    BY ConformsIsValid
  <1>2. i \in Good(m) <=>
          /\ item.encrypted => item.decrypts
          /\ ValidAssertion(m.sp, item.assertion, m.ids, m.now)
          /\ VerifySignature(m.sp, Outermost(m, item.assertion)) = "valid"
    BY <1>1 DEF Good
  <1>3. i \in Acceptable(m.sp, m.response, m.ids, m.now, Required(m)) <=>
          /\ item.encrypted => item.decrypts
          /\ ValidAssertion(m.sp, item.assertion, m.ids, m.now)
          /\ Required(m) /\ sig = "absent"
               => VerifySignature(m.sp, item.assertion) = "valid"
    BY DEF Acceptable, AssertionOK
  <1>4. CASE ~Required(m)
    <2>1. /\ m.artifact # None /\ m.artifact.signature # NoSignature
          /\ Outermost(m, item.assertion) = m.artifact /\ sig = "absent"
      BY <1>4 DEF Required, Outermost, ResponseSignature
    <2>2. VerifySignature(m.sp, m.artifact) # "invalid"
            <=> VerifySignature(m.sp, m.artifact) = "valid"
      BY <2>1 DEF VerifySignature
    <2>. QED BY <1>2, <1>3, <1>4, <2>1, <2>2
  <1>5. CASE Required(m) /\ m.response.signature # NoSignature
    <2>1. /\ m.artifact # None => VerifySignature(m.sp, m.artifact) # "invalid"
          /\ Outermost(m, item.assertion) = m.response
          /\ sig = VerifySignature(m.sp, m.response)
          /\ sig = "valid" \/ sig = "invalid"
      BY <1>5 DEF Required, Outermost, ResponseSignature, VerifySignature
    <2>. QED BY <1>2, <1>3, <2>1
  <1>6. CASE Required(m) /\ m.response.signature = NoSignature
    <2>1. /\ m.artifact # None => VerifySignature(m.sp, m.artifact) # "invalid"
          /\ Outermost(m, item.assertion) = item.assertion
          /\ sig = "absent"
      BY <1>6 DEF Required, Outermost, ResponseSignature, VerifySignature
    <2>. QED BY <1>2, <1>3, <1>6, <2>1
  <1>. QED BY <1>4, <1>5, <1>6

\* The state of the service provider: it has not decided, or has decided on this
\* message.
Decided == message \in Message /\ (outcome # None => outcome = Decision(message))

LEMMA DecidedInvariant == Spec => []Decided
  <1>1. Init => Decided
    BY DEF Init, Decided
  <1>2. Decided /\ [Next]_vars => Decided'
    BY DEF Decided, Next, ReceivePost, ReceiveArtifact, Decision, vars
  <1>. QED BY <1>1, <1>2, PTL DEF Spec

\* For any message and configuration, the service provider accepts exactly what
\* the profile allows, and returns an assertion that is good.
THEOREM AcceptsConforming == Spec => []AcceptedIffConforming
  <1>1. ASSUME Decided, outcome # None PROVE AcceptedIffConforming
    <2> DEFINE m == message
               signature == ResponseSignature(m.sp, m.response, Required(m))
               acceptable == Acceptable(m.sp, m.response, m.ids, m.now, Required(m))
               signed == m.response.signature # NoSignature
                           /\ (m.artifact # None => m.artifact.signature = NoSignature)
    <2>0. /\ m \in Message /\ outcome = Decision(m)
          /\ DOMAIN m.response.assertions \subseteq Nat
          /\ CurrentURL # None /\ m.sp.acsURL # None
      BY <1>1, MessageAssumption DEF Decided
    <2>1. /\ Inner(m).accepted <=>
               /\ ValidDestination(m.sp, m.response, signature # "absent", CurrentURL)
               /\ ValidRequestID(m.sp, m.response, m.ids)
               /\ m.now <= m.response.issueInstant + MaxIssueDelay
               /\ m.response.issuer \in {None, m.sp.idp}
               /\ m.response.status = "Success"
               /\ signature # "invalid"
               /\ acceptable # {}
          /\ Inner(m).accepted => \E i \in acceptable :
               Inner(m).assertion = m.response.assertions[i].assertion
      BY <2>0, ParseResponseAccepts DEF Inner
    <2>2. signature # "absent" <=> signed
      BY DEF ResponseSignature, Required, VerifySignature
    <2>3. ValidDestination(m.sp, m.response, signature # "absent", CurrentURL) <=>
            /\ m.response.destination = None => ~signed
            /\ m.response.destination \in {None, CurrentURL, m.sp.acsURL}
      BY <2>0, <2>2 DEF ValidDestination
    <2>4. ValidRequestID(m.sp, m.response, m.ids) <=>
            m.response.inResponseTo \in
              m.ids \cup (IF m.sp.allowIDPInitiated THEN {NoID} ELSE {})
      BY DEF ValidRequestID
    <2>5. Good(m) # {} <=>
            /\ m.artifact # None => VerifySignature(m.sp, m.artifact) # "invalid"
            /\ signature # "invalid"
            /\ acceptable # {}
      BY <2>0, GoodIsAcceptable DEF Good, Acceptable
    <2>6. /\ m.artifact # None => VerifySignature(m.sp, m.artifact) # "invalid"
          /\ signature # "invalid"
          => acceptable = Good(m)
      BY <2>0, GoodIsAcceptable DEF Good, Acceptable
    <2>7. /\ outcome.accepted <=>
               /\ m.artifact # None =>
                    /\ EnvelopeConforms(m, m.artifact, {ResolveID})
                    /\ VerifySignature(m.sp, m.artifact) # "invalid"
               /\ Inner(m).accepted
          /\ outcome.accepted => outcome = Inner(m)
      BY <2>0, DecisionAccepts
    <2> HIDE DEF signature, acceptable
    <2>8. outcome.accepted <=>
            /\ Good(m) # {}
            /\ m.artifact # None => EnvelopeConforms(m, m.artifact, {ResolveID})
            /\ EnvelopeConforms(m, m.response,
                  m.ids \cup (IF m.sp.allowIDPInitiated THEN {NoID} ELSE {}))
            /\ m.response.destination = None => ~signed
            /\ m.response.destination \in {None, CurrentURL, m.sp.acsURL}
      BY <2>1, <2>3, <2>4, <2>5, <2>7 DEF EnvelopeConforms
    <2>9. outcome.accepted =>
            \E i \in Good(m) : outcome.assertion = m.response.assertions[i].assertion
      BY <2>1, <2>6, <2>7
    <2>. QED BY <2>8, <2>9 DEF AcceptedIffConforming
  <1>2. outcome = None => AcceptedIffConforming
    BY DEF AcceptedIffConforming
  <1>3. Decided => AcceptedIffConforming
    BY <1>1, <1>2
  <1>. QED BY <1>3, DecidedInvariant, PTL

\* For any message and configuration, an assertion is only accepted if the
\* outermost signature around it is valid.
THEOREM AcceptedIsSigned == Spec => []OutermostSignatureValid
  <1>1. AcceptedIffConforming => OutermostSignatureValid
    BY DEF AcceptedIffConforming, OutermostSignatureValid, Good
  <1>. QED BY <1>1, AcceptsConforming, PTL

=============================================================================
