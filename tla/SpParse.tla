------------------------------- MODULE SpParse -------------------------------
(***************************************************************************)
(* A service provider that receives one message and decides on it, to      *)
(* compare SpResponse with what it has to achieve.  A message comes by the *)
(* HTTP-POST binding (artifact is None) or as the answer to an             *)
(* ArtifactResolve.                                                        *)
(***************************************************************************)
EXTENDS SpResponse

CONSTANTS
    Message,    \* [sp, artifact, response, ids, now]
    ResolveID,  \* the ID of the ArtifactResolve
    CurrentURL  \* the URL of the request, or of the artifact resolution

\* A message is what encoding/xml can have read: assertions and confirmations are
\* slices, an ArtifactResponse is a structure, and times are times.
ASSUME MessageAssumption ==
    /\ CurrentURL # None
    /\ \A m \in Message :
          /\ m.now \in Nat /\ m.response # None /\ m.sp.acsURL # None
          /\ DOMAIN m.response.assertions \subseteq Nat
          /\ m.artifact # None =>
               /\ m.artifact = [x \in DOMAIN m.artifact |-> m.artifact[x]]
               /\ {"signature", "inResponseTo", "issueInstant", "issuer", "status",
                   "response"} \subseteq DOMAIN m.artifact
          /\ \A i \in DOMAIN m.response.assertions :
                LET a == m.response.assertions[i].assertion IN
                /\ a.notBefore \in Nat /\ a.notOnOrAfter \in Nat
                /\ \A j \in DOMAIN a.confirmations :
                      a.confirmations[j].notOnOrAfter \in Nat

VARIABLES
    message,    \* the message received
    outcome     \* what the service provider made of it, or None

vars == <<message, outcome>>

Init ==
    /\ message \in Message
    /\ outcome = None

\* parseResponseHTTP
ReceivePost ==
    /\ outcome = None
    /\ message.artifact = None
    /\ outcome' = ParseXMLResponse(message.sp, message.response, message.ids,
                                   message.now, CurrentURL)
    /\ UNCHANGED message

\* The end of handleArtifactRequest: the IdP has answered the ArtifactResolve.
ReceiveArtifact ==
    /\ outcome = None
    /\ message.artifact # None
    /\ outcome' = ParseXMLArtifactResponse(message.sp,
                     [message.artifact EXCEPT !.response = message.response],
                     message.ids, ResolveID, message.now, CurrentURL)
    /\ UNCHANGED message

Next == ReceivePost \/ ReceiveArtifact

Spec == Init /\ [][Next]_vars

-----------------------------------------------------------------------------
\* Properties.

\* The signature that has to be valid if assertion a is accepted: that of the
\* outermost signed element that contains it.
Outermost(m, a) ==
    CASE m.artifact # None /\ m.artifact.signature # NoSignature -> m.artifact
      [] m.response.signature # NoSignature
           /\ (m.artifact # None => m.artifact.signature = NoSignature) -> m.response
      [] OTHER -> a

\* An assertion is only accepted if the outermost signature around it was made
\* by the identity provider over what was received: a message without any
\* signature is refused, and a bad signature on the envelope is not made up for
\* by a good one inside, although parseResponse acts on it late.
OutermostSignatureValid ==
    outcome # None /\ outcome.accepted =>
       VerifySignature(message.sp, Outermost(message, outcome.assertion)) = "valid"

\* What the Web Browser SSO profile asks of an assertion, for this service
\* provider, these pending requests and this moment.
Conforms(m, a) ==
    /\ a.issuer = m.sp.idp
    /\ m.now <= a.issueInstant + MaxIssueDelay
    /\ a.subject
    /\ a.conditions
    /\ m.now + MaxClockSkew >= a.notBefore
    /\ m.now - MaxClockSkew <= a.notOnOrAfter
    /\ a.audiences # <<>>
    /\ \A i \in DOMAIN a.audiences : m.sp.entityID \in a.audiences[i]
    /\ \E i \in DOMAIN a.confirmations :
          LET c == a.confirmations[i] IN
          /\ c.bearer /\ c.data /\ c.recipient = m.sp.acsURL
          /\ m.now - MaxClockSkew <= c.notOnOrAfter
          /\ c.inResponseTo \in m.ids \cup (IF m.sp.allowIDPInitiated THEN {NoID} ELSE {})

\* What it asks of the envelope el, a Response or an ArtifactResponse.
EnvelopeConforms(m, el, ids) ==
    /\ m.now <= el.issueInstant + MaxIssueDelay
    /\ el.issuer \in {None, m.sp.idp}
    /\ el.status = "Success"
    /\ el.inResponseTo \in ids

\* The assertions of a message that, decrypted if need be, conform and are vouched
\* for by the outermost signature around them.
Good(m) ==
    {i \in DOMAIN m.response.assertions :
       LET item == m.response.assertions[i] IN
       /\ item.encrypted => item.decrypts
       /\ Conforms(m, item.assertion)
       /\ VerifySignature(m.sp, Outermost(m, item.assertion)) = "valid"}

\* A message is accepted exactly when its envelopes conform and some assertion
\* of it is good.  The assertion returned is such a one.
AcceptedIffConforming ==
    LET m == message
        signed == m.response.signature # NoSignature
                    /\ (m.artifact # None => m.artifact.signature = NoSignature)
    IN
    outcome # None =>
       /\ outcome.accepted <=>
            /\ Good(m) # {}
            /\ m.artifact # None => EnvelopeConforms(m, m.artifact, {ResolveID})
            /\ EnvelopeConforms(m, m.response,
                  m.ids \cup (IF m.sp.allowIDPInitiated THEN {NoID} ELSE {}))
            /\ m.response.destination = None => ~signed
            /\ m.response.destination \in {None, CurrentURL, m.sp.acsURL}
       /\ outcome.accepted =>
            \E i \in Good(m) : outcome.assertion = m.response.assertions[i].assertion

=============================================================================
