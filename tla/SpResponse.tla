----------------------------- MODULE SpResponse -----------------------------
(***************************************************************************)
(* How a service provider decides whether to accept a response of the      *)
(* identity provider: ParseXMLResponse, ParseXMLArtifactResponse and what  *)
(* they call in service_provider.go.                                       *)
(*                                                                         *)
(* An element of the message is a record of what the code reads from it.   *)
(* Its signature is NoSignature or says which key made it, which           *)
(* certificate its KeyInfo embeds (None if there is none in it), and       *)
(* whether the element is still what was signed.  A certificate goes by    *)
(* the name of its key.                                                    *)
(***************************************************************************)
EXTENDS Naturals, Sequences

CONSTANTS
    None,           \* an absent optional value
    NoSignature,    \* an element without a Signature
    NoID,           \* the empty InResponseTo
    MaxIssueDelay,  \* saml.MaxIssueDelay
    MaxClockSkew    \* saml.MaxClockSkew

ASSUME DelaysAssumption == MaxIssueDelay \in Nat /\ MaxClockSkew \in Nat

\* The configuration sp of a service provider has the fields: entityID, acsURL,
\* idp (EntityID of IDPMetadata), allowIDPInitiated, metadataCerts (the signing
\* certificates of IDPMetadata, each listed once), fingerprint and certificate
\* (IDPCertificateFingerprint with its algorithm, and IDPCertificate; or None), and
\* expired (the certificates that are not valid at this time).

-----------------------------------------------------------------------------
\* Signatures.

\* The certificates to verify el with, none if the configuration is inconsistent
\* or the fingerprint is not that of the embedded certificate.
SigningCerts(sp, el) ==
    CASE sp.fingerprint = None /\ sp.certificate = None -> sp.metadataCerts
      [] sp.fingerprint # None /\ sp.certificate = None ->
            {c \in {el.signature.embedded} : c = sp.fingerprint}
      [] sp.fingerprint = None /\ sp.certificate # None -> {sp.certificate}
      [] OTHER -> {}

\* verifyCertificate: the certificate the signature is checked with, if there is
\* one.  It is the embedded one, which has to be among those of the identity
\* provider; a KeyInfo without a certificate is dropped, and then the only one is
\* taken.
VerifyCertificate(sp, el) ==
    LET roots == SigningCerts(sp, el)
        untrusted == IF el.signature.embedded # None THEN {el.signature.embedded}
                     ELSE {c \in roots : roots = {c}}
    IN  (roots \cap untrusted) \ sp.expired

\* verifySignature: "valid", "absent" (errSignatureElementNotPresent), "invalid".
VerifySignature(sp, el) ==
    IF el.signature = NoSignature THEN "absent"
    ELSE IF el.signature.intact /\ el.signature.key \in VerifyCertificate(sp, el)
    THEN "valid" ELSE "invalid"

-----------------------------------------------------------------------------
\* Results.

Accept(assertion) == [accepted |-> TRUE, assertion |-> assertion, error |-> "none"]
Reject(error) == [accepted |-> FALSE, assertion |-> None, error |-> error]

\* The positions of the checks <<name, holds>> that fail, in the code's order.
Failing(checks) == {i \in DOMAIN checks : ~checks[i][2]}
First(S) == CHOOSE i \in S : \A j \in S : i <= j

-----------------------------------------------------------------------------
\* One assertion.

\* validateBearerSubjectConfirmation
ValidBearer(sp, c, ids, now) ==
    /\ c.data
    /\ ~(sp.allowIDPInitiated /\ c.inResponseTo = NoID) => c.inResponseTo \in ids
    /\ c.recipient = sp.acsURL
    /\ now <= c.notOnOrAfter + MaxClockSkew

\* validateSubjectConfirmations: one bearer confirmation is enough.
ValidSubject(sp, a, ids, now) ==
    /\ a.subject
    /\ \E i \in DOMAIN a.confirmations :
          /\ a.confirmations[i].bearer
          /\ ValidBearer(sp, a.confirmations[i], ids, now)

\* Mutant of ValidAudience: one of the restrictions is enough.
MutantValidAudience(sp, a) ==
    /\ a.conditions
    /\ \E i \in DOMAIN a.audiences : sp.entityID \in a.audiences[i]

\* validateAudienceRestriction: every restriction names this service provider.
ValidAudience(sp, a) ==
    /\ a.conditions
    /\ a.audiences # <<>>
    /\ \A i \in DOMAIN a.audiences : sp.entityID \in a.audiences[i]

\* validateAssertion
ValidAssertion(sp, a, ids, now) ==
    /\ now <= a.issueInstant + MaxIssueDelay
    /\ a.issuer = sp.idp
    /\ ValidSubject(sp, a, ids, now)
    /\ a.conditions => /\ a.notBefore <= now + MaxClockSkew
                       /\ now <= a.notOnOrAfter + MaxClockSkew
    /\ ValidAudience(sp, a)

\* Mutant of AssertionOK: an encrypted assertion need not be signed.
MutantAssertionOK(sp, item, ids, now, required) ==
    /\ item.encrypted => item.decrypts
    /\ required /\ ~item.encrypted => VerifySignature(sp, item.assertion) = "valid"
    /\ ValidAssertion(sp, item.assertion, ids, now)

\* parseAssertion; parseEncryptedAssertion first decrypts the assertion.
AssertionOK(sp, item, ids, now, required) ==
    /\ item.encrypted => item.decrypts
    /\ required => VerifySignature(sp, item.assertion) = "valid"
    /\ ValidAssertion(sp, item.assertion, ids, now)

-----------------------------------------------------------------------------
\* A Response.

\* validateRequestID, without the ValidateRequestID hook.
ValidRequestID(sp, response, ids) ==
    \/ sp.allowIDPInitiated /\ response.inResponseTo = NoID
    \/ response.inResponseTo \in ids

\* The Destination may be missing (None) if the response is not signed.
ValidDestination(sp, response, signed, url) ==
    signed \/ response.destination # None => response.destination \in {url, sp.acsURL}

\* parseResponse.  required: signatureRequirement is signatureRequired.  What is
\* wrong with the signature is acted on only after the attributes are checked;
\* encrypted assertions come before the others, and the first acceptable
\* assertion is returned.
ParseResponse(sp, response, ids, now, required, url) ==
    LET signature == IF required THEN VerifySignature(sp, response) ELSE "absent"
        checks ==
          << <<"destination", ValidDestination(sp, response, signature # "absent", url)>>,
             <<"inResponseTo", ValidRequestID(sp, response, ids)>>,
             <<"expired", now <= response.issueInstant + MaxIssueDelay>>,
             <<"issuer", response.issuer \in {None, sp.idp}>>,
             <<"status", response.status = "Success">>,
             <<"signature", signature # "invalid">> >>
        assertionRequired == required /\ signature = "absent"
        acceptable == {i \in DOMAIN response.assertions :
                         AssertionOK(sp, response.assertions[i], ids, now, assertionRequired)}
        encrypted == {i \in acceptable : response.assertions[i].encrypted}
        first == First(IF encrypted # {} THEN encrypted ELSE acceptable)
    IN
    IF Failing(checks) # {} THEN Reject(checks[First(Failing(checks))][1])
    ELSE IF acceptable = {} THEN Reject("assertion")
    ELSE Accept(response.assertions[first].assertion)

\* ParseXMLResponse, reached from the HTTP-POST binding.
ParseXMLResponse(sp, response, ids, now, url) ==
    ParseResponse(sp, response, ids, now, TRUE, url)

\* ParseXMLArtifactResponse: the answer to the ArtifactResolve with the given ID.
\* A valid signature on it makes those inside unnecessary.
ParseXMLArtifactResponse(sp, artifact, ids, resolveID, now, url) ==
    LET signature == VerifySignature(sp, artifact)
        checks ==
          << <<"inResponseTo", artifact.inResponseTo = resolveID>>,
             <<"expired", now <= artifact.issueInstant + MaxIssueDelay>>,
             <<"issuer", artifact.issuer \in {None, sp.idp}>>,
             <<"status", artifact.status = "Success">>,
             <<"signature", signature # "invalid">>,
             <<"response", artifact.response # None>> >>
    IN
    IF Failing(checks) # {} THEN Reject(checks[First(Failing(checks))][1])
    ELSE ParseResponse(sp, artifact.response, ids, now, signature = "absent", url)

=============================================================================
