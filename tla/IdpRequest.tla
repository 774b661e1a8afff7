----------------------------- MODULE IdpRequest -----------------------------
(***************************************************************************)
(* How the identity provider judges an AuthnRequest and what it answers:   *)
(* Validate and what it calls, the default enforcers, the default          *)
(* AssertionMaker and the choice of encryption, from identity_provider.go  *)
(* and identity_provider_signature.go.                                     *)
(*                                                                         *)
(* A message m, as NewIdpAuthnRequest has it, is a record of               *)
(*   request    the AuthnRequest encoding/xml reads from the buffer,       *)
(*   relay      the RelayState,                                            *)
(*   signature  the enveloped signature: NoSignature, or the key that made *)
(*              it and the AuthnRequest it covers, which encoding/xml may  *)
(*              read differently,                                          *)
(*   query      the signature of the HTTP-Redirect query: NoSignature, or  *)
(*              the key and whether it covers the parameters as received.  *)
(* Keys and their certificates are not told apart.  BadCert is a           *)
(* certificate that cannot be parsed.                                      *)
(***************************************************************************)
EXTENDS Integers, Sequences

CONSTANTS
    None,           \* an absent optional value
    NoSignature,    \* no signature
    NoID,           \* the empty InResponseTo
    BadCert,        \* a certificate that cannot be parsed
    MaxIssueDelay,  \* saml.MaxIssueDelay
    MaxClockSkew    \* saml.MaxClockSkew

ASSUME DelaysAssumption == MaxIssueDelay \in Nat /\ MaxClockSkew \in Nat

\* The identity provider has the fields wantSigned (WantAuthnRequestsSigned),
\* maxAge (MaxAuthnRequestAge or its default) and strength (of the
\* DefaultAuthnContextEnforcer, a function on the ranked classes).
\*
\* An AuthnRequest has the fields wellFormed (its size, XML, version and ID),
\* issuer, id, issueInstant, destination, acsIndex, acsURL, passive, force,
\* subject, policy and context; a missing one is None.
\*
\* Metadata has the entity ID and a sequence of SPSSODescriptors, each with signs
\* (AuthnRequestsSigned), keys and acs, the sequences of its KeyDescriptors (use
\* and cert) and AssertionConsumerServices.

-----------------------------------------------------------------------------
\* The request.

\* checkRequest, with the size and syntax checks of Validate.
CheckRequest(idp, q, now) ==
    /\ q.wellFormed
    /\ idp.wantSigned \/ q.destination # None => q.destination = "sso"
    /\ now <= q.issueInstant + idp.maxAge
    /\ q.issueInstant <= now + MaxClockSkew
    /\ q.issuer # None

\* All KeyDescriptors of a service provider.
Keys(md) ==
    UNION {{md.descriptors[i].keys[j] : j \in DOMAIN md.descriptors[i].keys} :
             i \in DOMAIN md.descriptors}

\* serviceProviderSigningCertificates
SigningCertificates(md) ==
    {k.cert : k \in {k \in Keys(md) : k.use \in {"signing", ""} /\ k.cert # None}}

\* serviceProviderSignsAuthnRequests: any descriptor says so.
SignsAuthnRequests(md) == \E i \in DOMAIN md.descriptors : md.descriptors[i].signs

IsSigned(m) == m.signature # NoSignature \/ m.query # NoSignature

\* verifyRedirectSignature: the query is what one of the certificates' keys signed.
ValidQuery(m, certs) == m.query.intact /\ m.query.key \in certs

\* verifyEnvelopedSignature
ValidEnveloped(m, certs) == m.signature.key \in certs

\* Mutant of VerifiedRequest: the request stays what encoding/xml read.
MutantVerifiedRequest(m) == m.request

\* useVerifiedRequest: the request that is acted on.
VerifiedRequest(m) ==
    IF m.signature = NoSignature THEN m.request ELSE m.signature.covers

\* Mutant of VerifySignature: the times of what the signature covers are not
\* checked again.
MutantVerifySignature(idp, md, m, now) ==
    LET certs == SigningCertificates(md) IN
    IF ~IsSigned(m) THEN ~(idp.wantSigned \/ SignsAuthnRequests(md))
    ELSE /\ certs # {} /\ BadCert \notin certs
         /\ m.query # NoSignature => ValidQuery(m, certs)
         /\ m.signature # NoSignature =>
              ValidEnveloped(m, certs) /\ m.signature.covers.issuer = m.request.issuer
         /\ VerifiedRequest(m).destination # None

\* verifyAuthnRequestSignature
VerifySignature(idp, md, m, now) ==
    LET certs == SigningCertificates(md)
        covered == m.signature.covers
    IN
    IF ~IsSigned(m) THEN ~(idp.wantSigned \/ SignsAuthnRequests(md))
    ELSE /\ certs # {} /\ BadCert \notin certs
         /\ m.query # NoSignature => ValidQuery(m, certs)
         /\ m.signature # NoSignature =>
              /\ ValidEnveloped(m, certs)
              /\ CheckRequest(idp, covered, now)
              /\ covered.issuer = m.request.issuer
         /\ VerifiedRequest(m).destination # None

-----------------------------------------------------------------------------
\* The assertion consumer service.

Endpoint(md, p) == md.descriptors[p[1]].acs[p[2]]

\* Mutant of PostEndpoints: the binding of an endpoint is not looked at.
MutantPostEndpoints(md) ==
    UNION {{<<i, j>> : j \in DOMAIN md.descriptors[i].acs} : i \in DOMAIN md.descriptors}

\* The places of the HTTP-POST endpoints in the metadata.
PostEndpoints(md) ==
    {p \in UNION {{<<i, j>> : j \in DOMAIN md.descriptors[i].acs} :
                    i \in DOMAIN md.descriptors} :
       Endpoint(md, p).binding = "post"}

\* The first of some places, None if there are none.
FirstPlace(S) ==
    IF S = {} THEN None
    ELSE CHOOSE p \in S : \A q \in S : p[1] < q[1] \/ (p[1] = q[1] /\ p[2] <= q[2])

Preference(e) == CASE e.default = None -> 2 [] e.default = TRUE -> 3 [] OTHER -> 1

\* useDefaultACSEndpoint: the first of the most preferred.
DefaultACSEndpoint(md) ==
    FirstPlace({p \in PostEndpoints(md) :
                  \A q \in PostEndpoints(md) :
                     Preference(Endpoint(md, p)) >= Preference(Endpoint(md, q))})

\* getACSEndpoint: by the index, or else by the URL, or the default if the
\* request names neither.
ACSEndpoint(md, q) ==
    LET byIndex == {p \in PostEndpoints(md) :
                      q.acsIndex # None /\ Endpoint(md, p).index = q.acsIndex}
        byURL == {p \in PostEndpoints(md) :
                    q.acsURL # None /\ Endpoint(md, p).location = q.acsURL}
    IN
    IF q.acsIndex = None /\ q.acsURL = None THEN DefaultACSEndpoint(md)
    ELSE FirstPlace(IF byIndex # {} THEN byIndex ELSE byURL)

\* Validate: what is left of it once the metadata of the issuer is known.
Validate(idp, md, m, now) ==
    /\ CheckRequest(idp, m.request, now)
    /\ VerifySignature(idp, md, m, now)
    /\ ACSEndpoint(md, VerifiedRequest(m)) # None

-----------------------------------------------------------------------------
\* The assertion.

\* MakeAssertion: NoID for a request that the identity provider initiated.  The
\* attributes, which are the user's, are represented by the NameID.
MakeAssertion(md, acs, id, session, arrived, now) ==
    [nameID |-> session.nameID, format |-> session.format, qualifier |-> md.entity,
     inResponseTo |-> id, recipient |-> Endpoint(md, acs).location,
     address |-> session.address, notBefore |-> arrived - MaxClockSkew,
     notOnOrAfter |-> arrived + MaxIssueDelay, audience |-> md.entity,
     issueInstant |-> now, authnInstant |-> session.create, class |-> session.class]

Given(requested, asserted) == requested = None \/ requested = asserted

\* satisfiesConfirmationData.  The asserted data has no NotBefore.
SatisfiesConfirmationData(c, a) ==
    /\ Given(c.recipient, a.recipient)
    /\ Given(c.inResponseTo, a.inResponseTo)
    /\ Given(c.address, a.address)
    /\ c.notBefore = None
    /\ c.notOnOrAfter # None => a.notOnOrAfter <= c.notOnOrAfter

\* EnforceSubject and confirmsSubject.  The asserted confirmation is a bearer one
\* without a NameID of its own.
EnforceSubject(subject, a) ==
    /\ subject.nameID # None /\ subject.nameID = a.nameID
    /\ subject.format # "unspecified" => Given(subject.format, a.format)
    /\ Given(subject.qualifier, a.qualifier)
    /\ \/ subject.confirmations = {}
       \/ \E c \in subject.confirmations :
             c.bearer /\ c.nameID = None /\ SatisfiesConfirmationData(c, a)

\* EnforceNameIDPolicy
EnforceNameIDPolicy(policy, a) ==
    /\ policy.format # "encrypted"
    /\ policy.format # "unspecified" => Given(policy.format, a.format)
    /\ Given(policy.qualifier, a.qualifier)

\* compare: neither stronger nor weaker if one of them is not ranked.
Stronger(strength, x, y) ==
    x \in DOMAIN strength /\ y \in DOMAIN strength /\ strength[x] > strength[y]

\* Mutant of Satisfies: a better class may be as strong.
MutantSatisfies(strength, comparison, x, y) ==
    CASE comparison = "exact" -> x = y
      [] comparison \in {"minimum", "better"} -> x = y \/ Stronger(strength, x, y)
      [] comparison = "maximum" -> x = y \/ Stronger(strength, y, x)
      [] OTHER -> FALSE

\* An asserted class x satisfies a requested one.
Satisfies(strength, comparison, x, y) ==
    CASE comparison = "exact" -> x = y
      [] comparison = "minimum" -> x = y \/ Stronger(strength, x, y)
      [] comparison = "maximum" -> x = y \/ Stronger(strength, y, x)
      [] comparison = "better" -> Stronger(strength, x, y)
      [] OTHER -> FALSE

\* EnforceAuthnContext
EnforceAuthnContext(idp, context, a) ==
    /\ ~context.declRefs
    /\ \E y \in context.classes : Satisfies(idp.strength, context.comparison, a.class, y)

\* The status ServeSSO answers with: that of the first enforcer to refuse.
Status(idp, q, a) ==
    IF q.subject # None /\ ~EnforceSubject(q.subject, a) THEN "AuthnFailed"
    ELSE IF q.policy # None /\ ~EnforceNameIDPolicy(q.policy, a) THEN "InvalidNameIDPolicy"
    ELSE IF q.context # None /\ ~EnforceAuthnContext(idp, q.context, a) THEN "NoAuthnContext"
    ELSE "Success"

-----------------------------------------------------------------------------
\* Encryption.

\* spEncryptionKeyDescriptor: the certificate of the first key for encryption,
\* or else of the first without a use, that has one.
EncryptionCert(descriptor) ==
    LET usable(use) == {j \in DOMAIN descriptor.keys :
                          descriptor.keys[j].use = use /\ descriptor.keys[j].cert # None}
        first(S) == CHOOSE j \in S : \A k \in S : j <= k
    IN
    CASE usable("encryption") # {} -> descriptor.keys[first(usable("encryption"))].cert
      [] usable("encryption") = {} /\ usable("") # {} ->
            descriptor.keys[first(usable(""))].cert
      [] OTHER -> None

\* Mutant of AcceptsEncryption: only keys with a certificate count.
MutantAcceptsEncryption(md) == \E k \in Keys(md) : k.use # "signing" /\ k.cert # None

\* serviceProviderAcceptsEncryption: any key of any descriptor may be for it.
AcceptsEncryption(md) == \E k \in Keys(md) : k.use # "signing"

\* getSPEncryptionCert: "plain", "error", or the certificate to encrypt to.
Encryption(md, acs) ==
    LET cert == EncryptionCert(md.descriptors[acs[1]]) IN
    CASE cert = None /\ AcceptsEncryption(md) -> "error"
      [] cert = None /\ ~AcceptsEncryption(md) -> "plain"
      [] cert = BadCert -> "error"
      [] OTHER -> cert

=============================================================================
