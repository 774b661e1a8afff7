---------------------------- MODULE SingleLogout ----------------------------
(***************************************************************************)
(* Single logout: a service provider of service_provider.go asks the       *)
(* identity provider of identity_provider_logout.go to end the session of  *)
(* a browser, and believes the answer.  Messages travel through the        *)
(* browser: any of them may arrive late, again, or never, and others that  *)
(* nobody here sent may arrive as well.                                    *)
(*                                                                         *)
(* The LogoutSessionProvider is that of samlidp, whose TerminateSession is *)
(* one step here; UserSessions has its single Store operations.  Messages, *)
(* keys and metadata are those of IdpRequest and SpResponse, with the      *)
(* SingleLogoutServices of a descriptor as the field slo.                  *)
(***************************************************************************)
EXTENDS IdpRequest, FiniteSets

CONSTANTS
    Sp,                 \* the service provider: a configuration of SpResponse
                        \* with sloURL, key (None without a SignatureMethod)
                        \* and bindings (LogoutBindings)
    Entity,             \* entity IDs
    Others,             \* Others[e]: metadata of the other service providers
    User,               \* NameIDs of users
    StrayRequests,      \* LogoutRequests of others, or not of who they say
    StrayResponses,     \* LogoutResponses not made by the identity provider
    IdpSLO,             \* the SingleLogoutService of the identity provider's metadata
    IdpRequests,        \* IDs of LogoutRequests of the identity provider
    Failures,           \* the Store of the identity provider may fail
    SessionMaxAge,      \* sessionMaxAge
    MaxRequests,        \* bound on the LogoutRequests of Sp
    MaxResponses,       \* bound on the LogoutResponses of the identity provider
    MaxSessions,        \* bound on logins
    MaxTime             \* bound on the clock

ASSUME LogoutAssumption ==
    /\ Failures \in BOOLEAN
    /\ SessionMaxAge \in Nat /\ MaxRequests \in Nat /\ MaxSessions \in Nat
    /\ MaxTime \in Nat /\ MaxResponses \in Nat
    /\ Sp.entityID \in Entity /\ None \notin Entity
    /\ DOMAIN Others \subseteq Entity
    /\ \A m \in StrayRequests : m.binding \in {"redirect", "post"}
    /\ DOMAIN Sp.bindings \subseteq Nat
    /\ \A e \in DOMAIN Others : Others[e] # None =>
          /\ DOMAIN Others[e].descriptors \subseteq Nat
          /\ \A i \in DOMAIN Others[e].descriptors : DOMAIN Others[e].descriptors[i].slo \subseteq Nat

VARIABLES
    now,        \* saml.TimeNow, at both ends
    session,    \* the session at the identity provider the browser's cookie names
    logins,     \* number of sessions so far, the index of the latest
    made,       \* number of LogoutRequests Sp has made, the ID of the latest
    pending,    \* possibleRequestIDs: those Sp's application still waits for
    done,       \* those it has got a valid response to
    requests,   \* LogoutRequests that may arrive
    responses,  \* LogoutResponses that may arrive
    ended       \* <<issuer, ID>> of the requests after whose success the browser
                \* had no session left (history)

vars == <<now, session, logins, made, pending, done, requests, responses, ended>>

SPR == INSTANCE SpResponse

-----------------------------------------------------------------------------
\* Metadata of the service provider (ServiceProvider.Metadata).
SpMetadata ==
    [entity |-> Sp.entityID,
     descriptors |->
       << [signs |-> Sp.key # None,
           keys |-> IF Sp.key = None THEN <<>> ELSE <<[use |-> "signing", cert |-> Sp.key]>>,
           acs |-> <<>>,
           slo |-> [i \in DOMAIN Sp.bindings |->
                      [binding |-> Sp.bindings[i], location |-> Sp.sloURL,
                       response |-> Sp.sloURL]]] >>]

ServiceProvider(e) == IF e = Sp.entityID THEN SpMetadata
                      ELSE IF e \in DOMAIN Others THEN Others[e] ELSE None

Init ==
    /\ now = 0
    /\ session = None
    /\ logins = 0
    /\ made = 0
    /\ pending = {}
    /\ done = {}
    /\ requests = StrayRequests
    /\ responses = StrayResponses
    /\ ended = {}

Tick ==
    /\ now < MaxTime
    /\ now' = now + 1
    /\ UNCHANGED <<session, logins, made, pending, done, requests, responses, ended>>

\* A user logs in at the identity provider, in place of whoever was.
Login(u) ==
    /\ logins < MaxSessions
    /\ logins' = logins + 1
    /\ session' = [nameID |-> u, index |-> logins + 1, expire |-> now + SessionMaxAge]
    /\ UNCHANGED <<now, made, pending, done, requests, responses, ended>>

-----------------------------------------------------------------------------
\* The service provider asks.

\* MakeLogoutRequest, which names no session index, with Redirect or Post.  It is
\* signed in the query or in the message, if there is a SignatureMethod.
LogoutRequest(id, nameID, binding) ==
    LET q == [wellFormed |-> TRUE, issuer |-> Sp.entityID, id |-> id, issueInstant |-> now,
              destination |-> "slo", notOnOrAfter |-> None, nameID |-> nameID,
              indexes |-> {}]
    IN [binding |-> binding, request |-> q, relay |-> "rs",
        signature |-> IF Sp.key # None /\ binding = "post"
                      THEN [key |-> Sp.key, covers |-> q] ELSE NoSignature,
        query |-> IF Sp.key # None /\ binding = "redirect"
                  THEN [key |-> Sp.key, intact |-> TRUE] ELSE NoSignature]

\* The application sends the request and waits for the response to its ID.
StartLogout(nameID, binding) ==
    /\ made < MaxRequests
    /\ made' = made + 1
    /\ pending' = pending \cup {made + 1}
    /\ requests' = requests \cup {LogoutRequest(made + 1, nameID, binding)}
    /\ UNCHANGED <<now, session, logins, done, responses, ended>>

-----------------------------------------------------------------------------
\* ServeSLO: Validate.

\* checkRequest, with the size and syntax checks of Validate.
CheckLogoutRequest(q) ==
    /\ q.wellFormed
    /\ q.destination = "slo"
    /\ now <= q.issueInstant + MaxIssueDelay
    /\ q.issueInstant <= now + MaxClockSkew
    /\ q.notOnOrAfter # None => now < q.notOnOrAfter
    /\ q.issuer # None

\* Mutant of VerifyLogoutSignature: what the signature covers is not checked.
MutantVerifyLogoutSignature(md, m) ==
    LET certs == SigningCertificates(md) IN
    /\ IsSigned(m)
    /\ certs # {} /\ BadCert \notin certs
    /\ m.query # NoSignature => ValidQuery(m, certs)
    /\ m.signature # NoSignature => ValidEnveloped(m, certs)

\* verifySignature: a signature is required, and each one there has to be valid.
VerifyLogoutSignature(md, m) ==
    LET certs == SigningCertificates(md) IN
    /\ IsSigned(m)
    /\ certs # {} /\ BadCert \notin certs
    /\ m.query # NoSignature => ValidQuery(m, certs)
    /\ m.signature # NoSignature =>
         /\ ValidEnveloped(m, certs)
         /\ CheckLogoutRequest(m.signature.covers)
         /\ m.signature.covers.issuer = m.request.issuer

SLOPlaces(md, binding) ==
    {p \in UNION {{<<i, j>> : j \in DOMAIN md.descriptors[i].slo} : i \in DOMAIN md.descriptors} :
       md.descriptors[p[1]].slo[p[2]].binding = binding}

\* Mutant of SLOEndpoint: only the binding of the request will do.
MutantSLOEndpoint(md, binding) == FirstPlace(SLOPlaces(md, binding))

\* getSLOEndpoint: that of the request's binding, or else HTTP-Redirect, or else
\* HTTP-POST; the first of them.
SLOEndpoint(md, binding) ==
    FirstPlace(CASE SLOPlaces(md, binding) # {} -> SLOPlaces(md, binding)
                 [] SLOPlaces(md, binding) = {} /\ SLOPlaces(md, "redirect") # {} ->
                       SLOPlaces(md, "redirect")
                 [] OTHER -> SLOPlaces(md, "post"))

\* Validate.  The rest of ServeSLO is for a request that passes; any other is
\* refused with a 400, which changes nothing.
ValidLogout(m) ==
    LET md == ServiceProvider(m.request.issuer) IN
    /\ CheckLogoutRequest(m.request)
    /\ md # None
    /\ VerifyLogoutSignature(md, m)
    /\ VerifiedRequest(m).nameID # None
    /\ SLOEndpoint(md, m.binding) # None

-----------------------------------------------------------------------------
\* ServeSLO: TerminateSession and WriteResponse.

Existing == IF session # None /\ now <= session.expire THEN session ELSE None

\* Does the request name the session?
Names(q, s) == s.nameID = q.nameID /\ (q.indexes = {} \/ s.index \in q.indexes)

\* Mutant of TerminateSession: a POST without the cookie finds no session.
MutantTerminateSession(m, sent) ==
    LET q == VerifiedRequest(m) IN
    CASE ~sent \/ Existing = None -> [status |-> "Success", session |-> session]
      [] sent /\ Existing # None /\ Names(q, Existing) ->
            [status |-> "Success", session |-> None]
      [] OTHER -> [status |-> "Responder", session |-> session]

\* TerminateSession, for a browser that has sent its cookie or not.
TerminateSession(m, sent) ==
    LET q == VerifiedRequest(m) IN
    CASE m.binding = "post" /\ ~sent -> [status |-> "Responder", session |-> session]
      [] (m.binding = "redirect" \/ sent) /\ (~sent \/ Existing = None) ->
            [status |-> "Success", session |-> session]
      [] sent /\ Existing # None /\ Names(q, Existing) ->
            [status |-> "Success", session |-> None]
      [] OTHER -> [status |-> "Responder", session |-> session]

\* responseLocation
ResponseLocation(endpoint) ==
    IF endpoint.response # None THEN endpoint.response ELSE endpoint.location

\* MakeResponse and WriteResponse: signed in the query or in the message.
LogoutResponse(m, status) ==
    LET md == ServiceProvider(m.request.issuer)
        p == SLOEndpoint(md, m.binding)
        endpoint == md.descriptors[p[1]].slo[p[2]]
        viaQuery == endpoint.binding = "redirect"
    IN [binding |-> endpoint.binding,
        inResponseTo |-> VerifiedRequest(m).id, issueInstant |-> now,
        destination |-> ResponseLocation(endpoint), issuer |-> "idp", status |-> status,
        signature |-> IF viaQuery THEN NoSignature
                      ELSE [key |-> "idp", embedded |-> "idp", intact |-> TRUE],
        query |-> IF viaQuery THEN [key |-> "idp", intact |-> TRUE] ELSE NoSignature]

Send(r) ==
    /\ Cardinality((responses \cup {r}) \ StrayResponses) <= MaxResponses
    /\ responses' = responses \cup {r}

\* A valid request is served.  The cookie is SameSite=Lax: a navigation carries
\* it, a POST only from the same site.
ServeSLO(m, sameSite) ==
    LET sent == session # None /\ (m.binding = "redirect" \/ sameSite)
        result == TerminateSession(m, sent)
        left == result.session # None /\ now <= result.session.expire
    IN
    /\ ValidLogout(m)
    /\ session' = result.session
    /\ Send(LogoutResponse(m, result.status))
    /\ ended' = IF result.status = "Success" /\ ~left
                THEN ended \cup {<<m.request.issuer, VerifiedRequest(m).id>>} ELSE ended
    /\ UNCHANGED <<now, logins, made, pending, done, requests>>

\* The Store fails, in existingSession or in the deletion.
StoreError(m) ==
    /\ Failures
    /\ session # None
    /\ ValidLogout(m)
    /\ Send(LogoutResponse(m, "Responder"))
    /\ UNCHANGED <<now, session, logins, made, pending, done, requests, ended>>

-----------------------------------------------------------------------------
\* The service provider is answered.

\* redirectSigningCertificates: a fingerprint selects from the metadata.
RedirectSigningCertificates ==
    CASE Sp.fingerprint = None /\ Sp.certificate = None -> Sp.metadataCerts
      [] Sp.fingerprint # None /\ Sp.certificate = None ->
            {c \in Sp.metadataCerts : c = Sp.fingerprint}
      [] Sp.fingerprint = None /\ Sp.certificate # None -> {Sp.certificate}
      [] OTHER -> {}

\* ValidateLogoutResponseRedirect for a signed query, ValidateLogoutResponseForm
\* and the other case of the former for a signature in the message.
SignedByIdp(r) ==
    IF r.binding = "redirect" /\ r.query # NoSignature
    THEN r.query.intact /\ r.query.key \in RedirectSigningCertificates
    ELSE SPR!VerifySignature(Sp, r) = "valid"

\* What validateLogoutResponse checks of a response whenever it arrives: a success that
\* the service provider takes for its identity provider's.
SuccessForSp(r) ==
    SignedByIdp(r) /\ r.destination = Sp.sloURL /\ r.issuer = Sp.idp /\ r.status = "Success"

\* Nobody else has a key that the service provider takes for the identity provider's,
\* and no other service provider is registered to be answered where it is.
ASSUME PartiesAssumption ==
    /\ Sp.idp # Sp.entityID
    /\ \A r \in StrayResponses : ~SuccessForSp(r)
    /\ \A e \in DOMAIN Others \ {Sp.entityID} : Others[e] # None =>
          \A i \in DOMAIN Others[e].descriptors : \A j \in DOMAIN Others[e].descriptors[i].slo :
             LET endpoint == Others[e].descriptors[i].slo[j] IN
             endpoint.binding \in {"redirect", "post"} => ResponseLocation(endpoint) # Sp.sloURL

\* validateLogoutResponse, in time and for a request that is waited for.
ValidLogoutResponse(r) ==
    /\ SuccessForSp(r)
    /\ now <= r.issueInstant + MaxIssueDelay
    /\ r.inResponseTo \in pending

\* ValidateLogoutResponseRequest.  The application stops accepting an ID that has
\* been used; an invalid response changes nothing.
ReceiveResponse(r) ==
    /\ ValidLogoutResponse(r)
    /\ pending' = pending \ {r.inResponseTo}
    /\ done' = done \cup {r.inResponseTo}
    /\ UNCHANGED <<now, session, logins, made, requests, responses, ended>>

\* MakeLogoutResponse with Redirect or Post: the application answers a LogoutRequest
\* of the identity provider.  It is sent to GetSLOBindingLocation, the Location of the
\* identity provider's SingleLogoutService, but may arrive anywhere.
AnswerIdp(id, binding) ==
    /\ Send([binding |-> binding, inResponseTo |-> id,
             issueInstant |-> now, destination |-> IdpSLO.location, issuer |-> Sp.entityID,
             status |-> "Success",
             signature |-> IF Sp.key # None /\ binding = "post"
                           THEN [key |-> Sp.key, embedded |-> Sp.key, intact |-> TRUE]
                           ELSE NoSignature,
             query |-> IF Sp.key # None /\ binding = "redirect"
                       THEN [key |-> Sp.key, intact |-> TRUE] ELSE NoSignature])
    /\ UNCHANGED <<now, session, logins, made, pending, done, requests, ended>>

-----------------------------------------------------------------------------
Next ==
    \/ Tick
    \/ \E u \in User : Login(u)
    \/ \E u \in User, binding \in {"redirect", "post"} : StartLogout(u, binding)
    \/ \E m \in requests : StoreError(m) \/ \E sameSite \in BOOLEAN : ServeSLO(m, sameSite)
    \/ \E r \in responses : ReceiveResponse(r)
    \/ \E id \in IdpRequests, binding \in {"redirect", "post"} : AnswerIdp(id, binding)

Spec == Init /\ [][Next]_vars

\* The browser carries every message to its end: it follows redirects and posts
\* the forms it is given.
Fairness ==
    /\ WF_vars(\E r \in responses : ReceiveResponse(r))
    /\ \A id \in 1..MaxRequests : WF_vars(\E m \in requests, sameSite \in BOOLEAN :
                                             m.request.id = id /\ ServeSLO(m, sameSite))

FairSpec == Spec /\ Fairness

-----------------------------------------------------------------------------
\* Properties.

\* Every variable keeps its shape, and IDs and indexes are those given out.
TypeOK ==
    /\ now \in 0..MaxTime
    /\ logins \in 0..MaxSessions
    /\ made \in 0..MaxRequests
    /\ session # None => /\ session.nameID \in User
                         /\ session.index \in 1..logins
                         /\ session.expire \in Nat
    /\ pending \cap done = {}
    /\ pending \cup done = 1..made
    /\ ended \subseteq Entity \X {VerifiedRequest(m).id : m \in requests}

\* What a service provider has signed in m with a key of its own: the content its
\* signature covers if it is in the message, all of it if it is in the query.
SignedContent(m) ==
    IF m.signature # NoSignature THEN m.signature.covers ELSE m.request

\* The browser's session is only ended on a LogoutRequest that a registered
\* service provider has signed with its key, in what it has signed, for this
\* principal and session, in time and for this identity provider.
EndedOnRequest ==
    [][session # None /\ session' = None => \A m \in requests :
          (\E sameSite \in BOOLEAN : ServeSLO(m, sameSite)) =>
             LET q == SignedContent(m)
                 keys == SigningCertificates(ServiceProvider(q.issuer))
             IN
             /\ q.issuer \in Entity
             /\ m.signature # NoSignature => m.signature.key \in keys
             /\ m.query # NoSignature => m.query.intact /\ m.query.key \in keys
             /\ m.signature # NoSignature \/ m.query # NoSignature
             /\ q.nameID = session.nameID
             /\ q.indexes = {} \/ session.index \in q.indexes
             /\ q.destination = "slo" /\ now <= q.issueInstant + MaxIssueDelay
             /\ q.notOnOrAfter # None => now < q.notOnOrAfter]_vars

\* When the application is told that its logout succeeded, the identity provider
\* had served that very request and the browser had no session left there: not
\* when the cookie was withheld, nor on an answer to somebody else's request.
DoneMeansEnded == \A id \in done : <<Sp.entityID, id>> \in ended

\* A logout by the HTTP-Redirect binding completes, if the browser has no session
\* of another user and the exchanges take less than MaxIssueDelay: the answer comes
\* back to the service provider, by whichever binding it takes responses, and is
\* valid there.
LogoutCompletes ==
    \A id \in 1..MaxRequests :
       id \in pending /\ (\E m \in requests : m.request.id = id /\ m.binding = "redirect")
         ~> id \in done

=============================================================================
