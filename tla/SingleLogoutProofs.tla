------------------------- MODULE SingleLogoutProofs -------------------------
(***************************************************************************)
(* What SingleLogout guarantees for any service providers, stray messages  *)
(* and number of logins, logouts and answers, proved with TLAPS.           *)
(***************************************************************************)
EXTENDS SingleLogout, TLAPS, WellFoundedInduction

-----------------------------------------------------------------------------
\* The invariant.

\* Every LogoutRequest arrives by one of the two bindings.
Bindings == \A m \in requests : m.binding \in {"redirect", "post"}

\* A response that can count as the identity provider's success is one it gave
\* to this service provider after the browser had no session left.
AnswersTrue ==
    \A r \in responses : SuccessForSp(r) => <<Sp.entityID, r.inResponseTo>> \in ended

LInv == TypeOK /\ Bindings /\ AnswersTrue /\ DoneMeansEnded

-----------------------------------------------------------------------------
\* Where a response goes.

\* A set of indices has a least one.
LEMMA LeastIndex ==
    ASSUME NEW S, S \subseteq Nat, S # {}
    PROVE  \E x \in S : \A y \in S : x <= y
  <1>1. IsWellFoundedOn(OpToRel(<, Nat), Nat)
    BY NatLessThanWellFounded
  <1>2. PICK x \in S : \A y \in S : ~(<<y, x>> \in OpToRel(<, Nat))
    BY <1>1, WFMin
  <1>3. \A y \in S : ~(y < x)
    BY <1>2 DEF OpToRel
  <1>. QED BY <1>3

\* FirstPlace is one of the places.
LEMMA FirstIsOne ==
    ASSUME NEW S, S \subseteq Nat \X Nat, S # {}
    PROVE  FirstPlace(S) \in S
  <1> DEFINE rows == {p[1] : p \in S}
  <1>1. rows \subseteq Nat /\ rows # {}
    OBVIOUS
  <1>2. PICK i \in rows : \A k \in rows : i <= k
    BY <1>1, LeastIndex
  <1> DEFINE columns == {p[2] : p \in {q \in S : q[1] = i}}
  <1>3. columns \subseteq Nat /\ columns # {}
    BY <1>2
  <1>4. PICK j \in columns : \A k \in columns : j <= k
    BY <1>3, LeastIndex
  <1>5. PICK p \in S : p[1] = i /\ p[2] = j
    BY <1>4
  <1>6. \A q \in S : p[1] < q[1] \/ (p[1] = q[1] /\ p[2] <= q[2])
    <2> SUFFICES ASSUME NEW q \in S PROVE p[1] < q[1] \/ (p[1] = q[1] /\ p[2] <= q[2])
      OBVIOUS
    <2>1. i \in Nat /\ q[1] \in Nat /\ i <= q[1]
      BY <1>1, <1>2
    <2>2. q[1] = i => j <= q[2]
      BY <1>4
    <2>. QED BY <1>5, <2>1, <2>2
  <1>. QED BY <1>6 DEF FirstPlace

\* getSLOEndpoint finds an endpoint of another service provider's metadata, and
\* never one of a binding it does not support.
LEMMA EndpointOfOther ==
    ASSUME NEW e \in DOMAIN Others, e # Sp.entityID, Others[e] # None,
           NEW binding \in {"redirect", "post"}, SLOEndpoint(Others[e], binding) # None
    PROVE  LET p == SLOEndpoint(Others[e], binding) IN
           /\ p[1] \in DOMAIN Others[e].descriptors
           /\ p[2] \in DOMAIN Others[e].descriptors[p[1]].slo
           /\ Others[e].descriptors[p[1]].slo[p[2]].binding \in {"redirect", "post"}
  <1> DEFINE md == Others[e]
  <1>1. ASSUME NEW b PROVE SLOPlaces(md, b) \subseteq Nat \X Nat
    BY LogoutAssumption DEF SLOPlaces
  <1>2. ASSUME NEW b, NEW p \in SLOPlaces(md, b)
        PROVE  /\ p[1] \in DOMAIN md.descriptors
               /\ p[2] \in DOMAIN md.descriptors[p[1]].slo
               /\ md.descriptors[p[1]].slo[p[2]].binding = b
    BY DEF SLOPlaces
  <1>3. PICK b \in {"redirect", "post"} : SLOEndpoint(md, binding) = FirstPlace(SLOPlaces(md, b))
    <2>1. CASE SLOPlaces(md, binding) # {}
      BY <2>1 DEF SLOEndpoint
    <2>2. CASE SLOPlaces(md, binding) = {} /\ SLOPlaces(md, "redirect") # {}
      BY <2>2 DEF SLOEndpoint
    <2>3. CASE SLOPlaces(md, binding) = {} /\ SLOPlaces(md, "redirect") = {}
      BY <2>3 DEF SLOEndpoint
    <2>. QED BY <2>1, <2>2, <2>3
  <1>4. SLOPlaces(md, b) # {}
    BY <1>3 DEF FirstPlace
  <1>5. SLOEndpoint(md, binding) \in SLOPlaces(md, b)
    BY <1>1, <1>3, <1>4, FirstIsOne
  <1>. QED BY <1>2, <1>5

\* A response of the identity provider that arrives at this service provider's
\* endpoint answers a request of this service provider.
LEMMA AnswersTheIssuer ==
    ASSUME NEW m \in requests, Bindings, ValidLogout(m), NEW status,
           LogoutResponse(m, status).destination = Sp.sloURL
    PROVE  m.request.issuer = Sp.entityID
  <1> DEFINE e == m.request.issuer
  <1> SUFFICES ASSUME e # Sp.entityID PROVE FALSE
    OBVIOUS
  <1>1. e \in DOMAIN Others /\ Others[e] # None /\ ServiceProvider(e) = Others[e]
    BY DEF ValidLogout, ServiceProvider
  <1> DEFINE p == SLOEndpoint(Others[e], m.binding)
             endpoint == Others[e].descriptors[p[1]].slo[p[2]]
  <1>2. m.binding \in {"redirect", "post"} /\ p # None
    BY <1>1 DEF Bindings, ValidLogout
  <1>3. /\ p[1] \in DOMAIN Others[e].descriptors
        /\ p[2] \in DOMAIN Others[e].descriptors[p[1]].slo
        /\ endpoint.binding \in {"redirect", "post"}
    BY <1>1, <1>2, EndpointOfOther
  <1>4. ResponseLocation(endpoint) # Sp.sloURL
    BY <1>1, <1>3, PartiesAssumption
  <1>5. LogoutResponse(m, status).destination = ResponseLocation(endpoint)
    BY <1>1 DEF LogoutResponse
  <1>. QED BY <1>4, <1>5

-----------------------------------------------------------------------------
\* ServeSLO.

\* TerminateSession leaves the browser's session, or ends one that the request names.
LEMMA Terminated ==
    ASSUME NEW m \in requests, Bindings, NEW sent \in BOOLEAN, sent => session # None,
           m.binding = "redirect" => (sent <=> session # None)
    PROVE  LET result == TerminateSession(m, sent) IN
           /\ result.session \in {session, None}
           /\ result.status = "Success" =>
                 ~(result.session # None /\ now <= result.session.expire)
           /\ result.session # session =>
                 session # None /\ Names(VerifiedRequest(m), session)
  <1> DEFINE q == VerifiedRequest(m)
             result == TerminateSession(m, sent)
  <1>0. m.binding \in {"redirect", "post"}
    BY DEF Bindings
  <1>1. CASE m.binding = "post" /\ ~sent
    <2>1. result = [status |-> "Responder", session |-> session]
      BY <1>1 DEF TerminateSession
    <2>. QED BY <2>1
  <1>2. CASE (m.binding = "redirect" \/ sent) /\ (~sent \/ Existing = None)
    <2>1. result = [status |-> "Success", session |-> session]
      BY <1>2 DEF TerminateSession
    <2>2. ~(session # None /\ now <= session.expire)
      BY <1>0, <1>2 DEF Existing
    <2>. QED BY <2>1, <2>2
  <1>3. CASE sent /\ Existing # None /\ Names(q, Existing)
    <2>1. result = [status |-> "Success", session |-> None]
      BY <1>3 DEF TerminateSession
    <2>2. session # None /\ Existing = session
      BY <1>3 DEF Existing
    <2>3. Names(q, session)
      BY <1>3, <2>2
    <2>. QED BY <2>1, <2>2, <2>3
  <1>4. CASE sent /\ Existing # None /\ ~Names(q, Existing)
    <2>1. result = [status |-> "Responder", session |-> session]
      BY <1>4 DEF TerminateSession
    <2>. QED BY <2>1
  <1>. QED BY <1>0, <1>1, <1>2, <1>3, <1>4

\* A request that is served is a registered service provider's.
LEMMA IssuerKnown ==
    ASSUME NEW m, ValidLogout(m) PROVE m.request.issuer \in Entity
  BY LogoutAssumption DEF ValidLogout, ServiceProvider

\* One more response that counts as a success only if it is true.
LEMMA Answered ==
    ASSUME AnswersTrue, NEW r, Send(r), ended \subseteq ended',
           SuccessForSp(r) => <<Sp.entityID, r.inResponseTo>> \in ended'
    PROVE  AnswersTrue'
  <1>1. responses' = responses \cup {r}
    BY DEF Send
  <1> SUFFICES ASSUME NEW x \in responses', SuccessForSp(x)
               PROVE  <<Sp.entityID, x.inResponseTo>> \in ended'
    BY DEF AnswersTrue, SuccessForSp, SignedByIdp
  <1>. QED BY <1>1 DEF AnswersTrue

\* A success of the identity provider is to the request it has served.
LEMMA ServeStep ==
    ASSUME LInv, NEW m \in requests, NEW sameSite \in BOOLEAN, ServeSLO(m, sameSite)
    PROVE  LInv'
  <1> DEFINE sent == session # None /\ (m.binding = "redirect" \/ sameSite)
             result == TerminateSession(m, sent)
             left == result.session # None /\ now <= result.session.expire
             q == VerifiedRequest(m)
             r == LogoutResponse(m, result.status)
  <1>1. /\ ValidLogout(m)
        /\ session' = result.session
        /\ Send(r)
        /\ ended' = IF result.status = "Success" /\ ~left
                    THEN ended \cup {<<m.request.issuer, q.id>>} ELSE ended
        /\ UNCHANGED <<now, logins, made, pending, done, requests>>
    BY DEF ServeSLO
  <1>2. m.binding \in {"redirect", "post"} /\ sent \in BOOLEAN
    BY DEF LInv, Bindings
  <1>3. /\ result.session \in {session, None}
        /\ result.status = "Success" => ~left
    BY <1>2, Terminated DEF LInv
  <1>4. r.status = result.status /\ r.inResponseTo = q.id
    BY DEF LogoutResponse
  <1>5. r.destination = Sp.sloURL => m.request.issuer = Sp.entityID
    BY <1>1, AnswersTheIssuer DEF LInv
  <1>6. m.request.issuer \in Entity
    BY <1>1, IssuerKnown
  <1> HIDE DEF sent, result, left, r
  <1>7. SuccessForSp(r) => <<Sp.entityID, r.inResponseTo>> \in ended'
    BY <1>1, <1>3, <1>4, <1>5 DEF SuccessForSp
  <1>8. ended \subseteq ended'
    BY <1>1
  <1>9. AnswersTrue'
    BY <1>1, <1>7, <1>8, Answered DEF LInv
  <1>10. DoneMeansEnded'
    BY <1>1, <1>8 DEF LInv, DoneMeansEnded
  <1>11. Bindings'
    BY <1>1 DEF LInv, Bindings
  <1>12. session' # None => session' = session
    BY <1>1, <1>3
  <1>13. ended' \subseteq Entity \X {VerifiedRequest(x).id : x \in requests}
    BY <1>1, <1>6 DEF LInv, TypeOK
  <1>14. TypeOK'
    BY <1>1, <1>12, <1>13 DEF LInv, TypeOK
  <1>. QED BY <1>9, <1>10, <1>11, <1>14 DEF LInv

-----------------------------------------------------------------------------
\* The invariant holds.

\* It holds before anything is sent: nothing stray counts as a success.
LEMMA Starts == Init => LInv
  <1> SUFFICES ASSUME Init PROVE LInv
    OBVIOUS
  <1>1. TypeOK
    BY LogoutAssumption DEF Init, TypeOK
  <1>2. Bindings
    BY LogoutAssumption DEF Init, Bindings
  <1>3. AnswersTrue
    BY PartiesAssumption DEF Init, AnswersTrue
  <1>4. DoneMeansEnded
    BY DEF Init, DoneMeansEnded
  <1>. QED BY <1>1, <1>2, <1>3, <1>4 DEF LInv

\* Every login, request, answer and failure keeps it.
LEMMA Kept == LInv /\ [Next]_vars => LInv'
  <1> SUFFICES ASSUME LInv, [Next]_vars PROVE LInv'
    OBVIOUS
  <1>1. CASE Tick
    <2>1. TypeOK'
      BY <1>1, LogoutAssumption DEF Tick, LInv, TypeOK
    <2>. QED BY <1>1, <2>1 DEF Tick, LInv, Bindings, AnswersTrue, DoneMeansEnded,
                               SuccessForSp, SignedByIdp
  <1>2. ASSUME NEW u \in User, Login(u) PROVE LInv'
    <2>1. TypeOK'
      BY <1>2, LogoutAssumption DEF Login, LInv, TypeOK
    <2>. QED BY <1>2, <2>1 DEF Login, LInv, Bindings, AnswersTrue, DoneMeansEnded,
                               SuccessForSp, SignedByIdp
  <1>3. ASSUME NEW u \in User, NEW binding \in {"redirect", "post"}, StartLogout(u, binding)
        PROVE  LInv'
    <2> DEFINE m == LogoutRequest(made + 1, u, binding)
    <2>1. m.binding = binding
      BY DEF LogoutRequest
    <2> HIDE DEF m
    <2>2. /\ made < MaxRequests /\ made' = made + 1
          /\ pending' = pending \cup {made + 1}
          /\ requests' = requests \cup {m}
          /\ UNCHANGED <<now, session, logins, done, responses, ended>>
      BY <1>3 DEF StartLogout, m
    <2>3. Bindings'
      BY <2>1, <2>2 DEF LInv, Bindings
    <2>4. AnswersTrue' /\ DoneMeansEnded'
      BY <2>2 DEF LInv, AnswersTrue, DoneMeansEnded, SuccessForSp, SignedByIdp
    <2>5. made' \in 0..MaxRequests /\ made \in Nat
      BY <2>2, LogoutAssumption DEF LInv, TypeOK
    <2>6. /\ pending' \cap done' = {}
          /\ pending' \cup done' = 1..made'
      BY <2>2, <2>5 DEF LInv, TypeOK
    <2>7. ended' \subseteq Entity \X {VerifiedRequest(x).id : x \in requests'}
      BY <2>2 DEF LInv, TypeOK
    <2>8. TypeOK'
      BY <2>2, <2>5, <2>6, <2>7 DEF LInv, TypeOK
    <2>. QED BY <2>3, <2>4, <2>8 DEF LInv
  <1>4. ASSUME NEW m \in requests, StoreError(m) PROVE LInv'
    <2> DEFINE r == LogoutResponse(m, "Responder")
    <2>1. r.status = "Responder"
      BY DEF LogoutResponse
    <2> HIDE DEF r
    <2>2. Send(r) /\ UNCHANGED <<now, session, logins, made, pending, done, requests, ended>>
      BY <1>4 DEF StoreError, r
    <2>3. AnswersTrue'
      BY <2>1, <2>2, Answered DEF LInv, SuccessForSp
    <2>. QED BY <2>2, <2>3 DEF LInv, TypeOK, Bindings, DoneMeansEnded
  <1>5. ASSUME NEW m \in requests, NEW sameSite \in BOOLEAN, ServeSLO(m, sameSite)
        PROVE  LInv'
    BY <1>5, ServeStep
  <1>6. ASSUME NEW r \in responses, ReceiveResponse(r) PROVE LInv'
    <2>1. SuccessForSp(r) /\ r.inResponseTo \in pending
      BY <1>6 DEF ReceiveResponse, ValidLogoutResponse, SuccessForSp
    <2>2. /\ pending' = pending \ {r.inResponseTo}
          /\ done' = done \cup {r.inResponseTo}
          /\ UNCHANGED <<now, session, logins, made, requests, responses, ended>>
      BY <1>6 DEF ReceiveResponse
    <2>3. TypeOK'
      BY <2>1, <2>2 DEF LInv, TypeOK
    <2>4. DoneMeansEnded'
      BY <2>1, <2>2 DEF LInv, DoneMeansEnded, AnswersTrue
    <2>. QED BY <2>2, <2>3, <2>4 DEF LInv, Bindings, AnswersTrue, SuccessForSp, SignedByIdp
  <1>7. ASSUME NEW id \in IdpRequests, NEW binding \in {"redirect", "post"},
               AnswerIdp(id, binding)
        PROVE  LInv'
    <2>1. PICK r : Send(r) /\ r.issuer = Sp.entityID
      BY <1>7 DEF AnswerIdp
    <2>2. UNCHANGED <<now, session, logins, made, pending, done, requests, ended>>
      BY <1>7 DEF AnswerIdp
    <2>3. AnswersTrue'
      BY <2>1, <2>2, Answered, PartiesAssumption DEF LInv, SuccessForSp
    <2>. QED BY <2>2, <2>3 DEF LInv, TypeOK, Bindings, DoneMeansEnded
  <1>8. CASE UNCHANGED vars
    BY <1>8 DEF vars, LInv, TypeOK, Bindings, AnswersTrue, DoneMeansEnded, SuccessForSp,
                SignedByIdp
  <1>. QED BY <1>1, <1>2, <1>3, <1>4, <1>5, <1>6, <1>7, <1>8 DEF Next

\* So it always holds.
LEMMA Invariant == Spec => []LInv
  <1>1. Init => LInv
    BY Starts
  <1>2. LInv /\ [Next]_vars => LInv'
    BY Kept
  <1>. QED BY <1>1, <1>2, PTL DEF Spec

-----------------------------------------------------------------------------
\* What follows.

\* The state keeps its shape: each LogoutRequest of the service provider is pending
\* or done and never both, and only received requests are served.
THEOREM TypeCorrect == Spec => []TypeOK
  <1>1. LInv => TypeOK
    BY DEF LInv
  <1>. QED BY <1>1, Invariant, PTL

\* ValidateLogoutResponseRequest accepts a response only after ServeSLO has served
\* that very request and left the browser without a session: whatever is lost,
\* repeated or delayed, whoever else logs out, and if the Store fails.
THEOREM LogoutIsReal == Spec => []DoneMeansEnded
  <1>1. LInv => DoneMeansEnded
    BY DEF LInv
  <1>. QED BY <1>1, Invariant, PTL

\* ServeSLO ends a session only on what a registered service provider has signed,
\* for this principal and session, in time and for this identity provider.
THEOREM OnlyOnRequest == Spec => EndedOnRequest
  <1> DEFINE Justified(m) ==
               LET q == SignedContent(m)
                   keys == SigningCertificates(ServiceProvider(q.issuer))
               IN
               /\ q.issuer \in Entity
               /\ m.signature # NoSignature => m.signature.key \in keys
               /\ m.query # NoSignature => m.query.intact /\ m.query.key \in keys
               /\ m.signature # NoSignature \/ m.query # NoSignature
               /\ q.nameID = session.nameID
               /\ q.indexes = {} \/ session.index \in q.indexes
               /\ q.destination = "slo" /\ now <= q.issueInstant + MaxIssueDelay
               /\ q.notOnOrAfter # None => now < q.notOnOrAfter
  <1>1. ASSUME LInv, session # None, session' = None, NEW m \in requests,
               NEW sameSite \in BOOLEAN, ServeSLO(m, sameSite)
        PROVE  Justified(m)
    <2> DEFINE sent == session # None /\ (m.binding = "redirect" \/ sameSite)
               q == SignedContent(m)
               certs == SigningCertificates(ServiceProvider(m.request.issuer))
    <2>1. ValidLogout(m) /\ TerminateSession(m, sent).session = None
      BY <1>1 DEF ServeSLO
    <2>2. sent \in BOOLEAN /\ m.binding \in {"redirect", "post"}
      BY <1>1 DEF LInv, Bindings
    <2>3. q = VerifiedRequest(m)
      BY DEF SignedContent, VerifiedRequest
    <2>4. Names(q, session)
      BY <1>1, <2>1, <2>2, <2>3, Terminated DEF LInv
    <2>5. CheckLogoutRequest(m.request) /\ VerifyLogoutSignature(ServiceProvider(m.request.issuer), m)
      BY <2>1 DEF ValidLogout
    <2>6. q.issuer = m.request.issuer /\ CheckLogoutRequest(q)
      BY <2>5 DEF VerifyLogoutSignature, SignedContent
    <2>7. q.issuer \in Entity
      BY <2>1, <2>6, IssuerKnown
    <2>8. /\ m.signature # NoSignature => m.signature.key \in certs
          /\ m.query # NoSignature => m.query.intact /\ m.query.key \in certs
          /\ m.signature # NoSignature \/ m.query # NoSignature
      BY <2>5 DEF VerifyLogoutSignature, ValidQuery, ValidEnveloped, IsSigned
    <2> HIDE DEF q
    <2>9. q.nameID = session.nameID /\ (q.indexes = {} \/ session.index \in q.indexes)
      BY <2>4 DEF Names
    <2>10. /\ q.destination = "slo" /\ now <= q.issueInstant + MaxIssueDelay
           /\ q.notOnOrAfter # None => now < q.notOnOrAfter
      BY <2>6 DEF CheckLogoutRequest
    <2>. QED BY <2>6, <2>7, <2>8, <2>9, <2>10 DEF q
  <1> DEFINE Ends == session # None /\ session' = None => \A m \in requests :
                       (\E sameSite \in BOOLEAN : ServeSLO(m, sameSite)) => Justified(m)
  <1>2. LInv => Ends
    BY <1>1
  <1>3. LInv => [Ends]_vars
    BY <1>2
  <1>4. [][Ends]_vars <=> EndedOnRequest
    BY DEF EndedOnRequest
  <1>. QED BY <1>3, <1>4, Invariant, PTL

=============================================================================
