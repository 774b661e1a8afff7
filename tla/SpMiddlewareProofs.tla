------------------------ MODULE SpMiddlewareProofs ------------------------
(***************************************************************************)
(* What SpMiddleware guarantees for any number of browsers, tabs, requests *)
(* and responses, any delays, and every configuration of the middleware,   *)
(* proved with TLAPS.                                                      *)
(***************************************************************************)
EXTENDS SpMiddleware, TLAPS

-----------------------------------------------------------------------------
\* What ServeACS accepts of the identity provider's responses.

Acceptable(r, ids) ==
    /\ r.sp = "sp"
    /\ (AllowIDPInitiated /\ r.id = NoID) \/ r.id \in ids
    /\ now <= r.issued + MaxIssueDelay

\* Six checks hold if none of them is among the failing ones.
LEMMA NoneFailing ==
    ASSUME NEW n1, NEW n2, NEW n3, NEW n4, NEW n5, NEW n6,
           NEW c1 \in BOOLEAN, NEW c2 \in BOOLEAN, NEW c3 \in BOOLEAN,
           NEW c4 \in BOOLEAN, NEW c5 \in BOOLEAN, NEW c6 \in BOOLEAN
    PROVE  Failing(<< <<n1, c1>>, <<n2, c2>>, <<n3, c3>>, <<n4, c4>>, <<n5, c5>>,
                      <<n6, c6>> >>) = {}
             <=> c1 /\ c2 /\ c3 /\ c4 /\ c5 /\ c6
  BY DEF Failing

\* The one assertion of a response is acceptable when the response is.
LEMMA AssertionOutcome ==
    ASSUME NEW r \in Response, NEW ids, now \in Nat, r.issued <= now
    PROVE  AssertionOK(Self, Document(r).assertions[1], ids, now, TRUE) <=> Acceptable(r, ids)
  <1> DEFINE a == Document(r).assertions[1].assertion
             c == a.confirmations[1]
  <1>1. /\ r.issued \in Nat /\ r.sp \in {"sp", "other"}
        /\ MaxIssueDelay \in Nat /\ MaxClockSkew \in Nat
    BY DelaysAssumption DEF Response
  <1>2. /\ a.signature = [key |-> "idp", embedded |-> "idp", intact |-> TRUE]
        /\ a.issuer = "idp" /\ a.issueInstant = r.issued /\ a.subject = TRUE
        /\ a.confirmations = << [bearer |-> TRUE, data |-> TRUE, inResponseTo |-> r.id,
                                 recipient |-> <<r.sp, "acs">>,
                                 notOnOrAfter |-> r.issued + MaxIssueDelay] >>
        /\ a.conditions = TRUE /\ a.notBefore = r.issued
        /\ a.notOnOrAfter = r.issued + MaxIssueDelay /\ a.audiences = <<{r.sp}>>
        /\ Document(r).assertions[1].encrypted = FALSE
    BY DEF Document
  <1>3. /\ c.bearer = TRUE /\ c.data = TRUE /\ c.inResponseTo = r.id
        /\ c.recipient = <<r.sp, "acs">> /\ c.notOnOrAfter = r.issued + MaxIssueDelay
        /\ DOMAIN a.confirmations = {1}
    BY <1>2
  <1> HIDE DEF a, c
  <1>4. VerifySignature(Self, a) = "valid"
    BY <1>2, AbsentAssumption DEF VerifySignature, VerifyCertificate, SigningCerts, Self
  <1>5. ValidBearer(Self, c, ids, now) <=>
           /\ (AllowIDPInitiated /\ r.id = NoID) \/ r.id \in ids
           /\ r.sp = "sp"
           /\ now <= r.issued + MaxIssueDelay + MaxClockSkew
    BY <1>1, <1>3 DEF ValidBearer, Self
  <1>6. ValidSubject(Self, a, ids, now) <=> ValidBearer(Self, c, ids, now)
    BY <1>2, <1>3 DEF ValidSubject, c
  <1>7. ValidAudience(Self, a) <=> r.sp = "sp"
    BY <1>1, <1>2 DEF ValidAudience, Self
  <1>8. ValidAssertion(Self, a, ids, now) <=> Acceptable(r, ids)
    BY <1>1, <1>2, <1>5, <1>6, <1>7 DEF ValidAssertion, Acceptable, Self
  <1>. QED BY <1>2, <1>4, <1>8 DEF AssertionOK, a

\* parseResponse, asked for the signature of the assertion, accepts what is acceptable.
LEMMA ResponseOutcome ==
    ASSUME NEW r \in Response, NEW ids, now \in Nat, r.issued <= now, NEW url,
           url # <<"other", "acs">>
    PROVE  ParseResponse(Self, Document(r), ids, now, TRUE, url).accepted
             <=> Acceptable(r, ids)
  <1> DEFINE d == Document(r)
             signature == VerifySignature(Self, d)
             c1 == ValidDestination(Self, d, signature # "absent", url)
             c2 == ValidRequestID(Self, d, ids)
             c3 == now <= d.issueInstant + MaxIssueDelay
             c4 == d.issuer \in {None, Self.idp}
             c5 == d.status = "Success"
             c6 == signature # "invalid"
             checks == << <<"destination", c1>>, <<"inResponseTo", c2>>, <<"expired", c3>>,
                          <<"issuer", c4>>, <<"status", c5>>, <<"signature", c6>> >>
             acceptable == {i \in DOMAIN d.assertions :
                              AssertionOK(Self, d.assertions[i], ids, now, TRUE)}
             encrypted == {i \in acceptable : d.assertions[i].encrypted}
             first == First(IF encrypted # {} THEN encrypted ELSE acceptable)
             p == ParseResponse(Self, d, ids, now, TRUE, url)
  <1>1. /\ d.signature = NoSignature /\ d.destination = <<r.sp, "acs">>
        /\ d.inResponseTo = r.id /\ d.issueInstant = r.issued /\ d.issuer = "idp"
        /\ d.status = "Success" /\ DOMAIN d.assertions = {1}
    BY DEF Document
  <1>2. r.sp \in {"sp", "other"} /\ r.issued \in Nat /\ MaxIssueDelay \in Nat
    BY DelaysAssumption DEF Response
  <1>3. AssertionOK(Self, d.assertions[1], ids, now, TRUE) <=> Acceptable(r, ids)
    BY AssertionOutcome
  <1> HIDE DEF d
  <1>4. signature = "absent"
    BY <1>1 DEF VerifySignature
  <1>5. p = IF Failing(checks) # {} THEN Reject(checks[First(Failing(checks))][1])
            ELSE IF acceptable = {} THEN Reject("assertion")
            ELSE Accept(d.assertions[first].assertion)
    BY <1>4 DEF ParseResponse
  <1>6. /\ c1 \in BOOLEAN /\ c2 \in BOOLEAN /\ c3 \in BOOLEAN
        /\ c4 \in BOOLEAN /\ c5 \in BOOLEAN /\ c6 \in BOOLEAN
    BY DEF ValidDestination, ValidRequestID, Self
  <1>7. Acceptable(r, ids) => c1 /\ c2 /\ c3 /\ c4 /\ c5 /\ c6
    BY <1>1, <1>2, <1>4 DEF Acceptable, ValidDestination, ValidRequestID, Self
  <1>8. acceptable = IF Acceptable(r, ids) THEN {1} ELSE {}
    BY <1>1, <1>3
  <1> HIDE DEF c1, c2, c3, c4, c5, c6, first, p, acceptable
  <1>9. Failing(checks) = {} <=> c1 /\ c2 /\ c3 /\ c4 /\ c5 /\ c6
    BY <1>6, NoneFailing
  <1> HIDE DEF checks
  <1>10. p.accepted <=> Failing(checks) = {} /\ acceptable # {}
    BY <1>5 DEF Accept, Reject
  <1>. QED BY <1>7, <1>8, <1>9, <1>10 DEF p, d

\* ServeACS with a posted response, ...
LEMMA PostOutcome ==
    ASSUME NEW r \in Response, NEW ids, now \in Nat, r.issued <= now
    PROVE  ParseXMLResponse(Self, Document(r), ids, now, Self.acsURL).accepted
             <=> Acceptable(r, ids)
  BY ResponseOutcome DEF ParseXMLResponse, Self

\* ... and with one that was resolved from an artifact.
LEMMA ArtifactOutcome ==
    ASSUME NEW r \in Response, NEW ids, now \in Nat, r.issued <= now
    PROVE  ParseXMLArtifactResponse(Self, ArtifactDocument(r), ids, "resolve", now,
                                    <<"idp", "artifact">>).accepted
             => Acceptable(r, ids)
  <1> DEFINE d == ArtifactDocument(r)
             signature == VerifySignature(Self, d)
             url == <<"idp", "artifact">>
             response == ParseResponse(Self, Document(r), ids, now, signature = "absent", url)
             outcome == ParseXMLArtifactResponse(Self, d, ids, "resolve", now, url)
  <1>1. d.signature = NoSignature /\ d.response = Document(r)
    BY DEF ArtifactDocument
  <1>2. signature = "absent"
    BY <1>1 DEF VerifySignature
  <1>3. (\E error : outcome = Reject(error)) \/ outcome = response
    BY <1>1 DEF ParseXMLArtifactResponse
  <1>4. response.accepted <=> Acceptable(r, ids)
    BY <1>2, ResponseOutcome
  <1> HIDE DEF d, response, outcome
  <1>5. outcome.accepted => Acceptable(r, ids)
    BY <1>3, <1>4 DEF Reject
  <1>. QED BY <1>5 DEF outcome, d

-----------------------------------------------------------------------------
\* The invariant.

Reply == [track: TrackedCookie \cup {None}, stop: Index \cup {None},
          session: SessionCookie \cup {None},
          location: Page \cup {DefaultRedirectURI, "served", "idp", "logout", None}]

TabRecord == [at: {"idle", "reply", "at_idp", "post", "resolve", "goto"},
              page: Page \cup {None}, request: RequestID \cup {None},
              response: Response \cup {None}, ids: SUBSET (RequestID \cup {NoID}),
              cookies: SUBSET TrackedCookie, arrived: Nat, reply: Reply]

Types == TypeOK /\ tab \in [Tab -> TabRecord]

\* The AuthnRequests that have been made are those below nextReq.
Requests ==
    \A i \in RequestID : IF i < nextReq THEN made[i] # None /\ made[i].time <= now
                         ELSE made[i] = None

\* Request i was made for browser b.
Asked(b, i) == i \in RequestID /\ i < nextReq /\ made[i].browser = b

\* A cookie of the request tracker that belongs to b.
OwnCookie(b, c) ==
    /\ Asked(b, c.id)
    /\ c.index = TrackedIndex(c.id)
    /\ c.uri = made[c.id].page
    /\ c.exp = made[c.id].time + MaxIssueDelay

\* A response that answers i may be posted from b at time t.
Possible(b, i, t) ==
    \/ AllowIDPInitiated /\ i = NoID
    \/ Asked(b, i) /\ t <= made[i].time + MaxIssueDelay

\* A session that b may have.
OwnSession(b, c) ==
    /\ c.sp = "sp"
    /\ Possible(b, c.id, c.arrived)
    /\ c.issued <= c.arrived
    /\ c.created <= c.issued + MaxIssueDelay

\* Where the user goes with it, and which request is no longer tracked after it.
OwnLocation(b, stop, location) ==
    /\ location \in Local \cup {DefaultRedirectURI}
    /\ stop # None => \E i \in RequestID : /\ Asked(b, i) /\ stop = TrackedIndex(i)
                                          /\ location = RedirectURI(made[i].page)
    /\ stop = None /\ location # DefaultRedirectURI => AllowIDPInitiated

\* A browser keeps only what belongs to it.
Jars ==
    \A b \in Browser : /\ \A c \in tracked[b] : OwnCookie(b, c)
                       /\ \A c \in token[b] : OwnSession(b, c)

\* What was issued: no later than now, and in answer to a request that was made.
Issued == \A r \in net : r.issued <= now /\ (r.id = NoID \/ r.id < nextReq)

\* A tab brings only what was made for its browser.
TabOK(t) ==
    /\ tab[t].at = "goto" => tab[t].page \in Page
    /\ tab[t].at = "at_idp" \/ tab[t].reply.location = "idp"
         => tab[t].request \in RequestID /\ tab[t].request < nextReq
    /\ tab[t].at \in {"post", "resolve"} => tab[t].response \in net
    /\ tab[t].at = "resolve" =>
          /\ tab[t].response.issued <= tab[t].arrived /\ tab[t].arrived <= now
          /\ \A c \in tab[t].cookies : OwnCookie(Owner[t], c)
          /\ \A i \in tab[t].ids : Possible(Owner[t], i, tab[t].arrived)
    /\ tab[t].reply.track # None => OwnCookie(Owner[t], tab[t].reply.track)
    /\ tab[t].reply.session # None => /\ OwnSession(Owner[t], tab[t].reply.session)
                                      /\ OwnLocation(Owner[t], tab[t].reply.stop, tab[t].reply.location)

MInv == Types /\ Requests /\ Jars /\ Issued /\ \A t \in Tab : TabOK(t)

-----------------------------------------------------------------------------
\* What was said of a request stays true.

\* Time passes and requests are added; those that were made stay as they are.
Grows ==
    /\ nextReq \in Nat /\ nextReq' \in Nat /\ nextReq <= nextReq'
    /\ now \in Nat /\ now' \in Nat /\ now <= now'
    /\ \A i \in RequestID : i < nextReq => made'[i] = made[i]

\* Cookies, sessions and redirects of a browser stay its own.
LEMMA Stable ==
    ASSUME Grows, NEW b
    PROVE  /\ \A i : Asked(b, i) => Asked(b, i)'
           /\ \A c : OwnCookie(b, c) => OwnCookie(b, c)'
           /\ \A i, t : Possible(b, i, t) => Possible(b, i, t)'
           /\ \A c : OwnSession(b, c) => OwnSession(b, c)'
           /\ \A s, l : OwnLocation(b, s, l) => OwnLocation(b, s, l)'
  <1>1. ASSUME NEW i, Asked(b, i) PROVE Asked(b, i)' /\ made'[i] = made[i]
    <2>1. i \in Nat
      BY <1>1, MiddlewareAssumption DEF Asked, RequestID
    <2>. QED BY <1>1, <2>1 DEF Grows, Asked
  <1>2. ASSUME NEW c, OwnCookie(b, c) PROVE OwnCookie(b, c)'
    BY <1>1, <1>2 DEF OwnCookie, TrackedIndex
  <1>3. ASSUME NEW i, NEW t, Possible(b, i, t) PROVE Possible(b, i, t)'
    BY <1>1, <1>3 DEF Possible
  <1>4. ASSUME NEW c, OwnSession(b, c) PROVE OwnSession(b, c)'
    BY <1>3, <1>4 DEF OwnSession
  <1>5. ASSUME NEW s, NEW l, OwnLocation(b, s, l) PROVE OwnLocation(b, s, l)'
    BY <1>1, <1>5 DEF OwnLocation, TrackedIndex, RedirectURI
  <1>. QED BY <1>1, <1>2, <1>3, <1>4, <1>5

\* So a tab that does nothing stays well.
LEMMA TabStays ==
    ASSUME Types, Grows, net \subseteq net', NEW t \in Tab, tab'[t] = tab[t], TabOK(t)
    PROVE  TabOK(t)'
  <1>1. /\ \A c : OwnCookie(Owner[t], c) => OwnCookie(Owner[t], c)'
        /\ \A i, u : Possible(Owner[t], i, u) => Possible(Owner[t], i, u)'
        /\ \A c : OwnSession(Owner[t], c) => OwnSession(Owner[t], c)'
        /\ \A s, l : OwnLocation(Owner[t], s, l) => OwnLocation(Owner[t], s, l)'
    BY Stable
  <1>2. /\ tab[t].request \in RequestID /\ tab[t].request < nextReq
             => tab[t].request < nextReq'
        /\ tab[t].arrived <= now => tab[t].arrived <= now'
    BY MiddlewareAssumption DEF Grows, Types, TabRecord, RequestID
  <1>. QED BY <1>1, <1>2 DEF TabOK

\* And so a step of one tab keeps the invariant if it keeps it for that tab.
LEMMA OneTab ==
    ASSUME MInv, Grows, net \subseteq net', NEW t \in Tab,
           \A q \in Tab \ {t} : tab'[q] = tab[q],
           Types', Requests', Jars', Issued', TabOK(t)'
    PROVE  MInv'
  BY TabStays DEF MInv

\* Browsers keep what is theirs, if nothing is put into their jars.
LEMMA JarsStay ==
    ASSUME Jars, Grows, \A b \in Browser : tracked'[b] \subseteq tracked[b] /\ token'[b] = token[b]
    PROVE  Jars'
  BY Stable DEF Jars

-----------------------------------------------------------------------------
\* The replies of ServeACS.

\* Whatever is posted, the reply belongs to the browser it goes to.
LEMMA ReplyOwn ==
    ASSUME Types, NEW b \in Browser, NEW jar \in SUBSET TrackedCookie,
           \A c \in jar : OwnCookie(b, c),
           NEW r \in Response, NEW arrived \in Nat, r.issued <= arrived,
           NEW ids, \A i \in ids : Possible(b, i, arrived),
           NEW outcome, outcome.accepted => Acceptable(r, ids)
    PROVE  LET reply == AcsReply(jar, r, outcome, arrived) IN
           /\ reply \in Reply
           /\ reply.track = None
           /\ reply.location # "idp"
           /\ reply.session # None => /\ OwnSession(b, reply.session)
                                      /\ OwnLocation(b, reply.stop, reply.location)
  <1> DEFINE named == {c \in jar : c.index = r.relay}
             cookie == CHOOSE c \in named : TRUE
             session == NewSession(r, arrived)
             base == [NoReply EXCEPT !.session = session]
             reply == AcsReply(jar, r, outcome, arrived)
  <1>1. /\ NoReply \in Reply /\ NoReply.track = None /\ NoReply.session = None
        /\ NoReply.location # "idp"
    BY MiddlewareAssumption DEF NoReply, Reply
  <1>2. CASE ~outcome.accepted
    BY <1>1, <1>2 DEF AcsReply
  <1>3. CASE outcome.accepted
    <2>1. Acceptable(r, ids)
      BY <1>3
    <2>2. session \in SessionCookie
      BY MiddlewareAssumption DEF NewSession, SessionCookie, Response, Types, TypeOK
    <2>3. OwnSession(b, session)
      BY <2>1 DEF OwnSession, NewSession, Acceptable, Possible
    <2>4. \A uri : RedirectURI(uri) \in Local \cup {DefaultRedirectURI}
      BY DEF RedirectURI
    <2> HIDE DEF session
    <2>5. ASSUME NEW stop \in Index \cup {None},
                 NEW location \in Local \cup {DefaultRedirectURI},
                 OwnLocation(b, stop, location),
                 reply = [NoReply EXCEPT !.session = session, !.stop = stop,
                                         !.location = location]
          PROVE  /\ reply \in Reply /\ reply.track = None /\ reply.location # "idp"
                 /\ OwnSession(b, reply.session) /\ OwnLocation(b, reply.stop, reply.location)
      BY <2>2, <2>3, <2>5, MiddlewareAssumption DEF NoReply, Reply, DefaultRedirectURI
    <2>6. CASE r.relay = NoRelay
      <3>1. reply = [base EXCEPT !.location = DefaultRedirectURI]
        BY <1>3, <2>6 DEF AcsReply, CreateSessionFromAssertion, session
      <3>2. reply = [NoReply EXCEPT !.session = session, !.stop = None,
                                    !.location = DefaultRedirectURI]
        BY <3>1 DEF NoReply
      <3>. QED BY <2>5, <3>2 DEF OwnLocation
    <2>7. CASE r.relay # NoRelay /\ named = {} /\ AllowIDPInitiated
      <3>1. OwnLocation(b, None, RedirectURI(r.relay))
        BY <2>4, <2>7 DEF OwnLocation
      <3>2. reply = [base EXCEPT !.location = RedirectURI(r.relay)]
        BY <1>3, <2>7 DEF AcsReply, CreateSessionFromAssertion, session
      <3>3. reply = [NoReply EXCEPT !.session = session, !.stop = None,
                                    !.location = RedirectURI(r.relay)]
        BY <3>2 DEF NoReply
      <3>. QED BY <2>4, <2>5, <3>1, <3>3
    <2>8. CASE r.relay # NoRelay /\ named # {} /\ Decodes(cookie)
      <3>1. cookie \in named
        BY <2>8
      <3>2. /\ Asked(b, cookie.id) /\ cookie.uri = made[cookie.id].page
            /\ r.relay = TrackedIndex(cookie.id) /\ r.relay \in Index
        BY <3>1 DEF OwnCookie, TrackedCookie
      <3>3. r.relay # None
        BY <3>2, MiddlewareAssumption DEF TrackedIndex, Asked
      <3>6. OwnLocation(b, r.relay, RedirectURI(cookie.uri))
        BY <2>4, <3>2, <3>3 DEF OwnLocation, Asked
      <3>4. reply = [base EXCEPT !.stop = r.relay, !.location = RedirectURI(cookie.uri)]
        BY <1>3, <2>8 DEF AcsReply, CreateSessionFromAssertion, session
      <3> HIDE DEF cookie
      <3>5. reply = [NoReply EXCEPT !.session = session, !.stop = r.relay,
                                    !.location = RedirectURI(cookie.uri)]
        BY <3>4 DEF NoReply
      <3>. QED BY <2>4, <2>5, <3>2, <3>6, <3>5
    <2>9. CASE /\ r.relay # NoRelay
               /\ named = {} => ~AllowIDPInitiated
               /\ named # {} => ~Decodes(cookie)
      <3>1. reply = NoReply
        BY <1>3, <2>9 DEF AcsReply, CreateSessionFromAssertion
      <3>. QED BY <1>1, <3>1
    <2>. QED BY <2>6, <2>7, <2>8, <2>9
  <1>. QED BY <1>2, <1>3

-----------------------------------------------------------------------------
\* The steps.

\* The initial state.
LEMMA Starts == Init => MInv
  <1> SUFFICES ASSUME Init PROVE MInv
    OBVIOUS
  <1>1. NoReply \in Reply
    BY DEF NoReply, Reply
  <1>2. Idle \in TabRecord /\ Idle.reply = NoReply
    BY <1>1 DEF Idle, TabRecord
  <1>3. tab \in [Tab -> TabRecord]
    BY <1>2 DEF Init
  <1>4. 1 \in 1..(MaxRequests + 1) /\ \A i \in RequestID : ~(i < 1)
    BY MiddlewareAssumption DEF RequestID
  <1>5. TypeOK
    BY <1>2, <1>3, <1>4 DEF Init, TypeOK, TabRecord, Reply
  <1>6. Requests /\ Jars /\ Issued
    BY <1>4 DEF Init, Requests, Jars, Issued
  <1>7. ASSUME NEW t \in Tab PROVE TabOK(t)
    <2>1. tab[t] = Idle
      BY DEF Init
    <2>2. /\ Idle.at = "idle" /\ NoReply.track = None /\ NoReply.session = None
          /\ NoReply.location = None
      BY DEF Idle, NoReply
    <2>. QED BY <1>2, <2>1, <2>2, MiddlewareAssumption DEF TabOK
  <1>. QED BY <1>3, <1>5, <1>6, <1>7 DEF MInv, Types

\* The type of the tabs is a part of TypeOK.
LEMMA TabTypes ==
    ASSUME NEW tb \in [Tab -> TabRecord]
    PROVE  \A t \in Tab :
          /\ tb[t].at \in {"idle", "reply", "at_idp", "post", "resolve", "goto"}
          /\ tb[t].page \in Page \cup {None}
          /\ tb[t].reply.track \in TrackedCookie \cup {None}
          /\ tb[t].reply.session \in SessionCookie \cup {None}
  <1> SUFFICES ASSUME NEW t \in Tab
               PROVE  /\ tb[t].at \in {"idle", "reply", "at_idp", "post", "resolve", "goto"}
                      /\ tb[t].page \in Page \cup {None}
                      /\ tb[t].reply.track \in TrackedCookie \cup {None}
                      /\ tb[t].reply.session \in SessionCookie \cup {None}
    OBVIOUS
  <1>1. tb[t] \in TabRecord
    OBVIOUS
  <1>2. tb[t].reply \in Reply
    BY <1>1 DEF TabRecord
  <1>. QED BY <1>1, <1>2 DEF TabRecord, Reply

\* The requests and the jars do not change.
Quiet == UNCHANGED <<now, tracked, token, nextReq, made, stopped>>

\* A step that changes one tab, and at most adds a response, keeps the invariant
\* if the tab brings only what belongs to its browser.
LEMMA TabMoves ==
    ASSUME MInv, Quiet, NEW t \in Tab, NEW rec \in TabRecord,
           tab' = [tab EXCEPT ![t] = rec], net \subseteq net', net' \subseteq Response,
           Issued', TabOK(t)'
    PROVE  MInv'
  <1>1. tab' \in [Tab -> TabRecord] /\ \A q \in Tab \ {t} : tab'[q] = tab[q]
    BY DEF MInv, Types
  <1>2. /\ now \in Nat /\ nextReq \in Nat
    BY MiddlewareAssumption DEF MInv, Types, TypeOK
  <1>3. Grows
    BY <1>2 DEF Quiet, Grows
  <1>4. Types'
    BY <1>1, TabTypes DEF MInv, Types, TypeOK, Quiet
  <1>5. Requests'
    BY DEF MInv, Requests, Quiet
  <1>6. Jars'
    BY <1>3, JarsStay DEF MInv, Quiet
  <1>. QED BY <1>1, <1>3, <1>4, <1>5, <1>6, OneTab

\* A tab as Idle is, but for where it is and what it brings there.
LEMMA IdleFields ==
    /\ Idle \in TabRecord
    /\ Idle.at = "idle" /\ Idle.reply = NoReply
    /\ NoReply \in Reply
    /\ NoReply.track = None /\ NoReply.session = None /\ NoReply.stop = None
    /\ NoReply.location = None /\ None # "idp"
  <1>1. NoReply \in Reply
    BY DEF NoReply, Reply
  <1>. QED BY <1>1, MiddlewareAssumption DEF Idle, TabRecord, NoReply

\* The identity provider answers, ...
LEMMA AnswerStep ==
    ASSUME MInv, NEW t \in Tab, NEW user \in User,
           NEW relay \in Index \cup Page \cup {NoRelay}, IdpAnswer(t, user, relay)
    PROVE  MInv'
  <1> DEFINE i == tab[t].request
             response == [id |-> i, user |-> user, sp |-> "sp", issued |-> now,
                          relay |-> relay]
             rec == [Idle EXCEPT !.at = "post", !.page = tab[t].page, !.response = response]
  <1>1. tab[t] \in TabRecord /\ TabOK(t) /\ now \in Nat
    BY DEF MInv, Types, TypeOK
  <1>2. i \in RequestID /\ i < nextReq
    BY <1>1 DEF TabOK, IdpAnswer
  <1>3. response \in Response
    BY <1>1, <1>2 DEF Response
  <1>4. response.issued = now /\ response.id = i
    OBVIOUS
  <1> HIDE DEF response
  <1>5. rec \in TabRecord
    BY <1>1, <1>3, IdleFields DEF TabRecord
  <1>6. rec.at = "post" /\ rec.response = response /\ rec.reply = NoReply
    BY IdleFields DEF TabRecord
  <1>7. tab' = [tab EXCEPT ![t] = rec] /\ net' = net \cup {response} /\ Quiet
    BY DEF IdpAnswer, Quiet, response
  <1> HIDE DEF rec
  <1>8. tab'[t] = rec
    BY <1>7 DEF MInv, Types
  <1>9. net' \subseteq Response
    BY <1>3, <1>7 DEF MInv, Types, TypeOK
  <1>10. Issued'
    BY <1>1, <1>2, <1>4, <1>7 DEF MInv, Issued, Quiet
  <1>11. TabOK(t)'
    BY <1>6, <1>7, <1>8, IdleFields DEF TabOK
  <1>. QED BY <1>5, <1>7, <1>9, <1>10, <1>11, TabMoves

\* ... is asked again, ...
LEMMA RevisitStep ==
    ASSUME MInv, NEW t \in Tab, NEW i \in RequestID, Revisit(t, i)
    PROVE  MInv'
  <1> DEFINE rec == [Idle EXCEPT !.at = "at_idp", !.page = made[i].page, !.request = i]
  <1>1. i < nextReq
    BY MiddlewareAssumption DEF MInv, Issued, Revisit
  <1>2. made[i] \in [browser: Browser, page: Page, time: Nat]
    BY <1>1 DEF MInv, Requests, Types, TypeOK
  <1>3. rec \in TabRecord
    BY <1>2, IdleFields DEF TabRecord
  <1>4. rec.at = "at_idp" /\ rec.request = i /\ rec.reply = NoReply
    BY IdleFields DEF TabRecord
  <1>5. tab' = [tab EXCEPT ![t] = rec] /\ net' = net /\ Quiet
    BY DEF Revisit, Quiet
  <1> HIDE DEF rec
  <1>6. tab'[t] = rec
    BY <1>5 DEF MInv, Types
  <1>7. TabOK(t)'
    BY <1>1, <1>4, <1>5, <1>6, IdleFields DEF TabOK, Quiet
  <1>8. net' \subseteq Response /\ Issued'
    BY <1>5 DEF MInv, Types, TypeOK, Issued, Quiet
  <1>. QED BY <1>3, <1>5, <1>7, <1>8, TabMoves

\* ... and sends a user on its own.
LEMMA InitiatedStep ==
    ASSUME MInv, NEW t \in Tab, NEW user \in User, NEW sp \in {"sp", "other"},
           NEW relay \in Page \cup {NoRelay}, IdpInitiated(t, user, sp, relay)
    PROVE  MInv'
  <1> DEFINE response == [id |-> NoID, user |-> user, sp |-> sp, issued |-> now,
                          relay |-> relay]
             rec == [Idle EXCEPT !.at = "post", !.response = response]
  <1>1. now \in Nat
    BY DEF MInv, Types, TypeOK
  <1>2. response \in Response
    BY <1>1 DEF Response
  <1>3. response.issued = now /\ response.id = NoID
    OBVIOUS
  <1> HIDE DEF response
  <1>4. rec \in TabRecord
    BY <1>2, IdleFields DEF TabRecord
  <1>5. rec.at = "post" /\ rec.response = response /\ rec.reply = NoReply
    BY IdleFields DEF TabRecord
  <1>6. tab' = [tab EXCEPT ![t] = rec] /\ net' = net \cup {response} /\ Quiet
    BY DEF IdpInitiated, Quiet, response
  <1> HIDE DEF rec
  <1>7. tab'[t] = rec
    BY <1>6 DEF MInv, Types
  <1>8. net' \subseteq Response
    BY <1>2, <1>6 DEF MInv, Types, TypeOK
  <1>9. Issued'
    BY <1>1, <1>3, <1>6 DEF MInv, Issued, Quiet
  <1>10. TabOK(t)'
    BY <1>5, <1>6, <1>7, IdleFields DEF TabOK
  <1>. QED BY <1>4, <1>6, <1>8, <1>9, <1>10, TabMoves

\* A tab waits for a reply that belongs to its browser.
LEMMA ReplyStep ==
    ASSUME MInv, Quiet, net' = net, NEW t \in Tab, NEW page \in Page \cup {None},
           NEW reply \in Reply, reply.track = None, reply.location # "idp",
           reply.session # None => /\ OwnSession(Owner[t], reply.session)
                                   /\ OwnLocation(Owner[t], reply.stop, reply.location),
           tab' = [tab EXCEPT ![t] = [Idle EXCEPT !.at = "reply", !.page = page,
                                                  !.reply = reply]]
    PROVE  MInv'
  <1> DEFINE rec == [Idle EXCEPT !.at = "reply", !.page = page, !.reply = reply]
  <1>1. rec \in TabRecord /\ rec.at = "reply" /\ rec.reply = reply
    BY IdleFields DEF TabRecord
  <1> HIDE DEF rec
  <1>2. tab' = [tab EXCEPT ![t] = rec]
    BY DEF rec
  <1>3. tab'[t] = rec
    BY <1>2 DEF MInv, Types
  <1>4. Grows
    <2>1. now \in Nat /\ nextReq \in Nat
      BY MiddlewareAssumption DEF MInv, Types, TypeOK
    <2>. QED BY <2>1 DEF Grows, Quiet
  <1>5. /\ reply.session # None => OwnSession(Owner[t], reply.session)'
        /\ reply.session # None => OwnLocation(Owner[t], reply.stop, reply.location)'
    BY <1>4, Stable
  <1>6. TabOK(t)'
    BY <1>1, <1>3, <1>5 DEF TabOK
  <1>7. net' \subseteq Response /\ Issued'
    BY DEF MInv, Types, TypeOK, Issued, Quiet
  <1>. QED BY <1>1, <1>2, <1>6, <1>7, TabMoves

\* The IDs of the cookies that decode are possible now.
LEMMA JarPossible ==
    ASSUME MInv, NEW b \in Browser
    PROVE  /\ tracked[b] \in SUBSET TrackedCookie
           /\ \A c \in tracked[b] : OwnCookie(b, c)
           /\ PossibleRequestIDs(tracked[b]) \in SUBSET (RequestID \cup {NoID})
           /\ \A i \in PossibleRequestIDs(tracked[b]) : Possible(b, i, now)
  <1>1. tracked[b] \in SUBSET TrackedCookie /\ \A c \in tracked[b] : OwnCookie(b, c)
    BY DEF MInv, Types, TypeOK, Jars
  <1>2. ASSUME NEW i \in PossibleRequestIDs(tracked[b])
        PROVE  i \in RequestID \cup {NoID} /\ Possible(b, i, now)
    <2>1. CASE AllowIDPInitiated /\ i = NoID
      BY <2>1 DEF Possible
    <2>2. CASE \E c \in tracked[b] : Decodes(c) /\ i = c.id
      BY <1>1, <2>2 DEF Possible, OwnCookie, Asked, Decodes
    <2>. QED BY <1>2, <2>1, <2>2 DEF PossibleRequestIDs, GetTrackedRequests
  <1>. QED BY <1>1, <1>2

\* The reply to a posted response, ...
LEMMA PostReply ==
    ASSUME MInv, NEW t \in Tab, NEW r \in net
    PROVE  LET reply == ServePost(tracked[Owner[t]], r) IN
           /\ reply \in Reply /\ reply.track = None /\ reply.location # "idp"
           /\ reply.session # None => /\ OwnSession(Owner[t], reply.session)
                                      /\ OwnLocation(Owner[t], reply.stop, reply.location)
  <1> DEFINE b == Owner[t]
             jar == tracked[b]
             ids == PossibleRequestIDs(jar)
             outcome == ParseXMLResponse(Self, Document(r), ids, now, Self.acsURL)
             reply == AcsReply(jar, r, outcome, now)
  <1>1. /\ b \in Browser /\ r \in Response /\ now \in Nat /\ r.issued <= now
    BY MiddlewareAssumption DEF MInv, Types, TypeOK, Issued
  <1>2. /\ jar \in SUBSET TrackedCookie /\ \A c \in jar : OwnCookie(b, c)
        /\ \A i \in ids : Possible(b, i, now)
    BY <1>1, JarPossible
  <1>3. outcome.accepted => Acceptable(r, ids)
    BY <1>1, PostOutcome
  <1>4. ServePost(jar, r) = reply
    BY DEF ServePost
  <1> HIDE DEF outcome, ids, jar
  <1>5. /\ reply \in Reply /\ reply.track = None /\ reply.location # "idp"
        /\ reply.session # None => /\ OwnSession(b, reply.session)
                                   /\ OwnLocation(b, reply.stop, reply.location)
    BY <1>1, <1>2, <1>3, ReplyOwn DEF MInv
  <1>. QED BY <1>4, <1>5 DEF jar

\* ... and to one that was resolved, belong to the tab's browser.
LEMMA ResolveReply ==
    ASSUME MInv, NEW t \in Tab, tab[t].at = "resolve"
    PROVE  LET r == tab[t].response
               outcome == ParseXMLArtifactResponse(Self, ArtifactDocument(r), tab[t].ids,
                                                   "resolve", now, <<"idp", "artifact">>)
               reply == AcsReply(tab[t].cookies, r, outcome, tab[t].arrived)
           IN
           /\ reply \in Reply /\ reply.track = None /\ reply.location # "idp"
           /\ reply.session # None => /\ OwnSession(Owner[t], reply.session)
                                      /\ OwnLocation(Owner[t], reply.stop, reply.location)
  <1> DEFINE b == Owner[t]
             r == tab[t].response
             jar == tab[t].cookies
             ids == tab[t].ids
             arrived == tab[t].arrived
             outcome == ParseXMLArtifactResponse(Self, ArtifactDocument(r), ids, "resolve",
                                                 now, <<"idp", "artifact">>)
             reply == AcsReply(jar, r, outcome, arrived)
  <1>1. tab[t] \in TabRecord /\ TabOK(t) /\ now \in Nat
    BY DEF MInv, Types, TypeOK
  <1>2. /\ b \in Browser /\ r \in net /\ jar \in SUBSET TrackedCookie /\ arrived \in Nat
    BY <1>1, MiddlewareAssumption DEF TabRecord, TabOK
  <1>3. r \in Response /\ r.issued \in Nat
    BY <1>2 DEF MInv, Types, TypeOK, Response
  <1>4. /\ r.issued <= arrived /\ arrived <= now
        /\ \A c \in jar : OwnCookie(b, c)
        /\ \A i \in ids : Possible(b, i, arrived)
    BY <1>1 DEF TabOK
  <1>5. outcome.accepted => Acceptable(r, ids)
    BY <1>1, <1>2, <1>3, <1>4, ArtifactOutcome
  <1> HIDE DEF outcome, ids, jar, arrived, r
  <1>6. /\ reply \in Reply /\ reply.track = None /\ reply.location # "idp"
        /\ reply.session # None => /\ OwnSession(b, reply.session)
                                   /\ OwnLocation(b, reply.stop, reply.location)
    BY <1>2, <1>3, <1>4, <1>5, ReplyOwn DEF MInv
  <1>. QED BY <1>6 DEF outcome, ids, jar, arrived, r

\* A response, or an artifact for it, is posted, ...
LEMMA PostStep ==
    ASSUME MInv, NEW t \in Tab, NEW r \in net, Post(t, r)
    PROVE  MInv'
  <1> DEFINE b == Owner[t]
             jar == tracked[b]
             ids == PossibleRequestIDs(jar)
  <1>1. /\ b \in Browser /\ r \in Response /\ now \in Nat /\ r.issued <= now
        /\ tab[t] \in TabRecord
    BY MiddlewareAssumption DEF MInv, Types, TypeOK, Issued
  <1>2. /\ jar \in SUBSET TrackedCookie /\ \A c \in jar : OwnCookie(b, c)
        /\ ids \in SUBSET (RequestID \cup {NoID}) /\ \A i \in ids : Possible(b, i, now)
    BY <1>1, JarPossible
  <1>3. Quiet /\ net' = net
    BY DEF Post, Quiet
  <1>4. tab[t].page \in Page \cup {None}
    BY <1>1 DEF TabRecord
  <1>5. CASE tab' = [tab EXCEPT ![t] = [Idle EXCEPT !.at = "reply", !.page = tab[t].page,
                                          !.reply = ServePost(jar, r)]]
    <2> DEFINE reply == ServePost(jar, r)
    <2>1. /\ reply \in Reply /\ reply.track = None /\ reply.location # "idp"
          /\ reply.session # None => /\ OwnSession(b, reply.session)
                                     /\ OwnLocation(b, reply.stop, reply.location)
      BY PostReply
    <2> HIDE DEF reply
    <2>2. tab' = [tab EXCEPT ![t] = [Idle EXCEPT !.at = "reply", !.page = tab[t].page,
                                                 !.reply = reply]]
      BY <1>5 DEF reply
    <2>. QED BY <1>3, <1>4, <2>1, <2>2, ReplyStep
  <1>6. CASE tab' = [tab EXCEPT ![t] =
                       [Idle EXCEPT !.at = "resolve", !.page = tab[t].page, !.response = r,
                                    !.ids = ids, !.cookies = jar, !.arrived = now]]
    <2> DEFINE rec == [Idle EXCEPT !.at = "resolve", !.page = tab[t].page, !.response = r,
                                   !.ids = ids, !.cookies = jar, !.arrived = now]
    <2> HIDE DEF ids, jar
    <2>1. rec \in TabRecord
      BY <1>1, <1>2, <1>4, IdleFields DEF TabRecord
    <2>2. /\ rec.at = "resolve" /\ rec.response = r /\ rec.ids = ids /\ rec.cookies = jar
          /\ rec.arrived = now /\ rec.reply = NoReply
      BY IdleFields DEF TabRecord
    <2> HIDE DEF rec
    <2>3. tab' = [tab EXCEPT ![t] = rec]
      BY <1>6 DEF rec
    <2>4. tab'[t] = rec
      BY <2>3 DEF MInv, Types
    <2>5. tab'[t].cookies = jar /\ tab'[t].ids = ids /\ tab'[t].arrived = now
      BY <2>2, <2>4
    <2>6. \A c \in tab'[t].cookies : OwnCookie(Owner[t], c)'
      BY <1>2, <1>3, <2>5 DEF OwnCookie, Asked, TrackedIndex, Quiet
    <2>7. (\A i \in tab[t].ids : Possible(Owner[t], i, tab[t].arrived))'
      BY <1>2, <1>3, <2>5 DEF Possible, Asked, Quiet
    <2>8. TabOK(t)'
      <3>1. /\ tab'[t].at = "resolve" /\ tab'[t].reply = NoReply
            /\ tab'[t].response = r /\ r \in net'
            /\ tab'[t].response.issued <= tab'[t].arrived /\ tab'[t].arrived <= now'
        BY <1>1, <1>3, <2>2, <2>4, <2>5 DEF Quiet
      <3>. QED BY <2>6, <2>7, <3>1, IdleFields DEF TabOK
    <2>9. net' \subseteq Response /\ Issued'
      BY <1>3 DEF MInv, Types, TypeOK, Issued, Quiet
    <2>. QED BY <1>3, <2>1, <2>3, <2>8, <2>9, TabMoves
  <1>. QED BY <1>5, <1>6 DEF Post

\* ... the artifact is resolved, ...
LEMMA ResolveStep ==
    ASSUME MInv, NEW t \in Tab, Resolve(t)
    PROVE  MInv'
  <1> DEFINE r == tab[t].response
             outcome == ParseXMLArtifactResponse(Self, ArtifactDocument(r), tab[t].ids,
                                                 "resolve", now, <<"idp", "artifact">>)
             reply == AcsReply(tab[t].cookies, r, outcome, tab[t].arrived)
  <1>1. tab[t].at = "resolve" /\ tab[t] \in TabRecord
    BY DEF MInv, Types, Resolve
  <1>2. tab[t].page \in Page \cup {None}
    BY <1>1 DEF TabRecord
  <1>3. /\ reply \in Reply /\ reply.track = None /\ reply.location # "idp"
        /\ reply.session # None => /\ OwnSession(Owner[t], reply.session)
                                   /\ OwnLocation(Owner[t], reply.stop, reply.location)
    BY <1>1, ResolveReply
  <1>4. /\ Quiet /\ net' = net
        /\ tab' = [tab EXCEPT ![t] = [Idle EXCEPT !.at = "reply", !.page = tab[t].page,
                                                  !.reply = reply]]
    BY DEF Resolve, Quiet
  <1> HIDE DEF reply
  <1>. QED BY <1>2, <1>3, <1>4, ReplyStep

\* A reply that names no page.
LEMMA IdleShape ==
    ASSUME NEW reply
    PROVE  /\ [Idle EXCEPT !.at = "reply"]
                = [Idle EXCEPT !.at = "reply", !.page = None, !.reply = NoReply]
           /\ [Idle EXCEPT !.at = "reply", !.reply = reply]
                = [Idle EXCEPT !.at = "reply", !.page = None, !.reply = reply]
  <1>1. Idle.page = None /\ Idle.reply = NoReply
    BY DEF Idle
  <1>2. Idle = [at |-> Idle.at, page |-> Idle.page, request |-> Idle.request,
                response |-> Idle.response, ids |-> Idle.ids, cookies |-> Idle.cookies,
                arrived |-> Idle.arrived, reply |-> Idle.reply]
    BY DEF Idle
  <1> HIDE DEF Idle
  <1>. QED BY <1>1, <1>2

\* ... or is not.
LEMMA ResolveFailsStep ==
    ASSUME MInv, NEW t \in Tab, ResolveFails(t)
    PROVE  MInv'
  <1>1. [Idle EXCEPT !.at = "reply"]
          = [Idle EXCEPT !.at = "reply", !.page = None, !.reply = NoReply]
    BY IdleShape
  <1>2. /\ Quiet /\ net' = net
        /\ tab' = [tab EXCEPT ![t] = [Idle EXCEPT !.at = "reply", !.page = None,
                                                  !.reply = NoReply]]
    BY <1>1 DEF ResolveFails, Quiet
  <1>. QED BY <1>2, IdleFields, ReplyStep

\* The application deletes the session, ...
LEMMA DeleteStep ==
    ASSUME MInv, NEW t \in Tab, DeleteSession(t)
    PROVE  MInv'
  <1> DEFINE reply == [NoReply EXCEPT !.location = "logout"]
  <1>1. [Idle EXCEPT !.at = "reply", !.reply = reply]
          = [Idle EXCEPT !.at = "reply", !.page = None, !.reply = reply]
    BY IdleShape
  <1>2. reply \in Reply /\ reply.track = None /\ reply.session = None /\ reply.location # "idp"
    BY DEF NoReply, Reply
  <1>3. /\ Quiet /\ net' = net
        /\ tab' = [tab EXCEPT ![t] = [Idle EXCEPT !.at = "reply", !.page = None,
                                                  !.reply = reply]]
    BY <1>1 DEF DeleteSession, Quiet
  <1> HIDE DEF reply
  <1>. QED BY <1>2, <1>3, ReplyStep

\* ... or the page is served, ...
LEMMA ServedStep ==
    ASSUME MInv, Quiet, net' = net, NEW t \in Tab, NEW page \in Page \cup {None},
           NEW reply, reply = [NoReply EXCEPT !.location = "served"],
           tab' = [tab EXCEPT ![t] = [Idle EXCEPT !.at = "reply", !.page = page,
                                                  !.reply = reply]]
    PROVE  MInv'
  <1>1. reply \in Reply /\ reply.track = None /\ reply.session = None /\ reply.location # "idp"
    BY DEF NoReply, Reply
  <1>. QED BY <1>1, ReplyStep

\* ... or the tab is closed.
LEMMA LoseStep ==
    ASSUME MInv, NEW t \in Tab, Lose(t)
    PROVE  MInv'
  <1>1. Quiet /\ net' = net /\ tab' = [tab EXCEPT ![t] = Idle]
    BY DEF Lose, Quiet
  <1>2. tab'[t] = Idle
    BY <1>1 DEF MInv, Types
  <1>3. TabOK(t)'
    BY <1>2, IdleFields DEF TabOK
  <1>4. net' \subseteq Response /\ Issued'
    BY <1>1 DEF MInv, Types, TypeOK, Issued, Quiet
  <1>. QED BY <1>1, <1>3, <1>4, IdleFields, TabMoves

\* Time passes.
LEMMA TickStep ==
    ASSUME MInv, Tick
    PROVE  MInv'
  <1>1. /\ now' = now + 1 /\ UNCHANGED <<tracked, token, nextReq, made, net, tab, stopped>>
        /\ now \in Nat /\ nextReq \in Nat
    BY MiddlewareAssumption DEF Tick, MInv, Types, TypeOK
  <1>2. Grows
    BY <1>1 DEF Grows
  <1>3. Types'
    BY <1>1 DEF MInv, Types, TypeOK
  <1>4. Requests'
    <2>1. \A i \in RequestID : i < nextReq => made[i].time \in Nat
      BY DEF MInv, Requests, Types, TypeOK
    <2>. QED BY <1>1, <2>1 DEF MInv, Requests
  <1>5. Jars'
    BY <1>1, <1>2, JarsStay DEF MInv
  <1>6. Issued'
    <2>1. \A r \in net : r.issued \in Nat
      BY DEF MInv, Types, TypeOK, Response
    <2>. QED BY <1>1, <2>1 DEF MInv, Issued
  <1>7. \A t \in Tab : TabOK(t)'
    BY <1>1, <1>2, TabStays DEF MInv
  <1>. QED BY <1>3, <1>4, <1>5, <1>6, <1>7 DEF MInv

\* A browser drops a cookie.
LEMMA EvictStep ==
    ASSUME MInv, NEW b \in Browser, Evict(b)
    PROVE  MInv'
  <1>1. UNCHANGED <<now, token, nextReq, made, net, tab, stopped>>
    BY DEF Evict
  <1>2. PICK c \in tracked[b] : tracked' = [tracked EXCEPT ![b] = @ \ {c}]
    BY DEF Evict
  <1>3. /\ tracked' \in [Browser -> SUBSET TrackedCookie]
        /\ \A a \in Browser : tracked'[a] \subseteq tracked[a]
    BY <1>2 DEF MInv, Types, TypeOK
  <1>4. now \in Nat /\ nextReq \in Nat
    BY MiddlewareAssumption DEF MInv, Types, TypeOK
  <1>5. Grows
    BY <1>1, <1>4 DEF Grows
  <1>6. Types' /\ Requests' /\ Issued'
    BY <1>1, <1>3 DEF MInv, Types, TypeOK, Requests, Issued
  <1>7. Jars'
    BY <1>1, <1>3, <1>5, JarsStay DEF MInv
  <1>8. \A t \in Tab : TabOK(t)'
    BY <1>1, <1>5, TabStays DEF MInv
  <1>. QED BY <1>6, <1>7, <1>8 DEF MInv

\* HandleStartAuthFlow: a new request is made, with its number and its cookie.
LEMMA StartStep ==
    ASSUME MInv, NEW t \in Tab, NEW page \in Page, nextReq <= MaxRequests,
           NEW cookie,
           cookie = [index |-> TrackedIndex(nextReq), id |-> nextReq, uri |-> page,
                     exp |-> now + MaxIssueDelay, hostOnly |-> TRUE],
           nextReq' = nextReq + 1,
           made' = [made EXCEPT ![nextReq] = [browser |-> Owner[t], page |-> page,
                                              time |-> now]],
           tab' = [tab EXCEPT ![t] = [Idle EXCEPT !.at = "reply", !.page = page,
                                       !.request = nextReq,
                                       !.reply = [NoReply EXCEPT !.track = cookie,
                                                                 !.location = "idp"]]],
           UNCHANGED <<now, tracked, token, net, stopped>>
    PROVE  MInv'
  <1> DEFINE request == [browser |-> Owner[t], page |-> page, time |-> now]
             reply == [NoReply EXCEPT !.track = cookie, !.location = "idp"]
             rec == [Idle EXCEPT !.at = "reply", !.page = page, !.request = nextReq,
                                 !.reply = reply]
  <1>1. /\ now \in Nat /\ nextReq \in Nat /\ nextReq \in RequestID /\ nextReq' \in Nat
        /\ nextReq' \in 1..(MaxRequests + 1) /\ nextReq < nextReq'
        /\ Owner[t] \in Browser /\ MaxIssueDelay \in Nat
    <2>1. now \in Nat /\ nextReq \in 1..(MaxRequests + 1) /\ MaxRequests \in Nat
      BY MiddlewareAssumption DEF MInv, Types, TypeOK
    <2>2. Owner[t] \in Browser /\ MaxIssueDelay \in Nat
      BY MiddlewareAssumption, DelaysAssumption
    <2>. QED BY <2>1, <2>2 DEF RequestID
  <1>2. /\ request \in [browser: Browser, page: Page, time: Nat]
        /\ request.browser = Owner[t] /\ request.page = page /\ request.time = now
    BY <1>1
  <1>3. TrackedIndex(nextReq) \in Index
    BY <1>1 DEF TrackedIndex, Index
  <1>4. cookie \in TrackedCookie
    BY <1>1, <1>3 DEF TrackedCookie
  <1>5. /\ reply \in Reply /\ reply.track = cookie /\ reply.session = None
        /\ reply.location = "idp"
    BY <1>4 DEF NoReply, Reply
  <1> HIDE DEF reply
  <1>6. rec \in TabRecord /\ rec.at = "reply" /\ rec.request = nextReq /\ rec.reply = reply
    BY <1>1, <1>5, IdleFields DEF TabRecord
  <1> HIDE DEF rec
  <1>7. tab' = [tab EXCEPT ![t] = rec]
    BY DEF rec, reply
  <1>8. /\ tab' \in [Tab -> TabRecord] /\ tab'[t] = rec
        /\ \A q \in Tab \ {t} : tab'[q] = tab[q]
    BY <1>6, <1>7 DEF MInv, Types
  <1> HIDE DEF request
  <1>9. made' = [made EXCEPT ![nextReq] = request]
    BY DEF request
  <1>10. /\ made' \in [RequestID -> [browser: Browser, page: Page, time: Nat] \cup {None}]
         /\ made'[nextReq] = request
         /\ \A i \in RequestID : i # nextReq => made'[i] = made[i]
    BY <1>1, <1>2, <1>9 DEF MInv, Types, TypeOK
  <1>11. Grows
    <2>1. \A i \in RequestID : i < nextReq => i # nextReq
      BY <1>1 DEF RequestID
    <2>. QED BY <1>1, <1>10, <2>1 DEF Grows
  <1>12. Types'
    BY <1>1, <1>8, <1>10, TabTypes DEF MInv, Types, TypeOK
  <1>13. Requests'
    <2>1. request # None
      BY <1>2, AbsentAssumption
    <2>2. ASSUME NEW i \in RequestID
          PROVE  IF i < nextReq' THEN made'[i] # None /\ made'[i].time <= now'
                 ELSE made'[i] = None
      <3>1. CASE i = nextReq
        BY <1>1, <1>2, <1>10, <2>1, <3>1
      <3>2. CASE i # nextReq
        <4>1. i < nextReq' <=> i < nextReq
          BY <1>1, <3>2, MiddlewareAssumption DEF RequestID
        <4>. QED BY <1>10, <3>2, <4>1 DEF MInv, Requests
      <3>. QED BY <3>1, <3>2
    <2>. QED BY <2>2 DEF Requests
  <1>14. Jars'
    BY <1>11, JarsStay DEF MInv
  <1>15. Issued'
    <2>1. \A r \in net : r.id \in RequestID \cup {NoID}
      BY DEF MInv, Types, TypeOK, Response
    <2>2. \A i \in RequestID : i < nextReq => i < nextReq'
      BY <1>1, MiddlewareAssumption DEF RequestID
    <2>. QED BY <2>1, <2>2 DEF MInv, Issued
  <1>16. OwnCookie(Owner[t], cookie)'
    <2>1. /\ cookie.id = nextReq /\ cookie.index = TrackedIndex(nextReq)
          /\ cookie.uri = page /\ cookie.exp = now + MaxIssueDelay
      OBVIOUS
    <2>. QED BY <1>1, <1>2, <1>10, <2>1 DEF OwnCookie, Asked, TrackedIndex
  <1>17. TabOK(t)'
    <2>1. /\ tab'[t].reply = reply /\ tab'[t].at = "reply"
          /\ tab'[t].request = nextReq
      BY <1>6, <1>8
    <2>. QED BY <1>1, <1>5, <1>16, <2>1 DEF TabOK
  <1>18. net \subseteq net'
    OBVIOUS
  <1>. QED BY <1>8, <1>11, <1>12, <1>13, <1>14, <1>15, <1>17, <1>18, OneTab

\* RequireAccount as a whole.
LEMMA AccountStep ==
    ASSUME MInv, NEW t \in Tab, NEW page \in Page, RequireAccount(t, page),
           UNCHANGED <<now, tracked, token, net, stopped>>
    PROVE  MInv'
  <1> DEFINE served == [NoReply EXCEPT !.location = "served"]
             cookie == [index |-> TrackedIndex(nextReq), id |-> nextReq, uri |-> page,
                        exp |-> now + MaxIssueDelay, hostOnly |-> TRUE]
  <1>1. CASE /\ UNCHANGED <<nextReq, made>>
             /\ tab' = [tab EXCEPT ![t] = [Idle EXCEPT !.at = "reply", !.page = page,
                                                       !.reply = served]]
    <2>1. Quiet /\ net' = net /\ page \in Page \cup {None}
      BY <1>1 DEF Quiet
    <2>2. \E reply : /\ reply = [NoReply EXCEPT !.location = "served"]
                     /\ tab' = [tab EXCEPT ![t] = [Idle EXCEPT !.at = "reply", !.page = page,
                                                               !.reply = reply]]
      BY <1>1
    <2>. QED BY <2>1, <2>2, ServedStep
  <1>2. CASE /\ nextReq <= MaxRequests
             /\ nextReq' = nextReq + 1
             /\ made' = [made EXCEPT ![nextReq] = [browser |-> Owner[t], page |-> page,
                                                   time |-> now]]
             /\ tab' = [tab EXCEPT ![t] = [Idle EXCEPT !.at = "reply", !.page = page,
                                            !.request = nextReq,
                                            !.reply = [NoReply EXCEPT !.track = cookie,
                                                                      !.location = "idp"]]]
    <2> HIDE DEF cookie
    <2>1. cookie = [index |-> TrackedIndex(nextReq), id |-> nextReq, uri |-> page,
                    exp |-> now + MaxIssueDelay, hostOnly |-> TRUE]
      BY DEF cookie
    <2>. QED BY <1>2, <2>1, StartStep
  <1>. QED BY <1>1, <1>2 DEF RequireAccount

\* A reply is delivered: its cookies go into the jars of its browser.
LEMMA DeliverStep ==
    ASSUME MInv, NEW t \in Tab, Deliver(t)
    PROVE  MInv'
  <1> DEFINE b == Owner[t]
             reply == tab[t].reply
             cleared == IF reply.stop # None THEN ClearTracked(tracked[b], reply.stop)
                        ELSE tracked[b]
             jar == IF reply.track # None THEN StoreTracked(cleared, reply.track)
                    ELSE cleared
             kept == CASE reply.session # None -> StoreToken(token[b], reply.session)
                       [] reply.location = "logout" -> ClearToken(token[b])
                       [] OTHER -> token[b]
             rec == CASE reply.location = "idp" ->
                           [Idle EXCEPT !.at = "at_idp", !.page = tab[t].page,
                                        !.request = tab[t].request]
                      [] reply.location \in Page ->
                           [Idle EXCEPT !.at = "goto", !.page = reply.location]
                      [] OTHER -> Idle
  <1>1. b \in Browser /\ tab[t] \in TabRecord /\ TabOK(t)
    BY MiddlewareAssumption DEF MInv, Types
  <1>2. reply \in Reply /\ tab[t].page \in Page \cup {None}
    BY <1>1 DEF TabRecord
  <1>3. /\ reply.track \in TrackedCookie \cup {None} /\ reply.stop \in Index \cup {None}
        /\ reply.session \in SessionCookie \cup {None}
    BY <1>2 DEF Reply
  <1>4. /\ reply.track # None => OwnCookie(b, reply.track)
        /\ reply.session # None => OwnSession(b, reply.session)
        /\ reply.location = "idp" => tab[t].request \in RequestID /\ tab[t].request < nextReq
    BY <1>1 DEF TabOK
  <1>5. /\ tracked[b] \subseteq TrackedCookie /\ \A c \in tracked[b] : OwnCookie(b, c)
        /\ token[b] \subseteq SessionCookie /\ \A c \in token[b] : OwnSession(b, c)
    BY <1>1 DEF MInv, Types, TypeOK, Jars
  <1>6. /\ tracked' = [tracked EXCEPT ![b] = jar]
        /\ token' = [token EXCEPT ![b] = kept]
        /\ stopped' = IF reply.stop # None THEN [stopped EXCEPT ![b] = @ \cup {reply.stop}]
                      ELSE stopped
        /\ tab' = [tab EXCEPT ![t] = rec]
        /\ UNCHANGED <<now, nextReq, made, net>>
    BY DEF Deliver
  <1> HIDE DEF reply, b
  <1>7. cleared \subseteq tracked[b]
    BY DEF ClearTracked
  <1>8. jar \subseteq cleared \cup ({reply.track} \ {None})
    BY DEF StoreTracked
  <1> HIDE DEF cleared, jar
  <1>9. jar \subseteq TrackedCookie /\ \A c \in jar : OwnCookie(b, c)
    BY <1>3, <1>4, <1>5, <1>7, <1>8
  <1>10. kept \subseteq token[b] \cup ({reply.session} \ {None})
    BY DEF StoreToken, ClearToken
  <1> HIDE DEF kept
  <1>11. kept \subseteq SessionCookie /\ \A c \in kept : OwnSession(b, c)
    BY <1>3, <1>4, <1>5, <1>10
  <1>12. /\ rec \in TabRecord /\ rec.reply = NoReply /\ rec.at \notin {"post", "resolve"}
         /\ rec.at = "goto" => rec.page \in Page
         /\ rec.at = "at_idp" => rec.request \in RequestID /\ rec.request < nextReq
    <2>1. CASE reply.location = "idp"
      <3>1. rec = [Idle EXCEPT !.at = "at_idp", !.page = tab[t].page,
                               !.request = tab[t].request]
        BY <2>1, MiddlewareAssumption
      <3> HIDE DEF rec
      <3>2. rec \in TabRecord
        BY <1>2, <1>4, <2>1, <3>1, IdleFields DEF TabRecord
      <3>. QED BY <1>4, <2>1, <3>1, <3>2, IdleFields DEF TabRecord
    <2>2. CASE reply.location # "idp" /\ reply.location \in Page
      <3>1. rec = [Idle EXCEPT !.at = "goto", !.page = reply.location]
        BY <2>2
      <3> HIDE DEF rec
      <3>. QED BY <2>2, <3>1, IdleFields DEF TabRecord
    <2>3. CASE reply.location # "idp" /\ reply.location \notin Page
      BY <2>3, IdleFields
    <2>. QED BY <2>1, <2>2, <2>3
  <1> HIDE DEF rec
  <1>13. /\ tab' \in [Tab -> TabRecord] /\ tab'[t] = rec
         /\ \A q \in Tab \ {t} : tab'[q] = tab[q]
    BY <1>6, <1>12 DEF MInv, Types
  <1>14. /\ tracked' \in [Browser -> SUBSET TrackedCookie]
         /\ tracked'[b] = jar /\ \A a \in Browser \ {b} : tracked'[a] = tracked[a]
    BY <1>1, <1>6, <1>9 DEF MInv, Types, TypeOK
  <1>15. /\ token' \in [Browser -> SUBSET SessionCookie]
         /\ token'[b] = kept /\ \A a \in Browser \ {b} : token'[a] = token[a]
    BY <1>1, <1>6, <1>11 DEF MInv, Types, TypeOK
  <1>16. stopped' \in [Browser -> SUBSET Index]
    BY <1>1, <1>3, <1>6 DEF MInv, Types, TypeOK
  <1>17. Grows
    <2>1. now \in Nat /\ nextReq \in Nat
      BY MiddlewareAssumption DEF MInv, Types, TypeOK
    <2>. QED BY <1>6, <2>1 DEF Grows
  <1>18. Types'
    BY <1>6, <1>13, <1>14, <1>15, <1>16, TabTypes DEF MInv, Types, TypeOK
  <1>19. Requests' /\ Issued'
    BY <1>6 DEF MInv, Requests, Issued
  <1>20. Jars'
    <2>1. ASSUME NEW a \in Browser
          PROVE  (\A c \in tracked'[a] : OwnCookie(a, c)) /\ (\A c \in token'[a] : OwnSession(a, c))
      BY <1>9, <1>11, <1>14, <1>15 DEF MInv, Jars
    <2>. QED BY <1>17, <2>1, Stable DEF Jars
  <1>21. TabOK(t)'
    BY <1>6, <1>12, <1>13, IdleFields DEF TabOK
  <1>22. net \subseteq net'
    BY <1>6
  <1>. QED BY <1>13, <1>17, <1>18, <1>19, <1>20, <1>21, <1>22, OneTab

\* Every step keeps the invariant.
LEMMA Kept == MInv /\ [Next]_vars => MInv'
  <1> SUFFICES ASSUME MInv, [Next]_vars PROVE MInv'
    OBVIOUS
  <1>1. CASE Tick
    BY <1>1, TickStep
  <1>2. ASSUME NEW b \in Browser, Evict(b) PROVE MInv'
    BY <1>2, EvictStep
  <1>3. ASSUME NEW t \in Tab, Proceed(t) PROVE MInv'
    <2>1. CASE Deliver(t)
      BY <2>1, DeliverStep
    <2>2. CASE Follow(t)
      <3>1. tab[t].page \in Page
        BY <2>2 DEF Follow, MInv, TabOK
      <3>. QED BY <2>2, <3>1, AccountStep DEF Follow
    <2>3. ASSUME NEW user \in User, NEW relay \in Index \cup Page \cup {NoRelay},
                 IdpAnswer(t, user, relay)
          PROVE  MInv'
      BY <2>3, AnswerStep
    <2>4. CASE PostOwn(t)
      <3>1. tab[t].response \in net
        BY <2>4 DEF PostOwn, MInv, TabOK
      <3>. QED BY <2>4, <3>1, PostStep DEF PostOwn
    <2>5. CASE Resolve(t)
      BY <2>5, ResolveStep
    <2>. QED BY <1>3, <2>1, <2>2, <2>3, <2>4, <2>5 DEF Proceed
  <1>4. ASSUME NEW t \in Tab, NEW page \in Asks[t], Visit(t, page) PROVE MInv'
    BY <1>4, AccountStep, MiddlewareAssumption DEF Visit
  <1>5. ASSUME NEW t \in Tab, NEW user \in User, NEW sp \in {"sp", "other"},
               NEW relay \in Page \cup {NoRelay}, IdpInitiated(t, user, sp, relay)
        PROVE  MInv'
    BY <1>5, InitiatedStep
  <1>6. ASSUME NEW t \in Tab, NEW i \in RequestID, Revisit(t, i) PROVE MInv'
    BY <1>6, RevisitStep
  <1>7. ASSUME NEW t \in Tab, NEW r \in net, PostAny(t, r) PROVE MInv'
    BY <1>7, PostStep DEF PostAny
  <1>8. ASSUME NEW t \in Tab, ResolveFails(t) \/ Lose(t) \/ DeleteSession(t) PROVE MInv'
    BY <1>8, ResolveFailsStep, LoseStep, DeleteStep
  <1>9. CASE UNCHANGED vars
    BY <1>9 DEF vars, MInv, Types, TypeOK, Requests, Jars, Issued, TabOK, OwnCookie, Asked,
                Possible, OwnSession, OwnLocation, TrackedIndex
  <1>. QED BY <1>1, <1>2, <1>3, <1>4, <1>5, <1>6, <1>7, <1>8, <1>9 DEF Next

\* The invariant holds in every state the program reaches.
LEMMA Invariant == Spec => []MInv
  BY Starts, Kept, PTL DEF Spec

-----------------------------------------------------------------------------
\* What the middleware promises.

\* Cookies, requests, responses and tabs keep their types.
THEOREM TypeCorrect == Spec => []TypeOK
  <1>1. MInv => TypeOK
    BY DEF MInv, Types
  <1>. QED BY <1>1, Invariant, PTL

\* ServeACS gives a browser a session only for an assertion made for this service
\* provider that answers a request of that very browser, or, if AllowIDPInitiated,
\* none at all.
THEOREM OnlySolicited == Spec => []SessionsSolicited
  <1>1. MInv => SessionsSolicited
    <2> SUFFICES ASSUME MInv, NEW b \in Browser, NEW c \in token[b]
                 PROVE  /\ c.sp = "sp" /\ (c.id = NoID => AllowIDPInitiated)
                        /\ c.id # NoID => made[c.id].browser = b
      BY DEF SessionsSolicited
    <2>1. OwnSession(b, c)
      BY DEF MInv, Jars
    <2>. QED BY <2>1, MiddlewareAssumption DEF OwnSession, Possible, Asked
  <1>. QED BY <1>1, Invariant, PTL

\* A session is made from a fresh assertion, of a response that came while its
\* request was tracked, however long the ArtifactResolve took.
THEOREM OnlyInTime == Spec => []SessionsTimely
  <1>1. MInv => SessionsTimely
    <2> SUFFICES ASSUME MInv, NEW b \in Browser, NEW c \in token[b]
                 PROVE  /\ c.created <= c.issued + MaxIssueDelay
                        /\ c.id # NoID => /\ c.arrived <= made[c.id].time + MaxIssueDelay
                                          /\ c.created <= made[c.id].time + 2 * MaxIssueDelay
      BY DEF SessionsTimely
    <2>1. OwnSession(b, c) /\ c \in SessionCookie
      BY DEF MInv, Jars, Types, TypeOK
    <2>2. c.issued \in Nat /\ c.created \in Nat /\ c.arrived \in Nat /\ MaxIssueDelay \in Nat
      BY <2>1, DelaysAssumption DEF SessionCookie
    <2>3. ASSUME c.id # NoID
          PROVE  c.arrived <= made[c.id].time + MaxIssueDelay /\ made[c.id].time \in Nat
      <3>1. /\ c.id \in RequestID /\ c.id < nextReq
            /\ c.arrived <= made[c.id].time + MaxIssueDelay
        BY <2>1, <2>3 DEF OwnSession, Possible, Asked
      <3>. QED BY <3>1 DEF MInv, Requests, Types, TypeOK
    <2>. QED BY <2>1, <2>2, <2>3 DEF OwnSession
  <1>. QED BY <1>1, Invariant, PTL

\* The redirect of ServeACS leads to a local page or the default one; where it stops
\* tracking a request, to the page of that request, which is one of this very browser;
\* and elsewhere only if AllowIDPInitiated.
THEOREM OnlyOwnPages == Spec => []RedirectsOwnPages
  <1>1. MInv => RedirectsOwnPages
    <2> SUFFICES ASSUME MInv, NEW t \in Tab, tab[t].reply.session # None
                 PROVE  LET reply == tab[t].reply IN
                        /\ reply.location \in Local \cup {DefaultRedirectURI}
                        /\ reply.stop # None => \E i \in RequestID :
                              /\ made[i] # None /\ made[i].browser = Owner[t]
                              /\ reply.stop = TrackedIndex(i)
                              /\ reply.location = RedirectURI(made[i].page)
                        /\ reply.stop = None /\ reply.location # DefaultRedirectURI
                             => AllowIDPInitiated
      BY DEF RedirectsOwnPages
    <2>1. OwnLocation(Owner[t], tab[t].reply.stop, tab[t].reply.location)
      BY DEF MInv, TabOK
    <2>2. \A i : Asked(Owner[t], i) => made[i] # None /\ made[i].browser = Owner[t]
      BY DEF MInv, Requests, Asked
    <2>. QED BY <2>1, <2>2 DEF OwnLocation
  <1>. QED BY <1>1, Invariant, PTL

-----------------------------------------------------------------------------
\* Flows.  Without a RelayStateFunc the index of a request is its own.

\* The identity provider has got request i.
Sent(i) ==
    \/ \E r \in net : r.id = i
    \/ \E t \in Tab : tab[t].at = "at_idp" /\ tab[t].request = i

\* The browser keeps the cookie of a request that was sent until it is stopped or
\* over.
CookiesKept ==
    \A i \in RequestID :
       LET b == made[i].browser IN
       Sent(i) /\ now < made[i].time + MaxIssueDelay /\ i \notin stopped[b]
         => \E c \in tracked[b] : c.id = i

\* Who asked gets the answer, and the redirect to the identity provider comes with
\* the cookie of the request.
AnswersOwn ==
    /\ \A r \in net : r.id # NoID => r.sp = "sp"
    /\ \A t \in Tab :
          LET reply == tab[t].reply IN
          reply.location = "idp" =>
             reply.track # None /\ reply.track.id = tab[t].request /\ reply.stop = None

FInv == CookiesKept /\ AnswersOwn

\* Only requests that were made are sent.
LEMMA SentMade ==
    ASSUME MInv, NEW i \in RequestID, Sent(i)
    PROVE  i < nextReq /\ made[i].browser \in Browser /\ made[i].time \in Nat
  <1>1. i < nextReq
    BY MiddlewareAssumption DEF Sent, MInv, Issued, TabOK
  <1>. QED BY <1>1 DEF MInv, Requests, Types, TypeOK

\* A step that sends nothing new, stops nothing and drops only what is over keeps
\* the cookies of the requests.
LEMMA CookiesStay ==
    ASSUME MInv, CookiesKept, Grows, stopped' = stopped,
           \A b \in Browser : \A c \in tracked[b] : now < c.exp => c \in tracked'[b],
           \A i \in RequestID : Sent(i)' => Sent(i)
    PROVE  CookiesKept'
  <1> SUFFICES ASSUME NEW i \in RequestID, Sent(i)',
                      now' < made'[i].time + MaxIssueDelay,
                      i \notin stopped[made'[i].browser]
               PROVE  \E c \in tracked'[made'[i].browser] : c.id = i
    BY DEF CookiesKept
  <1>1. Sent(i)
    OBVIOUS
  <1>2. i < nextReq /\ made[i].browser \in Browser /\ made[i].time \in Nat
    BY <1>1, SentMade
  <1>3. made'[i] = made[i] /\ now <= now' /\ now \in Nat /\ now' \in Nat
        /\ MaxIssueDelay \in Nat
    BY <1>2, DelaysAssumption DEF Grows
  <1>4. now < made[i].time + MaxIssueDelay
    BY <1>2, <1>3
  <1>5. PICK c \in tracked[made[i].browser] : c.id = i
    BY <1>1, <1>3, <1>4 DEF CookiesKept
  <1>6. c.exp = made[i].time + MaxIssueDelay
    BY <1>2, <1>5 DEF MInv, Jars, OwnCookie
  <1>. QED BY <1>2, <1>3, <1>4, <1>5, <1>6

\* What the steps that only change one tab have in common: the tab gets no cookie
\* to keep and asks for nothing that was not asked for.
Moved(t) ==
    /\ Quiet
    /\ \A r \in net' \ net : r.id = NoID \/ (r.sp = "sp" /\ Sent(r.id))
    /\ \E rec \in TabRecord :
          /\ tab' = [tab EXCEPT ![t] = rec]
          /\ rec.reply.track = None /\ rec.reply.location # "idp"
          /\ rec.at = "at_idp" => Sent(rec.request)

\* A record of TabRecord that was made from Idle.
LEMMA MovedReply ==
    ASSUME MInv, Quiet, net' = net, NEW t \in Tab, NEW page \in Page \cup {None},
           NEW reply \in Reply, reply.track = None, reply.location # "idp",
           tab' = [tab EXCEPT ![t] = [Idle EXCEPT !.at = "reply", !.page = page,
                                                  !.reply = reply]]
    PROVE  Moved(t)
  <1> DEFINE rec == [Idle EXCEPT !.at = "reply", !.page = page, !.reply = reply]
  <1>1. rec \in TabRecord /\ rec.at = "reply" /\ rec.reply = reply
    BY IdleFields DEF TabRecord, Idle
  <1> HIDE DEF rec
  <1>2. tab' = [tab EXCEPT ![t] = rec]
    BY DEF rec
  <1>. QED BY <1>1, <1>2 DEF Moved

\* Every such step is one of them.
LEMMA QuietSteps ==
    ASSUME MInv, NEW t \in Tab,
           \/ \E user \in User, relay \in Index \cup Page \cup {NoRelay} :
                 IdpAnswer(t, user, relay)
           \/ \E i \in RequestID : Revisit(t, i)
           \/ \E user \in User, sp \in {"sp", "other"}, relay \in Page \cup {NoRelay} :
                 IdpInitiated(t, user, sp, relay)
           \/ \E r \in net : Post(t, r)
           \/ Resolve(t) \/ ResolveFails(t) \/ DeleteSession(t) \/ Lose(t)
    PROVE  Moved(t)
  <1>1. tab[t] \in TabRecord /\ TabOK(t) /\ now \in Nat
    BY DEF MInv, Types, TypeOK
  <1>2. tab[t].page \in Page \cup {None}
    BY <1>1 DEF TabRecord
  <1>4. ASSUME NEW user \in User, NEW relay \in Index \cup Page \cup {NoRelay},
               IdpAnswer(t, user, relay)
        PROVE  Moved(t)
    <2> DEFINE response == [id |-> tab[t].request, user |-> user, sp |-> "sp",
                            issued |-> now, relay |-> relay]
               rec == [Idle EXCEPT !.at = "post", !.page = tab[t].page,
                                   !.response = response]
    <2>1. tab[t].request \in RequestID /\ tab[t].at = "at_idp"
      BY <1>1, <1>4 DEF TabOK, IdpAnswer
    <2>2. /\ response \in Response /\ response.sp = "sp" /\ response.id = tab[t].request
      BY <1>1, <2>1 DEF Response
    <2> HIDE DEF response
    <2>3. /\ rec \in TabRecord /\ rec.reply = NoReply /\ rec.at = "post"
      BY <1>2, <2>2, IdleFields DEF TabRecord
    <2>4. Sent(response.id)
      BY <2>1, <2>2 DEF Sent
    <2>5. tab' = [tab EXCEPT ![t] = rec] /\ net' = net \cup {response} /\ Quiet
      BY <1>4 DEF IdpAnswer, Quiet, response
    <2> HIDE DEF rec
    <2>. QED BY <2>2, <2>3, <2>4, <2>5, IdleFields DEF Moved
  <1>5. ASSUME NEW i \in RequestID, Revisit(t, i) PROVE Moved(t)
    <2> DEFINE rec == [Idle EXCEPT !.at = "at_idp", !.page = made[i].page, !.request = i]
    <2>1. Sent(i)
      BY <1>5 DEF Revisit, Sent
    <2>2. made[i].page \in Page
      BY <2>1, SentMade DEF MInv, Requests, Types, TypeOK
    <2>3. /\ rec \in TabRecord /\ rec.reply = NoReply /\ rec.request = i
      BY <2>2, IdleFields DEF TabRecord
    <2>4. tab' = [tab EXCEPT ![t] = rec] /\ net' = net /\ Quiet
      BY <1>5 DEF Revisit, Quiet
    <2> HIDE DEF rec
    <2>. QED BY <2>1, <2>3, <2>4, IdleFields DEF Moved
  <1>6. ASSUME NEW user \in User, NEW sp \in {"sp", "other"},
               NEW relay \in Page \cup {NoRelay}, IdpInitiated(t, user, sp, relay)
        PROVE  Moved(t)
    <2> DEFINE response == [id |-> NoID, user |-> user, sp |-> sp, issued |-> now,
                            relay |-> relay]
               rec == [Idle EXCEPT !.at = "post", !.response = response]
    <2>1. response \in Response /\ response.id = NoID
      BY <1>1 DEF Response
    <2> HIDE DEF response
    <2>2. /\ rec \in TabRecord /\ rec.reply = NoReply /\ rec.at = "post"
      BY <2>1, IdleFields DEF TabRecord
    <2>3. tab' = [tab EXCEPT ![t] = rec] /\ net' = net \cup {response} /\ Quiet
      BY <1>6 DEF IdpInitiated, Quiet, response
    <2> HIDE DEF rec
    <2>. QED BY <2>1, <2>2, <2>3, IdleFields DEF Moved
  <1>7. ASSUME NEW r \in net, Post(t, r) PROVE Moved(t)
    <2> DEFINE jar == tracked[Owner[t]]
               ids == PossibleRequestIDs(jar)
               reply == ServePost(jar, r)
               rec == [Idle EXCEPT !.at = "resolve", !.page = tab[t].page, !.response = r,
                                   !.ids = ids, !.cookies = jar, !.arrived = now]
    <2>1. Quiet /\ net' = net
      BY <1>7 DEF Post, Quiet
    <2>2. CASE tab' = [tab EXCEPT ![t] = [Idle EXCEPT !.at = "reply", !.page = tab[t].page,
                                            !.reply = reply]]
      <3>1. reply \in Reply /\ reply.track = None /\ reply.location # "idp"
        BY PostReply
      <3> HIDE DEF reply
      <3>. QED BY <1>2, <2>1, <2>2, <3>1, MovedReply
    <2>3. CASE tab' = [tab EXCEPT ![t] = rec]
      <3>1. Owner[t] \in Browser /\ r \in Response
        BY MiddlewareAssumption DEF MInv, Types, TypeOK
      <3>2. jar \in SUBSET TrackedCookie /\ ids \in SUBSET (RequestID \cup {NoID})
        BY <3>1, JarPossible
      <3> HIDE DEF ids, jar
      <3>3. /\ rec \in TabRecord /\ rec.reply = NoReply /\ rec.at = "resolve"
        BY <1>1, <1>2, <3>1, <3>2, IdleFields DEF TabRecord
      <3> HIDE DEF rec
      <3>. QED BY <2>1, <2>3, <3>3, IdleFields DEF Moved, jar
    <2>. QED BY <1>7, <2>2, <2>3 DEF Post
  <1>8. CASE Resolve(t)
    <2> DEFINE r == tab[t].response
               outcome == ParseXMLArtifactResponse(Self, ArtifactDocument(r), tab[t].ids,
                                                   "resolve", now, <<"idp", "artifact">>)
               reply == AcsReply(tab[t].cookies, r, outcome, tab[t].arrived)
    <2>1. tab[t].at = "resolve"
      BY <1>8 DEF Resolve
    <2>2. reply \in Reply /\ reply.track = None /\ reply.location # "idp"
      BY <2>1, ResolveReply
    <2>3. /\ Quiet /\ net' = net
          /\ tab' = [tab EXCEPT ![t] = [Idle EXCEPT !.at = "reply", !.page = tab[t].page,
                                                    !.reply = reply]]
      BY <1>8 DEF Resolve, Quiet
    <2> HIDE DEF reply
    <2>. QED BY <1>2, <2>2, <2>3, MovedReply
  <1>9. CASE ResolveFails(t)
    <2>1. /\ Quiet /\ net' = net
          /\ tab' = [tab EXCEPT ![t] = [Idle EXCEPT !.at = "reply", !.page = None,
                                                    !.reply = NoReply]]
      BY <1>9, IdleShape DEF ResolveFails, Quiet
    <2>. QED BY <2>1, IdleFields, MovedReply
  <1>10. CASE DeleteSession(t)
    <2> DEFINE reply == [NoReply EXCEPT !.location = "logout"]
    <2>1. reply \in Reply /\ reply.track = None /\ reply.stop = None /\ reply.location # "idp"
      BY DEF NoReply, Reply
    <2>2. /\ Quiet /\ net' = net
          /\ tab' = [tab EXCEPT ![t] = [Idle EXCEPT !.at = "reply", !.page = None,
                                                    !.reply = reply]]
      BY <1>10, IdleShape DEF DeleteSession, Quiet
    <2> HIDE DEF reply
    <2>. QED BY <2>1, <2>2, MovedReply
  <1>11. CASE Lose(t)
    BY <1>11, IdleFields DEF Moved, Lose, Quiet
  <1>. QED BY <1>4, <1>5, <1>6, <1>7, <1>8, <1>9, <1>10, <1>11

\* HandleStartAuthFlow: the reply brings the cookie of a request that is new.
Started(t) ==
    /\ Grows /\ nextReq \in RequestID /\ nextReq' = nextReq + 1
    /\ UNCHANGED <<now, tracked, token, net, stopped>>
    /\ \E rec \in TabRecord :
          /\ tab' = [tab EXCEPT ![t] = rec]
          /\ rec.at = "reply" /\ rec.request = nextReq
          /\ rec.reply.track # None /\ rec.reply.track.id = nextReq /\ rec.reply.stop = None

LEMMA AccountShape ==
    ASSUME MInv, NEW t \in Tab, NEW page \in Page, RequireAccount(t, page),
           UNCHANGED <<now, tracked, token, net, stopped>>
    PROVE  Moved(t) \/ Started(t)
  <1> DEFINE served == [NoReply EXCEPT !.location = "served"]
             cookie == [index |-> TrackedIndex(nextReq), id |-> nextReq, uri |-> page,
                        exp |-> now + MaxIssueDelay, hostOnly |-> TRUE]
             reply == [NoReply EXCEPT !.track = cookie, !.location = "idp"]
             rec == [Idle EXCEPT !.at = "reply", !.page = page, !.request = nextReq,
                                 !.reply = reply]
             request == [browser |-> Owner[t], page |-> page, time |-> now]
  <1>1. /\ page \in Page \cup {None} /\ now \in Nat /\ MaxIssueDelay \in Nat
        /\ nextReq \in 1..(MaxRequests + 1) /\ MaxRequests \in Nat
    BY MiddlewareAssumption, DelaysAssumption DEF MInv, Types, TypeOK
  <1>2. CASE /\ UNCHANGED <<nextReq, made>>
             /\ tab' = [tab EXCEPT ![t] = [Idle EXCEPT !.at = "reply", !.page = page,
                                                       !.reply = served]]
    <2>1. Quiet /\ net' = net
      BY <1>2 DEF Quiet
    <2>2. /\ served \in Reply /\ served.track = None /\ served.stop = None
          /\ served.location # "idp"
      BY DEF NoReply, Reply
    <2> HIDE DEF served
    <2>. QED BY <1>1, <1>2, <2>1, <2>2, MovedReply
  <1>3. CASE /\ nextReq <= MaxRequests
             /\ nextReq' = nextReq + 1
             /\ made' = [made EXCEPT ![nextReq] = request]
             /\ tab' = [tab EXCEPT ![t] = rec]
    <2>1. nextReq \in RequestID
      BY <1>1, <1>3 DEF RequestID
    <2>2. cookie \in TrackedCookie /\ cookie.id = nextReq
      BY <1>1, <2>1 DEF TrackedCookie, TrackedIndex, Index
    <2> HIDE DEF cookie
    <2>3. /\ reply \in Reply /\ reply.track = cookie /\ reply.stop = None
      BY <2>2 DEF NoReply, Reply
    <2> HIDE DEF reply
    <2>4. /\ rec \in TabRecord /\ rec.at = "reply" /\ rec.request = nextReq
          /\ rec.reply = reply
      BY <1>1, <2>1, <2>3, IdleFields DEF TabRecord, Idle
    <2> HIDE DEF rec, request
    <2>5. Grows
      <3>1. \A i \in RequestID : i < nextReq => i # nextReq
        BY <1>1 DEF RequestID
      <3>2. \A i \in RequestID : i # nextReq => made'[i] = made[i]
        BY <1>3, <2>1 DEF MInv, Types, TypeOK
      <3>. QED BY <1>1, <1>3, <3>1, <3>2 DEF Grows
    <2>. QED BY <1>3, <2>1, <2>2, <2>3, <2>4, <2>5, AbsentAssumption DEF Started
  <1>. QED BY <1>2, <1>3 DEF RequireAccount

\* The kinds of steps.
LEMMA StepKinds ==
    ASSUME MInv, Next
    PROVE  \/ Tick
           \/ \E b \in Browser : Evict(b)
           \/ \E t \in Tab : Deliver(t) \/ Started(t) \/ Moved(t)
  <1>1. ASSUME NEW t \in Tab, Proceed(t) PROVE Deliver(t) \/ Started(t) \/ Moved(t)
    <2>1. CASE Follow(t)
      <3>1. tab[t].page \in Page
        BY <2>1 DEF Follow, MInv, TabOK
      <3>. QED BY <2>1, <3>1, AccountShape DEF Follow
    <2>2. CASE PostOwn(t)
      <3>1. tab[t].response \in net
        BY <2>2 DEF PostOwn, MInv, TabOK
      <3>. QED BY <2>2, <3>1, QuietSteps DEF PostOwn
    <2>. QED BY <1>1, <2>1, <2>2, QuietSteps DEF Proceed
  <1>2. ASSUME NEW t \in Tab, NEW page \in Asks[t], Visit(t, page) PROVE Started(t) \/ Moved(t)
    BY <1>2, AccountShape, MiddlewareAssumption DEF Visit
  <1>3. ASSUME NEW t \in Tab, NEW r \in net, PostAny(t, r) PROVE Moved(t)
    BY <1>3, QuietSteps DEF PostAny
  <1>4. ASSUME NEW t \in Tab, NEW user \in User, NEW sp \in {"sp", "other"},
               NEW relay \in Page \cup {NoRelay}, IdpInitiated(t, user, sp, relay)
        PROVE  Moved(t)
    BY <1>4, QuietSteps
  <1>5. ASSUME NEW t \in Tab,
               (\E i \in RequestID : Revisit(t, i)) \/ ResolveFails(t) \/ Lose(t)
                 \/ DeleteSession(t)
        PROVE  Moved(t)
    BY <1>5, QuietSteps
  <1>. QED BY <1>1, <1>2, <1>3, <1>4, <1>5 DEF Next

\* Those that make or send nothing new keep the cookies of the flows, ...
LEMMA FlowMoved ==
    ASSUME MInv, FInv, NEW t \in Tab, Moved(t) \/ Started(t)
    PROVE  FInv'
  <1>1. /\ stopped' = stopped /\ tracked' = tracked
        /\ \A r \in net' \ net : r.id = NoID \/ (r.sp = "sp" /\ Sent(r.id))
    BY DEF Moved, Started, Quiet
  <1>2. Grows
    <2>1. now \in Nat /\ nextReq \in Nat
      BY MiddlewareAssumption DEF MInv, Types, TypeOK
    <2>. QED BY <2>1 DEF Moved, Started, Quiet, Grows
  <1>3. PICK rec \in TabRecord :
          /\ tab' = [tab EXCEPT ![t] = rec]
          /\ rec.at = "at_idp" => Sent(rec.request)
          /\ rec.reply.location = "idp" =>
                /\ rec.reply.track # None /\ rec.reply.track.id = rec.request
                /\ rec.reply.stop = None
    BY DEF Moved, Started
  <1>4. tab'[t] = rec /\ \A q \in Tab \ {t} : tab'[q] = tab[q]
    BY <1>3 DEF MInv, Types
  <1>5. ASSUME NEW i \in RequestID, Sent(i)' PROVE Sent(i)
    <2>1. CASE \E r \in net' : r.id = i
      BY <1>1, <2>1, MiddlewareAssumption DEF Sent
    <2>2. CASE \E q \in Tab : tab'[q].at = "at_idp" /\ tab'[q].request = i
      BY <1>3, <1>4, <2>2 DEF Sent
    <2>. QED BY <1>5, <2>1, <2>2 DEF Sent
  <1>6. CookiesKept'
    BY <1>1, <1>2, <1>5, CookiesStay DEF FInv
  <1>7. AnswersOwn'
    BY <1>1, <1>3, <1>4 DEF FInv, AnswersOwn
  <1>. QED BY <1>6, <1>7 DEF FInv

\* What Deliver does with the cookies of the tracker and the requests stopped.
LEMMA DeliverShape ==
    ASSUME MInv, NEW t \in Tab, Deliver(t)
    PROVE  LET b == Owner[t]
               reply == tab[t].reply
           IN
           /\ b \in Browser /\ UNCHANGED <<now, nextReq, made, net>>
           /\ \A a \in Browser \ {b} : tracked'[a] = tracked[a] /\ stopped'[a] = stopped[a]
           /\ stopped'[b] = stopped[b] \cup ({reply.stop} \ {None})
           /\ \A c \in tracked[b] :
                 \/ c \in tracked'[b]
                 \/ reply.stop # None /\ c.index = reply.stop
                 \/ reply.track # None /\ c.index = reply.track.index
           /\ reply.track # None => reply.track \in tracked'[b] /\ OwnCookie(b, reply.track)
           /\ \A q \in Tab \ {t} : tab'[q] = tab[q]
           /\ tab'[t].reply = NoReply
           /\ tab'[t].at = "at_idp" =>
                 reply.location = "idp" /\ tab'[t].request = tab[t].request
  <1> DEFINE b == Owner[t]
             reply == tab[t].reply
             cleared == IF reply.stop # None THEN ClearTracked(tracked[b], reply.stop)
                        ELSE tracked[b]
             jar == IF reply.track # None THEN StoreTracked(cleared, reply.track)
                    ELSE cleared
             rec == CASE reply.location = "idp" ->
                           [Idle EXCEPT !.at = "at_idp", !.page = tab[t].page,
                                        !.request = tab[t].request]
                      [] reply.location \in Page ->
                           [Idle EXCEPT !.at = "goto", !.page = reply.location]
                      [] OTHER -> Idle
  <1>1. /\ b \in Browser /\ TabOK(t)
        /\ tab \in [Tab -> TabRecord] /\ tracked \in [Browser -> SUBSET TrackedCookie]
        /\ stopped \in [Browser -> SUBSET Index]
    BY MiddlewareAssumption DEF MInv, Types, TypeOK
  <1>2. reply.track # None => OwnCookie(b, reply.track)
    BY <1>1 DEF TabOK
  <1>3. /\ tracked' = [tracked EXCEPT ![b] = jar]
        /\ stopped' = IF reply.stop # None THEN [stopped EXCEPT ![b] = @ \cup {reply.stop}]
                      ELSE stopped
        /\ tab' = [tab EXCEPT ![t] = rec]
        /\ UNCHANGED <<now, nextReq, made, net>>
    BY DEF Deliver
  <1> HIDE DEF reply, b
  <1>4. /\ rec.reply = NoReply
        /\ rec.at = "at_idp" => reply.location = "idp" /\ rec.request = tab[t].request
    <2>1. CASE reply.location = "idp"
      <3>1. rec = [Idle EXCEPT !.at = "at_idp", !.page = tab[t].page,
                               !.request = tab[t].request]
        BY <2>1, MiddlewareAssumption
      <3>. QED BY <2>1, <3>1, IdleFields DEF Idle
    <2>2. CASE reply.location # "idp" /\ reply.location \in Page
      <3>1. rec = [Idle EXCEPT !.at = "goto", !.page = reply.location]
        BY <2>2
      <3>. QED BY <2>2, <3>1, IdleFields DEF Idle
    <2>3. CASE reply.location # "idp" /\ reply.location \notin Page
      BY <2>3, IdleFields DEF Idle
    <2>. QED BY <2>1, <2>2, <2>3
  <1> HIDE DEF rec
  <1>5. tab'[t] = rec /\ \A q \in Tab \ {t} : tab'[q] = tab[q]
    BY <1>1, <1>3
  <1>6. /\ \A a \in Browser \ {b} : stopped'[a] = stopped[a]
        /\ stopped'[b] = stopped[b] \cup ({reply.stop} \ {None})
    BY <1>1, <1>3
  <1>7. /\ \A c \in tracked[b] : \/ c \in jar
                                 \/ reply.stop # None /\ c.index = reply.stop
                                 \/ reply.track # None /\ c.index = reply.track.index
        /\ reply.track # None => reply.track \in jar
    BY DEF ClearTracked, StoreTracked
  <1> HIDE DEF jar
  <1>8. tracked'[b] = jar /\ \A a \in Browser \ {b} : tracked'[a] = tracked[a]
    BY <1>1, <1>3
  <1>9. /\ tab'[t].reply = NoReply
        /\ tab'[t].at = "at_idp" => reply.location = "idp" /\ tab'[t].request = tab[t].request
    BY <1>4, <1>5
  <1>. QED BY <1>1, <1>2, <1>3, <1>5, <1>6, <1>7, <1>8, <1>9 DEF b, reply

\* ... and a delivery keeps them too: what it replaces or clears is replaced by the
\* cookie of the same request, or stopped.
LEMMA FlowDelivered ==
    ASSUME FixedIndex = None, MInv, FInv, NEW t \in Tab, Deliver(t)
    PROVE  FInv'
  <1> DEFINE b == Owner[t]
             reply == tab[t].reply
  <1>1. /\ b \in Browser /\ UNCHANGED <<now, nextReq, made, net>>
        /\ \A a \in Browser \ {b} : tracked'[a] = tracked[a] /\ stopped'[a] = stopped[a]
        /\ stopped'[b] = stopped[b] \cup ({reply.stop} \ {None})
        /\ \A c \in tracked[b] :
              \/ c \in tracked'[b]
              \/ reply.stop # None /\ c.index = reply.stop
              \/ reply.track # None /\ c.index = reply.track.index
        /\ reply.track # None => reply.track \in tracked'[b] /\ OwnCookie(b, reply.track)
        /\ \A q \in Tab \ {t} : tab'[q] = tab[q]
        /\ tab'[t].reply = NoReply
        /\ tab'[t].at = "at_idp" =>
              reply.location = "idp" /\ tab'[t].request = tab[t].request
    BY DeliverShape
  <1>2. reply.location = "idp" =>
           reply.track # None /\ reply.track.id = tab[t].request /\ reply.stop = None
    BY DEF FInv, AnswersOwn
  <1> HIDE DEF b, reply
  <1>3. \A a, c : OwnCookie(a, c) => c.index = c.id /\ made[c.id].browser = a
    BY DEF OwnCookie, TrackedIndex, Asked
  <1>4. ASSUME NEW i \in RequestID, Sent(i)',
               now' < made'[i].time + MaxIssueDelay,
               i \notin stopped'[made'[i].browser]
        PROVE  \E c \in tracked'[made'[i].browser] : c.id = i
    <2> DEFINE a == made[i].browser
    <2>1. CASE Sent(i)
      <3>1. a \in Browser
        BY <2>1, SentMade
      <3>2. i \notin stopped[a]
        BY <1>1, <1>4, <3>1
      <3>3. PICK c \in tracked[a] : c.id = i
        BY <1>1, <1>4, <2>1, <3>2 DEF FInv, CookiesKept
      <3>4. c.index = i
        BY <1>3, <3>1, <3>3 DEF MInv, Jars
      <3>5. CASE a # b
        BY <1>1, <3>1, <3>3, <3>5
      <3>6. CASE a = b
        <4>1. reply.stop # i
          BY <1>1, <1>4, <3>6, MiddlewareAssumption
        <4>2. \/ c \in tracked'[b]
              \/ reply.track # None /\ reply.track.index = i
          BY <1>1, <3>3, <3>4, <3>6, <4>1
        <4>3. reply.track # None /\ reply.track.index = i => reply.track.id = i
          BY <1>1, <1>3
        <4>. QED BY <1>1, <3>3, <3>6, <4>2, <4>3
      <3>. QED BY <3>5, <3>6
    <2>2. CASE ~Sent(i)
      <3>1. tab'[t].at = "at_idp" /\ tab'[t].request = i
        BY <1>1, <1>4, <2>2 DEF Sent
      <3>2. reply.track # None /\ reply.track.id = i
        BY <1>1, <1>2, <3>1
      <3>. QED BY <1>1, <1>3, <3>2
    <2>. QED BY <2>1, <2>2
  <1>5. CookiesKept'
    BY <1>4 DEF CookiesKept
  <1>6. AnswersOwn'
    BY <1>1, IdleFields DEF FInv, AnswersOwn
  <1>. QED BY <1>5, <1>6 DEF FInv

\* So the flows keep their cookies in every state the program reaches.
LEMMA FlowInvariant ==
    ASSUME FixedIndex = None
    PROVE  Spec => []FInv
  <1>1. Init => FInv
    BY MiddlewareAssumption, IdleFields DEF Init, FInv, CookiesKept, AnswersOwn, Sent
  <1>2. MInv /\ MInv' /\ FInv /\ [Next]_vars => FInv'
    <2> SUFFICES ASSUME MInv, FInv, [Next]_vars PROVE FInv'
      OBVIOUS
    <2>1. CASE UNCHANGED vars
      BY <2>1 DEF vars, FInv, CookiesKept, AnswersOwn, Sent
    <2>2. CASE Tick
      <3>1. UNCHANGED <<tracked, token, nextReq, made, net, tab, stopped>> /\ now' = now + 1
        BY <2>2 DEF Tick
      <3>2. now \in Nat /\ nextReq \in Nat
        BY MiddlewareAssumption DEF MInv, Types, TypeOK
      <3>3. Grows
        BY <3>1, <3>2 DEF Grows
      <3>4. CookiesKept'
        BY <3>1, <3>3, CookiesStay DEF FInv, Sent
      <3>. QED BY <3>1, <3>4 DEF FInv, AnswersOwn
    <2>3. ASSUME NEW b \in Browser, Evict(b) PROVE FInv'
      <3>1. UNCHANGED <<now, token, nextReq, made, net, tab, stopped>>
        BY <2>3 DEF Evict
      <3>2. PICK c \in tracked[b] : now >= c.exp /\ tracked' = [tracked EXCEPT ![b] = @ \ {c}]
        BY <2>3 DEF Evict
      <3>3. now \in Nat /\ nextReq \in Nat /\ c.exp \in Nat
        BY MiddlewareAssumption DEF MInv, Types, TypeOK, TrackedCookie
      <3>4. \A a \in Browser : \A d \in tracked[a] : now < d.exp => d \in tracked'[a]
        BY <3>2, <3>3 DEF MInv, Types, TypeOK
      <3>5. Grows
        BY <3>1, <3>3 DEF Grows
      <3>6. CookiesKept'
        BY <3>1, <3>4, <3>5, CookiesStay DEF FInv, Sent
      <3>. QED BY <3>1, <3>6 DEF FInv, AnswersOwn
    <2>4. ASSUME NEW t \in Tab, Deliver(t) PROVE FInv'
      BY <2>4, FlowDelivered
    <2>5. ASSUME NEW t \in Tab, Started(t) \/ Moved(t) PROVE FInv'
      BY <2>5, FlowMoved
    <2>. QED BY <2>1, <2>2, <2>3, <2>4, <2>5, StepKinds
  <1>. QED BY <1>1, <1>2, Invariant, PTL DEF Spec

\* ServeACS accepts the response to a request that is sent, not stopped and not old,
\* and leads to the page that was asked for, whatever the other tabs have done.
THEOREM FlowsApart ==
    ASSUME FixedIndex = None
    PROVE  Spec => []FlowsIndependent
  <1>1. ASSUME MInv, FInv, NEW r \in net, r.id # NoID, r.relay = TrackedIndex(r.id),
               now <= r.issued + MaxIssueDelay, now < made[r.id].time + MaxIssueDelay,
               r.relay \notin stopped[made[r.id].browser]
        PROVE  LET reply == ServePost(tracked[made[r.id].browser], r) IN
               reply.session # None /\ reply.location = RedirectURI(made[r.id].page)
    <2> DEFINE b == made[r.id].browser
               jar == tracked[b]
               ids == PossibleRequestIDs(jar)
               outcome == ParseXMLResponse(Self, Document(r), ids, now, Self.acsURL)
               named == {c \in jar : c.index = r.relay}
               cookie == CHOOSE c \in named : TRUE
               base == [NoReply EXCEPT !.session = NewSession(r, now)]
    <2>1. r \in Response /\ r.id \in RequestID /\ now \in Nat /\ r.issued <= now
      BY <1>1 DEF MInv, Types, TypeOK, Issued, Response
    <2>2. Sent(r.id) /\ r.sp = "sp" /\ r.relay = r.id
      BY <1>1 DEF Sent, FInv, AnswersOwn, TrackedIndex
    <2>3. b \in Browser
      BY <1>1, <2>1, <2>2, SentMade
    <2>4. PICK d \in jar : d.id = r.id
      BY <1>1, <2>1, <2>2 DEF FInv, CookiesKept
    <2>5. \A c \in jar : /\ c.index = c.id /\ c.uri = made[c.id].page
                         /\ c.exp = made[c.id].time + MaxIssueDelay
      BY <1>1, <2>3 DEF MInv, Jars, OwnCookie, TrackedIndex
    <2>6. \A c \in jar : c.id = r.id => Decodes(c)
      <3>1. made[r.id].time \in Nat /\ MaxIssueDelay \in Nat
        BY <1>1, <2>1, <2>2, SentMade, DelaysAssumption
      <3>. QED BY <1>1, <2>1, <2>5, <3>1 DEF Decodes
    <2>7. r.id \in ids
      BY <2>4, <2>6 DEF PossibleRequestIDs, GetTrackedRequests
    <2>8. Acceptable(r, ids)
      BY <1>1, <2>2, <2>7 DEF Acceptable
    <2>9. outcome.accepted
      BY <2>1, <2>8, PostOutcome
    <2>10. named # {} /\ r.relay # NoRelay
      BY <2>1, <2>2, <2>4, <2>5, MiddlewareAssumption DEF RequestID, NoRelay
    <2>11. cookie \in named
      BY <2>10
    <2>12. Decodes(cookie) /\ cookie.uri = made[r.id].page
      BY <2>2, <2>5, <2>6, <2>11
    <2> HIDE DEF outcome, cookie
    <2>13. ServePost(jar, r) = [base EXCEPT !.stop = r.relay,
                                            !.location = RedirectURI(cookie.uri)]
      BY <2>9, <2>10, <2>12 DEF ServePost, AcsReply, CreateSessionFromAssertion, outcome, cookie
    <2>14. NewSession(r, now) # None
      <3>1. NewSession(r, now) \in SessionCookie
        BY <2>1, MiddlewareAssumption DEF NewSession, SessionCookie, Response
      <3>. QED BY <3>1, AbsentAssumption
    <2>15. /\ ServePost(jar, r).session = NewSession(r, now)
           /\ ServePost(jar, r).location = RedirectURI(made[r.id].page)
      BY <2>12, <2>13 DEF NoReply
    <2>. QED BY <2>14, <2>15
  <1>2. MInv /\ FInv => FlowsIndependent
    BY <1>1 DEF FlowsIndependent
  <1>. QED BY <1>2, Invariant, FlowInvariant, PTL

=============================================================================
