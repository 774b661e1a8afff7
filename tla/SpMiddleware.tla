---------------------------- MODULE SpMiddleware ----------------------------
(***************************************************************************)
(* samlsp.Middleware with its default CookieRequestTracker and             *)
(* CookieSessionProvider, and the browsers it serves.                      *)
(*                                                                         *)
(* The service provider keeps no state: what it knows of a browser is in   *)
(* the signed cookies the browser sends.  A tab has one exchange under way *)
(* at a time; the tabs of a browser share its cookies.  A request is       *)
(* handled when it is sent, with the cookies of that moment, and its reply *)
(* is delivered later or lost, so that the exchanges of several tabs       *)
(* overlap.  Only the artifact binding makes a handler wait.               *)
(*                                                                         *)
(* The random ID of an AuthnRequest and the random index it is tracked     *)
(* under are drawn together, and are both represented by its number.  The  *)
(* identity provider is external here: it signs what it issues, and        *)
(* whoever holds a response may post it.                                   *)
(***************************************************************************)
EXTENDS SpResponse, FiniteSets

CONSTANTS
    Tab,                \* tabs
    Browser,            \* cookie jars
    Owner,              \* Owner[t]: the browser of tab t
    Page,               \* URIs of pages behind RequireAccount
    Asks,               \* Asks[t]: the pages a user may ask for in tab t
    Local,              \* the URIs for which isLocalRedirect holds
    User,               \* principals of the identity provider
    AllowIDPInitiated,  \* ServiceProvider.AllowIDPInitiated
    Binding,            \* bindings the identity provider uses: "post", "artifact"
    CookiePath,         \* CookieSessionProvider.Path
    FixedIndex,         \* what RelayStateFunc returns, or None without one
    ChangedRelay,       \* what the identity provider may return in place of the
                        \* RelayState it got
    HostOnlyApart,      \* the browser's store keeps a host-only cookie apart
                        \* from a domain cookie of the same name
    Lossy,              \* replies may be lost and artifacts not resolved
    Revisits,           \* a tab may bring an AuthnRequest a second time
    SessionMaxAge,      \* MaxAge of the session codec and cookie
    MaxRequests,        \* bound on AuthnRequests
    MaxUnsolicited,     \* bound on the IdP-initiated responses
    MaxTime             \* bound on the clock

RequestID == 1..MaxRequests
NoRelay == 0
DefaultRedirectURI == "/"

ASSUME MiddlewareAssumption ==
    /\ Owner \in [Tab -> Browser] /\ Asks \in [Tab -> SUBSET Page]
    /\ Local \subseteq Page
    /\ Binding \subseteq {"post", "artifact"}
    /\ {AllowIDPInitiated, HostOnlyApart, Lossy, Revisits} \subseteq BOOLEAN
    /\ SessionMaxAge \in Nat /\ MaxRequests \in Nat /\ MaxUnsolicited \in Nat
    /\ MaxTime \in Nat
    /\ NoID \notin RequestID /\ None \notin RequestID \cup Page
    /\ {"served", "idp", "logout"} \cap Page = {}
    /\ None \notin {"served", "idp", "logout", DefaultRedirectURI}

VARIABLES
    now,        \* saml.TimeNow
    tracked,    \* tracked[b]: the cookies saml_<index> of a browser
    token,      \* token[b]: its session cookies
    nextReq,    \* the number of the next AuthnRequest
    made,       \* made[i]: browser, page and time of AuthnRequest i (history)
    net,        \* responses the identity provider has issued
    tab,        \* where each tab is
    stopped     \* stopped[b]: requests whose ACS reply reached b (history)

vars == <<now, tracked, token, nextReq, made, net, tab, stopped>>

Index == RequestID \cup ({FixedIndex} \ {None})

\* A cookie of the request tracker: its index, the claims of its JWT, and
\* whether it was set without a Domain.
TrackedCookie == [index: Index, id: RequestID, uri: Page, exp: Nat, hostOnly: BOOLEAN]

\* A session cookie: its Path, and in the JWT the expiry and what came from the
\* assertion.  created and arrived, the time the response was posted, are kept
\* for the properties.
SessionCookie == [path: {"/", CookiePath}, exp: Nat, user: User,
                  id: RequestID \cup {NoID}, sp: {"sp", "other"}, issued: Nat,
                  created: Nat, arrived: Nat]

\* What the identity provider issues, with the RelayState posted beside it.
Response == [id: RequestID \cup {NoID}, user: User, sp: {"sp", "other"}, issued: Nat,
             relay: Index \cup Page \cup {NoRelay}]

\* None and NoSignature are none of the values they stand beside.
ASSUME AbsentAssumption ==
    /\ None \notin TrackedCookie \cup SessionCookie
    /\ None \notin [browser: Browser, page: Page, time: Nat]
    /\ NoSignature # [key |-> "idp", embedded |-> "idp", intact |-> TRUE]

NoReply == [track |-> None, stop |-> None, session |-> None, location |-> None]
Idle == [at |-> "idle", page |-> None, request |-> None, response |-> None,
         ids |-> {}, cookies |-> {}, arrived |-> 0, reply |-> NoReply]

Init ==
    /\ now = 0
    /\ tracked = [b \in Browser |-> {}]
    /\ token = [b \in Browser |-> {}]
    /\ nextReq = 1
    /\ made = [i \in RequestID |-> None]
    /\ net = {}
    /\ tab = [t \in Tab |-> Idle]
    /\ stopped = [b \in Browser |-> {}]

Tick ==
    /\ now < MaxTime
    /\ now' = now + 1
    /\ UNCHANGED <<tracked, token, nextReq, made, net, tab, stopped>>

-----------------------------------------------------------------------------
\* Cookies.

\* Mutant of Decodes: the expiry is not looked at.
MutantDecodes(cookie) == TRUE

\* JWT validation without leeway: the time has come and has not gone.
Decodes(cookie) == now <= cookie.exp

\* The browser stores a cookie in place of the one of the same name, domain and
\* path.
StoreTracked(jar, cookie) == {c \in jar : c.index # cookie.index} \cup {cookie}
StoreToken(jar, cookie) == {c \in jar : c.path # cookie.path} \cup {cookie}

\* StopTrackingRequest expires the cookie of the index with the Domain of the
\* ACS URL.  TrackRequest sets it without one.
ClearTracked(jar, index) ==
    {c \in jar : c.index # index \/ (HostOnlyApart /\ c.hostOnly)}

\* A browser drops a cookie whose Max-Age is over, at any time after that.
Evict(b) ==
    /\ \E c \in tracked[b] :
          /\ now >= c.exp
          /\ tracked' = [tracked EXCEPT ![b] = @ \ {c}]
    /\ UNCHANGED <<now, token, nextReq, made, net, tab, stopped>>

-----------------------------------------------------------------------------
\* RequireAccount and HandleStartAuthFlow.

\* Mutant of TrackedIndex: every request is tracked under one index.
MutantTrackedIndex(i) == 1

\* TrackRequest's index: that of RelayStateFunc, if it has one, or random.
TrackedIndex(i) == IF FixedIndex # None THEN FixedIndex ELSE i

\* GetSession: the claims of a session cookie that decodes.
GetSession(b) == {c \in token[b] : Decodes(c)}

\* A tab asks for a page: it is served, or the SAML flow is started.
RequireAccount(t, page) ==
    LET b == Owner[t]
        cookie == [index |-> TrackedIndex(nextReq), id |-> nextReq, uri |-> page,
                   exp |-> now + MaxIssueDelay, hostOnly |-> TRUE]
    IN
    \/ /\ GetSession(b) # {}
       /\ tab' = [tab EXCEPT ![t] = [Idle EXCEPT !.at = "reply", !.page = page,
                                       !.reply = [NoReply EXCEPT !.location = "served"]]]
       /\ UNCHANGED <<nextReq, made>>
    \/ /\ GetSession(b) = {}
       /\ nextReq <= MaxRequests
       /\ nextReq' = nextReq + 1
       /\ made' = [made EXCEPT ![nextReq] = [browser |-> b, page |-> page, time |-> now]]
       /\ tab' = [tab EXCEPT ![t] = [Idle EXCEPT !.at = "reply", !.page = page,
                                       !.request = nextReq,
                                       !.reply = [NoReply EXCEPT !.track = cookie,
                                                                 !.location = "idp"]]]

Visit(t, page) ==
    /\ tab[t].at = "idle"
    /\ RequireAccount(t, page)
    /\ UNCHANGED <<now, tracked, token, net, stopped>>

\* The browser follows the redirect that ends the flow.
Follow(t) ==
    /\ tab[t].at = "goto"
    /\ RequireAccount(t, tab[t].page)
    /\ UNCHANGED <<now, tracked, token, net, stopped>>

-----------------------------------------------------------------------------
\* The identity provider (external).

\* It answers the AuthnRequest a tab has brought, for the user who logs in.
IdpAnswer(t, user, relay) ==
    LET i == tab[t].request
        response == [id |-> i, user |-> user, sp |-> "sp", issued |-> now, relay |-> relay]
    IN
    /\ tab[t].at = "at_idp"
    /\ relay \in {TrackedIndex(i)} \cup ChangedRelay
    /\ net' = net \cup {response}
    /\ tab' = [tab EXCEPT ![t] = [Idle EXCEPT !.at = "post", !.page = tab[t].page,
                                              !.response = response]]
    /\ UNCHANGED <<now, tracked, token, nextReq, made, stopped>>

\* A tab brings an AuthnRequest that was answered before, from its history or from
\* a link that was passed on: the identity provider keeps no record of request IDs
\* and answers it again.
Revisit(t, i) ==
    /\ Revisits
    /\ tab[t].at = "idle"
    /\ \E r \in net : r.id = i
    /\ tab' = [tab EXCEPT ![t] = [Idle EXCEPT !.at = "at_idp", !.page = made[i].page,
                                              !.request = i]]
    /\ UNCHANGED <<now, tracked, token, nextReq, made, net, stopped>>

\* It sends a user to a service provider that did not ask.
IdpInitiated(t, user, sp, relay) ==
    LET response == [id |-> NoID, user |-> user, sp |-> sp, issued |-> now, relay |-> relay]
    IN
    /\ tab[t].at = "idle"
    /\ Cardinality({r \in net \cup {response} : r.id = NoID}) <= MaxUnsolicited
    /\ net' = net \cup {response}
    /\ tab' = [tab EXCEPT ![t] = [Idle EXCEPT !.at = "post", !.response = response]]
    /\ UNCHANGED <<now, tracked, token, nextReq, made, stopped>>

\* The Response element of r: the assertion is signed, the envelope is not.
Document(r) ==
    LET assertion ==
          [signature |-> [key |-> "idp", embedded |-> "idp", intact |-> TRUE],
           issuer |-> "idp", issueInstant |-> r.issued, subject |-> TRUE,
           confirmations |-> << [bearer |-> TRUE, data |-> TRUE, inResponseTo |-> r.id,
                                 recipient |-> <<r.sp, "acs">>,
                                 notOnOrAfter |-> r.issued + MaxIssueDelay] >>,
           conditions |-> TRUE, notBefore |-> r.issued,
           notOnOrAfter |-> r.issued + MaxIssueDelay, audiences |-> <<{r.sp}>>]
    IN [signature |-> NoSignature, destination |-> <<r.sp, "acs">>, inResponseTo |-> r.id,
        issueInstant |-> r.issued, issuer |-> "idp", status |-> "Success",
        assertions |-> << [encrypted |-> FALSE, decrypts |-> FALSE,
                           assertion |-> assertion] >>]

\* The ArtifactResponse that carries it, issued when it is asked for.
ArtifactDocument(r) ==
    [signature |-> NoSignature, inResponseTo |-> "resolve", issueInstant |-> now,
     issuer |-> "idp", status |-> "Success", response |-> Document(r)]

-----------------------------------------------------------------------------
\* ServeACS.

\* DefaultServiceProvider
Self == [entityID |-> "sp", acsURL |-> <<"sp", "acs">>, idp |-> "idp",
         allowIDPInitiated |-> AllowIDPInitiated, metadataCerts |-> {"idp"},
         fingerprint |-> None, certificate |-> None, expired |-> {}]

\* GetTrackedRequests: the cookies that decode.
GetTrackedRequests(jar) == {c \in jar : Decodes(c)}

\* Mutant of PossibleRequestIDs: with IdP-initiated flows any ID is possible.
MutantAnyRequestID(jar) ==
    IF AllowIDPInitiated THEN {NoID} \cup RequestID
    ELSE {c.id : c \in GetTrackedRequests(jar)}

\* The IDs a response may answer: those of the tracked requests.
PossibleRequestIDs(jar) ==
    (IF AllowIDPInitiated THEN {NoID} ELSE {}) \cup {c.id : c \in GetTrackedRequests(jar)}

\* Where the user goes: uri if isLocalRedirect holds, or DefaultRedirectURI.
RedirectURI(uri) == IF uri \in Local THEN uri ELSE DefaultRedirectURI

\* Mutant of NewSession: the MaxAge is not added to the time.
MutantNewSession(r, arrived) ==
    [path |-> CookiePath, exp |-> now, user |-> r.user, id |-> r.id,
     sp |-> r.sp, issued |-> r.issued, created |-> now, arrived |-> arrived]

\* CreateSession
NewSession(r, arrived) ==
    [path |-> CookiePath, exp |-> now + SessionMaxAge, user |-> r.user, id |-> r.id,
     sp |-> r.sp, issued |-> r.issued, created |-> now, arrived |-> arrived]

\* Mutant of CreateSessionFromAssertion: the page is that of the request answered.
MutantAnsweredPage(jar, r, arrived) ==
    LET named == {c \in jar : c.id = r.id}
        cookie == CHOOSE c \in named : TRUE
        reply == [NoReply EXCEPT !.session = NewSession(r, arrived)]
    IN
    CASE r.relay = NoRelay -> [reply EXCEPT !.location = DefaultRedirectURI]
      [] r.relay # NoRelay /\ named = {} /\ AllowIDPInitiated ->
            [reply EXCEPT !.location = RedirectURI(r.relay)]
      [] r.relay # NoRelay /\ named # {} /\ Decodes(cookie) ->
            [reply EXCEPT !.stop = r.relay, !.location = RedirectURI(cookie.uri)]
      [] OTHER -> NoReply

\* CreateSessionFromAssertion: the reply to an accepted response r.
CreateSessionFromAssertion(jar, r, arrived) ==
    LET named == {c \in jar : c.index = r.relay}
        cookie == CHOOSE c \in named : TRUE
        reply == [NoReply EXCEPT !.session = NewSession(r, arrived)]
    IN
    CASE r.relay = NoRelay -> [reply EXCEPT !.location = DefaultRedirectURI]
      [] r.relay # NoRelay /\ named = {} /\ AllowIDPInitiated ->
            [reply EXCEPT !.location = RedirectURI(r.relay)]
      [] r.relay # NoRelay /\ named # {} /\ Decodes(cookie) ->
            [reply EXCEPT !.stop = r.relay, !.location = RedirectURI(cookie.uri)]
      [] OTHER -> NoReply

\* The reply of ServeACS, once it has the outcome of ParseResponse.
AcsReply(jar, r, outcome, arrived) ==
    IF outcome.accepted THEN CreateSessionFromAssertion(jar, r, arrived) ELSE NoReply

\* HTTP-POST binding: the reply to response r posted with the cookies jar now.
ServePost(jar, r) ==
    AcsReply(jar, r,
             ParseXMLResponse(Self, Document(r), PossibleRequestIDs(jar), now,
                              Self.acsURL), now)

\* A tab posts the response it was given, or any other, to the ACS: the response
\* itself, or an artifact that stands for it.
Post(t, r) ==
    LET jar == tracked[Owner[t]] IN
    /\ \/ /\ "post" \in Binding
          /\ tab' = [tab EXCEPT ![t] = [Idle EXCEPT !.at = "reply", !.page = tab[t].page,
                                          !.reply = ServePost(jar, r)]]
       \/ /\ "artifact" \in Binding
          /\ tab' = [tab EXCEPT ![t] =
                       [Idle EXCEPT !.at = "resolve", !.page = tab[t].page, !.response = r,
                                    !.ids = PossibleRequestIDs(jar), !.cookies = jar,
                                    !.arrived = now]]
    /\ UNCHANGED <<now, tracked, token, nextReq, made, net, stopped>>

PostOwn(t) == tab[t].at = "post" /\ Post(t, tab[t].response)

PostAny(t, r) == tab[t].at = "idle" /\ r \in net /\ Post(t, r)

\* handleArtifactRequest: the identity provider answers the ArtifactResolve.  The
\* request IDs are those from before it was sent.
Resolve(t) ==
    LET r == tab[t].response
        outcome == ParseXMLArtifactResponse(Self, ArtifactDocument(r), tab[t].ids,
                                            "resolve", now, <<"idp", "artifact">>)
    IN
    /\ tab[t].at = "resolve"
    /\ tab' = [tab EXCEPT ![t] =
                 [Idle EXCEPT !.at = "reply", !.page = tab[t].page,
                              !.reply = AcsReply(tab[t].cookies, r, outcome, tab[t].arrived)]]
    /\ UNCHANGED <<now, tracked, token, nextReq, made, net, stopped>>

\* The artifact cannot be resolved, in time or at all.
ResolveFails(t) ==
    /\ Lossy
    /\ tab[t].at = "resolve"
    /\ tab' = [tab EXCEPT ![t] = [Idle EXCEPT !.at = "reply"]]
    /\ UNCHANGED <<now, tracked, token, nextReq, made, net, stopped>>

-----------------------------------------------------------------------------
\* The application calls DeleteSession for a tab with a session cookie: the reply
\* clears the cookie with the Path "/".
DeleteSession(t) ==
    /\ tab[t].at = "idle"
    /\ token[Owner[t]] # {}
    /\ tab' = [tab EXCEPT ![t] = [Idle EXCEPT !.at = "reply",
                                    !.reply = [NoReply EXCEPT !.location = "logout"]]]
    /\ UNCHANGED <<now, tracked, token, nextReq, made, net, stopped>>

\* The Path of the session's cookie is not looked at.
ClearToken(jar) == {c \in jar : c.path # "/"}

-----------------------------------------------------------------------------
\* A reply reaches its tab: its Set-Cookie headers are applied, and its redirect
\* is followed.
Deliver(t) ==
    LET b == Owner[t]
        reply == tab[t].reply
        cleared == IF reply.stop # None THEN ClearTracked(tracked[b], reply.stop)
                   ELSE tracked[b]
    IN
    /\ tab[t].at = "reply"
    /\ tracked' = [tracked EXCEPT ![b] = IF reply.track # None
                                         THEN StoreTracked(cleared, reply.track)
                                         ELSE cleared]
    /\ token' = [token EXCEPT ![b] = CASE reply.session # None -> StoreToken(@, reply.session)
                                       [] reply.location = "logout" -> ClearToken(@)
                                       [] OTHER -> @]
    /\ stopped' = IF reply.stop # None THEN [stopped EXCEPT ![b] = @ \cup {reply.stop}]
                  ELSE stopped
    /\ tab' = [tab EXCEPT ![t] =
                 CASE reply.location = "idp" ->
                        [Idle EXCEPT !.at = "at_idp", !.page = tab[t].page,
                                     !.request = tab[t].request]
                   [] reply.location \in Page ->
                        [Idle EXCEPT !.at = "goto", !.page = reply.location]
                   [] OTHER -> Idle]
    /\ UNCHANGED <<now, nextReq, made, net>>

\* The reply is lost, or the tab is closed.
Lose(t) ==
    /\ Lossy
    /\ tab[t].at # "idle"
    /\ tab' = [tab EXCEPT ![t] = Idle]
    /\ UNCHANGED <<now, tracked, token, nextReq, made, net, stopped>>

-----------------------------------------------------------------------------
Proceed(t) ==
    \/ Deliver(t)
    \/ Follow(t)
    \/ \E user \in User, relay \in Index \cup Page \cup {NoRelay} : IdpAnswer(t, user, relay)
    \/ PostOwn(t)
    \/ Resolve(t)

Next ==
    \/ Tick
    \/ \E b \in Browser : Evict(b)
    \/ \E t \in Tab :
          \/ Proceed(t)
          \/ \E page \in Asks[t] : Visit(t, page)
          \/ \E user \in User, sp \in {"sp", "other"}, relay \in Page \cup {NoRelay} :
                IdpInitiated(t, user, sp, relay)
          \/ \E i \in RequestID : Revisit(t, i)
          \/ \E r \in net : PostAny(t, r)
          \/ ResolveFails(t)
          \/ Lose(t)
          \/ DeleteSession(t)

Spec == Init /\ [][Next]_vars

\* Browsers follow redirects, the network delivers and the identity provider
\* answers.
Fairness == \A t \in Tab : WF_vars(Proceed(t))

FairSpec == Spec /\ Fairness

-----------------------------------------------------------------------------
\* Properties.

\* Every variable keeps its shape.
TypeOK ==
    /\ now \in Nat
    /\ tracked \in [Browser -> SUBSET TrackedCookie]
    /\ token \in [Browser -> SUBSET SessionCookie]
    /\ nextReq \in 1..(MaxRequests + 1)
    /\ made \in [RequestID -> [browser: Browser, page: Page, time: Nat] \cup {None}]
    /\ net \subseteq Response
    /\ \A t \in Tab :
          /\ tab[t].at \in {"idle", "reply", "at_idp", "post", "resolve", "goto"}
          /\ tab[t].page \in Page \cup {None}
          /\ tab[t].reply.track \in TrackedCookie \cup {None}
          /\ tab[t].reply.session \in SessionCookie \cup {None}
    /\ stopped \in [Browser -> SUBSET Index]

\* A session in a browser comes from an assertion made for this service provider
\* in answer to an AuthnRequest of that very browser, or, only if allowed, from
\* an IdP-initiated one: whoever else's response is posted there, however late
\* and however often, gives no session.
SessionsSolicited ==
    \A b \in Browser : \A c \in token[b] :
       /\ c.sp = "sp"
       /\ c.id = NoID => AllowIDPInitiated
       /\ c.id # NoID => made[c.id].browser = b

\* A session is made while the assertion is fresh and from a response that was
\* posted while its request was still tracked, even if the artifact was resolved
\* long after; so it is made within twice MaxIssueDelay of the request.
SessionsTimely ==
    \A b \in Browser : \A c \in token[b] :
       /\ c.created <= c.issued + MaxIssueDelay
       /\ c.id # NoID => /\ c.arrived <= made[c.id].time + MaxIssueDelay
                         /\ c.created <= made[c.id].time + 2 * MaxIssueDelay

\* A user who gets a session lands on a page of this service provider or on the
\* default one.  If a request is no longer tracked after that, it is one of this very
\* browser and its page is where the user lands, even if the RelayState that comes
\* back with the response names the request of another tab.  Otherwise the page is
\* one the RelayState names itself, only where IdP-initiated flows are allowed.
RedirectsOwnPages ==
    \A t \in Tab :
       LET reply == tab[t].reply IN
       reply.session # None =>
          /\ reply.location \in Local \cup {DefaultRedirectURI}
          /\ reply.stop # None => \E i \in RequestID :
                /\ made[i] # None /\ made[i].browser = Owner[t]
                /\ reply.stop = TrackedIndex(i)
                /\ reply.location = RedirectURI(made[i].page)
          /\ reply.stop = None /\ reply.location # DefaultRedirectURI => AllowIDPInitiated

\* The flows of a browser's tabs do not disturb each other: until a request is
\* stopped or grows old, its response is accepted and leads to the page that was
\* asked for, whatever the other tabs have done since.
FlowsIndependent ==
    \A r \in net :
       r.id # NoID /\ r.relay = TrackedIndex(r.id) =>
          LET b == made[r.id].browser
              reply == ServePost(tracked[b], r)
          IN
          /\ now <= r.issued + MaxIssueDelay
          /\ now < made[r.id].time + MaxIssueDelay
          /\ r.relay \notin stopped[b]
          => reply.session # None /\ reply.location = RedirectURI(made[r.id].page)

\* A tab that has reached the identity provider with a request that is not yet
\* used up gets its browser a session, if the exchanges take less than
\* MaxIssueDelay and no answer to it comes back with another RelayState: no endless
\* redirects, even if two tabs bring the same request, and whatever comes back with
\* the answers to others.
FlowsEnd ==
    \A b \in Browser, i \in RequestID :
       (TrackedIndex(i) \notin stopped[b] /\ \E t \in Tab :
          Owner[t] = b /\ tab[t].at = "at_idp" /\ tab[t].request = i)
         ~> \/ GetSession(b) # {}
            \/ \E r \in net : r.id = i /\ r.relay # TrackedIndex(i)

=============================================================================
