------------------------------- MODULE IdpSSO -------------------------------
(***************************************************************************)
(* The single sign-on service of the identity provider: ServeSSO and       *)
(* ServeIDPInitiated of identity_provider.go with the SessionProvider of   *)
(* samlidp/session.go, and a browser with several tabs.                    *)
(*                                                                         *)
(* A tab brings a message, or follows an IdP-initiated link, and is        *)
(* answered with a form that posts a Response, with the login form, or     *)
(* with an HTTP error.  The login form re-presents the message together    *)
(* with credentials, much later perhaps.  Between the steps of a handler   *)
(* the clock moves, another tab logs in, the session is ended, and the     *)
(* service providers are changed.                                          *)
(*                                                                         *)
(* The registry stands for GetServiceProvider and session for the cookie   *)
(* of the browser with what existingSession makes of it; the modules       *)
(* ServiceRegistry and UserSessions have their details.                    *)
(***************************************************************************)
EXTENDS IdpRequest, FiniteSets

CONSTANTS
    Tab,            \* tabs of the browser
    Entity,         \* entity IDs of service providers
    Settings,       \* what the tabs may bring and how long it goes on, see below
    User,           \* users
    Details,        \* Details[u]: nameID, format, class and address of sessions
    Self,           \* configuration of the identity provider
    SessionMaxAge   \* sessionMaxAge

\* The descriptors, keys and endpoints of metadata are slices, and no certificate is
\* one of the words Encryption uses.
MetadataOK(md) ==
    /\ md # None /\ md.entity \in Entity /\ DOMAIN md.descriptors \subseteq Nat
    /\ \A i \in DOMAIN md.descriptors : LET d == md.descriptors[i] IN
          /\ DOMAIN d.keys \subseteq Nat /\ DOMAIN d.acs \subseteq Nat
          /\ \A j \in DOMAIN d.keys : d.keys[j].cert \notin {"plain", "error"}

\* A message has its four parts, and the request read and the one signed have times.
MessageOK(m) ==
    /\ m # None
    /\ m = [request |-> m.request, signature |-> m.signature, relay |-> m.relay,
            query |-> m.query]
    /\ VerifiedRequest(m) # None
    /\ m.request.issueInstant \in Int /\ VerifiedRequest(m).issueInstant \in Int

ASSUME SSOAssumption ==
    /\ SessionMaxAge \in Nat
    /\ None \notin Entity \cup User
    /\ Self.maxAge \in Int /\ \A x \in DOMAIN Self.strength : Self.strength[x] \in Int
    /\ \A i \in DOMAIN Settings : LET s == Settings[i] IN
          /\ s.tabs \subseteq Tab
          /\ s.changes \in Nat /\ s.time \in Nat
          /\ \A md \in s.registrations : MetadataOK(md)
          /\ \A m \in s.messages : MessageOK(m)
          /\ \A link \in s.links : link # None /\ link.entity \in Entity

VARIABLES
    setting,    \* the index of one of Settings, for good
    now,        \* saml.TimeNow
    registry,   \* the metadata of each registered service provider
    changes,    \* number of changes of the registry so far
    session,    \* the session existingSession would find, or None
    tab         \* where each tab is

vars == <<setting, now, registry, changes, session, tab>>

Registration == Settings[setting].registrations \* metadata service providers may be registered with
Message == Settings[setting].messages           \* messages that may arrive at the SSO URL
Link == Settings[setting].links                 \* IdP-initiated links: an entity ID and a RelayState
MaxChanges == Settings[setting].changes         \* bound on changes of the registry
MaxTime == Settings[setting].time               \* bound on the clock

\* The credentials posted with a message: none, wrong ones, those of a user, or
\* any posted from another origin, which checkLoginOrigin refuses.
Credentials == {"wrong", "foreign"} \cup User

\* A tab: the message or link, the IdpAuthnRequest made of it, the session and
\* the answer; the login form it shows or came from, and the metadata its request
\* was first seen with.
Idle == [at |-> "idle", message |-> None, link |-> None, credentials |-> None,
         request |-> None, md |-> None, acs |-> None, arrived |-> 0,
         session |-> None, answer |-> None, form |-> None, firstMd |-> None]

Init ==
    /\ setting \in DOMAIN Settings
    /\ now = 0
    /\ registry \in {f \in [Entity -> Registration \cup {None}] :
                      \A e \in Entity : f[e] # None => f[e].entity = e}
    /\ changes = 0
    /\ session = None
    /\ tab = [t \in Tab |-> Idle]

Tick ==
    /\ now < MaxTime
    /\ now' = now + 1
    /\ UNCHANGED <<setting, registry, changes, session, tab>>

\* A service provider is registered, changed or removed.
ChangeRegistry(e, md) ==
    /\ changes < MaxChanges
    /\ md # None => md.entity = e
    /\ registry[e] # md
    /\ registry' = [registry EXCEPT ![e] = md]
    /\ changes' = changes + 1
    /\ UNCHANGED <<setting, now, session, tab>>

\* The session is ended: by logout, by an administrator or a change of its user.
EndSession ==
    /\ session # None
    /\ session' = None
    /\ UNCHANGED <<setting, now, registry, changes, tab>>

-----------------------------------------------------------------------------
\* ServeSSO: NewIdpAuthnRequest and Validate.

\* The issuer's metadata, if it is registered.
ServiceProvider(m) ==
    IF m.request.issuer \in Entity THEN registry[m.request.issuer] ELSE None

Acceptable(m) ==
    ServiceProvider(m) # None /\ Validate(Self, ServiceProvider(m), m, now)

\* The tab's message is accepted, or refused with a 400.
Accept(t, m, entry) ==
    LET md == ServiceProvider(m)
        q == VerifiedRequest(m)
    IN
    tab' = [tab EXCEPT ![t] =
       IF Acceptable(m)
       THEN [entry EXCEPT !.at = "get_session", !.message = m, !.request = q, !.md = md,
                          !.acs = ACSEndpoint(md, q), !.arrived = now]
       ELSE [entry EXCEPT !.at = "refused", !.message = m, !.md = md, !.arrived = now]]

\* A message comes from a service provider.
Receive(t, m) ==
    /\ tab[t].at = "idle"
    /\ Accept(t, m, [Idle EXCEPT !.firstMd = ServiceProvider(m)])
    /\ UNCHANGED <<setting, now, registry, changes, session>>

\* sendLoginForm: the hidden fields of the form.
LoginForm(m) ==
    [request |-> m.request, signature |-> m.signature, relay |-> m.relay,
     redirectQuery |-> IF m.query = NoSignature THEN None ELSE m]

\* Mutant of ReadForm: the redirect query of the form is not read.
MutantReadForm(form) ==
    [request |-> form.request, signature |-> form.signature, relay |-> form.relay,
     query |-> NoSignature]

\* NewIdpAuthnRequest: the message a POST carries.  The query of a signed
\* HTTP-Redirect request takes the place of the other fields.
ReadForm(form) ==
    IF form.redirectQuery # None THEN form.redirectQuery
    ELSE [request |-> form.request, signature |-> form.signature, relay |-> form.relay,
          query |-> NoSignature]

\* The user fills in the login form.
SubmitForm(t, credentials) ==
    /\ tab[t].at = "form"
    /\ tab[t].form # None
    /\ Accept(t, ReadForm(tab[t].form),
              [Idle EXCEPT !.credentials = credentials, !.form = tab[t].form,
                           !.firstMd = tab[t].firstMd])
    /\ UNCHANGED <<setting, now, registry, changes, session>>

-----------------------------------------------------------------------------
\* ServeIDPInitiated.

\* The user follows a link.  The form it may show posts to the link's own URL.
FollowLink(t, link) ==
    /\ tab[t].at = "idle"
    /\ tab' = [tab EXCEPT ![t] = [Idle EXCEPT !.at = "get_session", !.link = link,
                                              !.arrived = now]]
    /\ UNCHANGED <<setting, now, registry, changes, session>>

SubmitLinkForm(t, credentials) ==
    /\ tab[t].at = "form"
    /\ tab[t].link # None
    /\ tab' = [tab EXCEPT ![t] = [Idle EXCEPT !.at = "get_session", !.link = tab[t].link,
                                    !.credentials = credentials, !.arrived = now]]
    /\ UNCHANGED <<setting, now, registry, changes, session>>

-----------------------------------------------------------------------------
\* The Response.

\* The browser gets a Response for the service provider, with an assertion or
\* with the status of an error only.
Respond(t, md, acs, relay, status, assertion, encryption) ==
    tab' = [tab EXCEPT ![t] =
       [@ EXCEPT !.at = "answered", !.md = md, !.acs = acs,
                 !.answer = [url |-> Endpoint(md, acs).location, relay |-> relay,
                             status |-> status, assertion |-> assertion,
                             encryption |-> encryption]]]

\* The browser gets an HTTP error.
Fail(t) == tab' = [tab EXCEPT ![t] = Idle]

RespondError(t, status) ==
    Respond(t, tab[t].md, tab[t].acs, tab[t].message.relay, status, None, None)

\* MakeAssertion, the enforcers unless q is None, and WriteResponse.
Finish(t, q, md, acs, relay, s) ==
    LET id == IF q = None THEN NoID ELSE q.id
        assertion == MakeAssertion(md, acs, id, s, tab[t].arrived, now)
        status == IF q = None THEN "Success" ELSE Status(Self, q, assertion)
        encryption == Encryption(md, acs)
    IN
    \/ /\ s.nameID = None
       /\ Fail(t)
    \/ /\ s.nameID # None /\ status # "Success"
       /\ RespondError(t, status)
    \/ /\ s.nameID # None /\ status = "Success" /\ encryption = "error"
       /\ Fail(t)
    \/ /\ s.nameID # None /\ status = "Success" /\ encryption # "error"
       /\ Respond(t, md, acs, relay, status, assertion, encryption)

-----------------------------------------------------------------------------
\* The SessionProvider.

NewSession(u) ==
    [nameID |-> Details[u].nameID, format |-> Details[u].format,
     class |-> Details[u].class, address |-> Details[u].address,
     create |-> now, expire |-> now + SessionMaxAge]

\* existingSession
Existing == IF session # None /\ now <= session.expire THEN session ELSE None

ShowForm(t) ==
    tab' = [tab EXCEPT ![t] =
       [Idle EXCEPT !.at = "form", !.link = tab[t].link, !.firstMd = tab[t].firstMd,
                    !.form = IF tab[t].link = None THEN LoginForm(tab[t].message)
                             ELSE None]]

Passive(q) == q # None /\ q.passive

\* Mutant of Forced: a session begun at this very time is as good.
MutantForced(q) == q # None /\ q.force /\ ~(Existing # None /\ Existing.create = now)

Forced(q) == q # None /\ q.force

\* getSession: the session for the request q (None if the identity provider
\* initiated it) and the credentials that came with it.  IsPassive comes first.
SessionFor(q, credentials) ==
    IF Passive(q) THEN (IF Forced(q) THEN None ELSE Existing)
    ELSE IF credentials \in User THEN NewSession(credentials)
    ELSE IF credentials = None /\ ~Forced(q) THEN Existing
    ELSE None

\* The session is found or made; an IdP-initiated request then looks for its
\* service provider, another is finished.
UseSession(t) ==
    LET q == tab[t].request
        s == SessionFor(q, tab[t].credentials)
    IN
    /\ tab[t].at = "get_session"
    /\ s # None
    /\ session' = IF Passive(q) \/ tab[t].credentials = None THEN session ELSE s
    /\ \/ /\ tab[t].link # None
          /\ tab' = [tab EXCEPT ![t].at = "lookup", ![t].session = s]
       \/ /\ tab[t].link = None
          /\ Finish(t, q, tab[t].md, tab[t].acs, tab[t].message.relay, s)
    /\ UNCHANGED <<setting, now, registry, changes>>

\* There is none: NoPassive, a 403, or the login form.
NoSession(t) ==
    LET q == tab[t].request IN
    /\ tab[t].at = "get_session"
    /\ SessionFor(q, tab[t].credentials) = None
    /\ \/ Passive(q) /\ RespondError(t, "NoPassive")
       \/ ~Passive(q) /\ tab[t].credentials = "foreign" /\ Fail(t)
       \/ ~Passive(q) /\ tab[t].credentials # "foreign" /\ ShowForm(t)
    /\ UNCHANGED <<setting, now, registry, changes, session>>

\* The Store fails: no passive session, or a 500, and the login form if the user
\* of the credentials cannot be read.
StoreError(t) ==
    LET q == tab[t].request IN
    /\ tab[t].at = "get_session"
    /\ \/ Passive(q) /\ ~Forced(q) /\ RespondError(t, "NoPassive")
       \/ ~Passive(q) /\ tab[t].credentials = None /\ ~Forced(q) /\ Fail(t)
       \/ ~Passive(q) /\ tab[t].credentials \in User /\ (Fail(t) \/ ShowForm(t))
    /\ UNCHANGED <<setting, now, registry, changes, session>>

\* ServeIDPInitiated: GetServiceProvider comes after the session, then the
\* default endpoint.
Lookup(t) ==
    LET md == registry[tab[t].link.entity]
        acs == DefaultACSEndpoint(md)
    IN
    /\ tab[t].at = "lookup"
    /\ \/ /\ md = None
          /\ Fail(t)
       \/ /\ md # None
          /\ acs = None
          /\ Fail(t)
       \/ /\ md # None
          /\ acs # None
          /\ Finish(t, None, md, acs, tab[t].link.relay, tab[t].session)
    /\ UNCHANGED <<setting, now, registry, changes, session>>

\* The tab moves on.
Close(t) ==
    /\ tab[t].at \in {"answered", "refused", "form"}
    /\ tab' = [tab EXCEPT ![t] = Idle]
    /\ UNCHANGED <<setting, now, registry, changes, session>>

-----------------------------------------------------------------------------
Next ==
    \/ Tick
    \/ EndSession
    \/ \E e \in Entity, md \in Registration \cup {None} : ChangeRegistry(e, md)
    \/ \E t \in Settings[setting].tabs :
          \/ \E m \in Message : Receive(t, m)
          \/ \E link \in Link : FollowLink(t, link)
          \/ \E c \in Credentials : SubmitForm(t, c) \/ SubmitLinkForm(t, c)
          \/ UseSession(t) \/ NoSession(t) \/ StoreError(t) \/ Lookup(t) \/ Close(t)

Spec == Init /\ [][Next]_vars
-----------------------------------------------------------------------------
\* Properties.

Answered(t) == tab[t].at = "answered"
Asserted(t) == Answered(t) /\ tab[t].answer.assertion # None

\* The variables keep their shape, and a request that waits for its session has
\* an endpoint to be answered at.
TypeOK ==
    /\ setting \in DOMAIN Settings /\ now \in Nat /\ changes \in Nat
    /\ registry \in [Entity -> Registration \cup {None}]
    /\ session # None => session.create \in Nat /\ session.expire \in Nat
    /\ \A t \in Tab :
          /\ tab[t].at \in {"idle", "get_session", "lookup", "form", "answered", "refused"}
          /\ tab[t].link \in Link \cup {None}
          /\ tab[t].message \in Message \cup {None}
          /\ tab[t].credentials \in Credentials \cup {None}
          /\ tab[t].at = "get_session" /\ tab[t].link = None =>
                tab[t].md \in Registration /\ tab[t].acs \in PostEndpoints(tab[t].md)

\* A Response is only sent to an endpoint the registered metadata of the service
\* provider that asked, or of the link, has for the HTTP-POST binding: the one
\* with the index or the URL the request names.  An assertion is for that service
\* provider and that endpoint.
DeliveredToRequester ==
    \A t \in Tab : Answered(t) =>
       LET answer == tab[t].answer
           md == tab[t].md
           q == tab[t].request
           named(e) == q = None \/ \/ q.acsIndex = None /\ q.acsURL = None
                                   \/ q.acsIndex # None /\ q.acsIndex = e.index
                                   \/ q.acsURL # None /\ q.acsURL = e.location
       IN
       /\ md.entity = IF q = None THEN tab[t].link.entity ELSE q.issuer
       /\ \E i \in DOMAIN md.descriptors : \E j \in DOMAIN md.descriptors[i].acs :
             LET e == md.descriptors[i].acs[j] IN
             e.binding = "post" /\ e.location = answer.url /\ named(e)
       /\ Asserted(t) => /\ answer.assertion.audience = md.entity
                         /\ answer.assertion.recipient = answer.url

\* A request with ForceAuthn is only satisfied by the credentials posted with it:
\* not by a session, however new, that another tab has begun, and a request that
\* also forbids interaction is not satisfied at all.
ForcedFresh ==
    \A t \in Tab : Asserted(t) /\ tab[t].request # None /\ tab[t].request.force =>
       /\ tab[t].credentials \in User
       /\ tab[t].answer.assertion.nameID = Details[tab[t].credentials].nameID
       /\ tab[t].answer.assertion.authnInstant >= tab[t].arrived
       /\ ~tab[t].request.passive

\* A request is only answered, whether it came at once or through the login form,
\* if each signature on it is by a key of the service provider and what is acted
\* on is what the enveloped signature covers.  Without a signature it is not
\* answered if one is required, by any of the descriptors.
AnsweredAsSigned ==
    \A t \in Tab : Answered(t) /\ tab[t].request # None =>
       LET m == tab[t].message
           md == tab[t].md
           key(k) == \E i \in DOMAIN md.descriptors :
                        \E j \in DOMAIN md.descriptors[i].keys :
                           md.descriptors[i].keys[j].use # "encryption"
                             /\ md.descriptors[i].keys[j].cert = k
           signs == \E i \in DOMAIN md.descriptors : md.descriptors[i].signs
       IN
       /\ m.signature # NoSignature =>
            key(m.signature.key) /\ tab[t].request = m.signature.covers
       /\ m.query # NoSignature => key(m.query.key) /\ m.query.intact
       /\ Self.wantSigned \/ signs => m.signature # NoSignature \/ m.query # NoSignature

\* What is answered is a request for this identity provider, not too old when the
\* message that led to the answer came, and not of the future: also if the
\* signature covers another request than encoding/xml read.
AnsweredInTime ==
    \A t \in Tab : Answered(t) /\ tab[t].request # None =>
       LET q == tab[t].request IN
       /\ q.destination \in {None, "sso"}
       /\ tab[t].arrived <= q.issueInstant + Self.maxAge
       /\ q.issueInstant <= tab[t].arrived + MaxClockSkew

\* The login form resumes the request it interrupted: it is not refused then
\* unless it has grown too old or the service provider was changed meanwhile.
FormsResume ==
    \A t \in Tab : tab[t].at = "refused" /\ tab[t].form # None =>
       \/ tab[t].md # tab[t].firstMd
       \/ tab[t].arrived > tab[t].form.request.issueInstant + Self.maxAge
       \/ tab[t].arrived > VerifiedRequest(tab[t].form).issueInstant + Self.maxAge

\* No assertion is sent in the clear to a service provider with a key that could
\* be for encryption in any descriptor, whichever of them the request selects and
\* whether or not the key can be used.
Confidential ==
    \A t \in Tab : Asserted(t) =>
       LET md == tab[t].md
           key(i, j) == md.descriptors[i].keys[j]
       IN
       IF tab[t].answer.encryption = "plain"
       THEN \A i \in DOMAIN md.descriptors : \A j \in DOMAIN md.descriptors[i].keys :
               key(i, j).use = "signing"
       ELSE \E i \in DOMAIN md.descriptors : \E j \in DOMAIN md.descriptors[i].keys :
               key(i, j).use # "signing" /\ key(i, j).cert = tab[t].answer.encryption

\* An assertion satisfies what the request asks of it: the principal, the format
\* of the NameID and the strength of the authentication.
MeetsRequest ==
    \A t \in Tab : Asserted(t) /\ tab[t].request # None =>
       LET a == tab[t].answer.assertion
           q == tab[t].request
           rank(x) == IF x \in DOMAIN Self.strength THEN Self.strength[x] ELSE 0
           ranked(y) == {a.class, y} \subseteq DOMAIN Self.strength
       IN
       /\ q.subject # None =>
            /\ q.subject.nameID = a.nameID
            /\ q.subject.format \in {None, "unspecified", a.format}
            /\ q.subject.confirmations # {} =>
                 \E c \in q.subject.confirmations :
                    /\ c.bearer /\ c.recipient \in {None, a.recipient}
                    /\ c.inResponseTo \in {None, q.id}
       /\ q.policy # None => /\ q.policy.format \in {None, "unspecified", a.format}
                             /\ q.policy.qualifier \in {None, a.qualifier}
       /\ q.context # None =>
            \E y \in q.context.classes :
               CASE q.context.comparison = "exact" -> a.class = y
                 [] q.context.comparison = "minimum" ->
                       a.class = y \/ (ranked(y) /\ rank(a.class) >= rank(y))
                 [] q.context.comparison = "maximum" ->
                       a.class = y \/ (ranked(y) /\ rank(a.class) <= rank(y))
                 [] OTHER -> ranked(y) /\ rank(a.class) > rank(y)
=============================================================================
