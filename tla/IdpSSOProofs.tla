---------------------------- MODULE IdpSSOProofs ----------------------------
(***************************************************************************)
(* What IdpSSO guarantees for any service providers, messages, users and   *)
(* tabs, and any delays between the steps of a request, proved with TLAPS. *)
(***************************************************************************)
EXTENDS IdpSSO, TLAPS, WellFoundedInduction

-----------------------------------------------------------------------------
\* The invariant.

\* The registry has the metadata of a service provider under its entity ID.
RegistryOK ==
    /\ registry \in [Entity -> Registration \cup {None}]
    /\ \A e \in Entity : registry[e] # None => registry[e].entity = e

Clocks ==
    /\ setting \in DOMAIN Settings /\ now \in Nat /\ changes \in Nat
    /\ session # None => session.create \in Nat /\ session.expire \in Nat

\* The fields of a tab x.
Shape(x) ==
    /\ DOMAIN x = DOMAIN Idle
    /\ x.at \in {"idle", "get_session", "lookup", "form", "answered", "refused"}
    /\ x.link \in Link \cup {None}
    /\ x.message \in Message \cup {None}
    /\ x.credentials \in Credentials \cup {None}
    /\ x.arrived \in Nat /\ x.arrived <= now
    /\ x.at = "get_session" => x.link # None \/ x.request # None
    /\ x.at = "lookup" => x.link # None

\* A request that is acted on was validated when it arrived, with metadata its
\* issuer was registered with.
Judged(x) ==
    x.request # None =>
       /\ x.link = None
       /\ x.message \in Message /\ x.request = VerifiedRequest(x.message)
       /\ x.md \in Registration /\ x.md.entity = x.message.request.issuer
       /\ Validate(Self, x.md, x.message, x.arrived)
       /\ x.acs = ACSEndpoint(x.md, x.request)

\* m was acceptable with metadata md at some time up to t.
Seen(m, md, t) == md # None /\ \E f \in 0..t : Validate(Self, md, m, f)

\* The login form has the message that was acceptable when it was first seen.
Resumes(x) ==
    /\ x.at = "get_session" /\ x.link = None => Seen(x.message, x.firstMd, now)
    /\ x.form # None => \E m \in Message : x.form = LoginForm(m) /\ Seen(m, x.firstMd, now)
    /\ x.at = "refused" /\ x.form # None =>
          \E m \in Message : /\ x.form = LoginForm(m)
                             /\ Seen(m, x.firstMd, x.arrived)
                             /\ x.md # None => ~Validate(Self, x.md, m, x.arrived)

\* An assertion was made for the endpoint and meets the request.
Granted(x) ==
    LET a == x.answer.assertion IN
    /\ a.audience = x.md.entity /\ a.qualifier = x.md.entity
    /\ a.recipient = x.answer.url
    /\ x.answer.encryption = Encryption(x.md, x.acs) /\ x.answer.encryption # "error"
    /\ x.request # None =>
          /\ a.inResponseTo = x.request.id
          /\ Status(Self, x.request, a) = "Success"
          /\ x.request.force => /\ x.credentials \in User /\ ~x.request.passive
                                /\ a.nameID = Details[x.credentials].nameID
                                /\ a.authnInstant >= x.arrived

\* What a tab is answered with.
AnswerOK(x) ==
    x.at = "answered" =>
       /\ x.md \in Registration /\ x.acs \in PostEndpoints(x.md)
       /\ x.answer.url = Endpoint(x.md, x.acs).location
       /\ x.request = None => x.link # None /\ x.md.entity = x.link.entity
       /\ x.answer.assertion # None => Granted(x)

Fine(x) == Shape(x) /\ Judged(x) /\ Resumes(x) /\ AnswerOK(x)

IInv == RegistryOK /\ Clocks /\ DOMAIN tab = Tab /\ \A t \in Tab : Fine(tab[t])

-----------------------------------------------------------------------------
\* The choices from metadata.

\* A set of indices has a least one.
LEMMA LeastIndex ==
    ASSUME NEW S, S \subseteq Nat, S # {}
    PROVE  \E x \in S : \A y \in S : x <= y
  <1>1. IsWellFoundedOn(OpToRel(<, Nat), Nat)
    BY NatLessThanWellFounded
  <1>2. PICK x \in S : \A y \in S : ~(<<y, x>> \in OpToRel(<, Nat))
    BY <1>1, WFMin
  <1>3. \A y \in S : ~(y < x)
    BY <1>2 DEF OpToRel
  <1>. QED BY <1>3

\* FirstPlace is one of the places.
LEMMA FirstIsOne ==
    ASSUME NEW S, S \subseteq Nat \X Nat, S # {}
    PROVE  FirstPlace(S) \in S
  <1> DEFINE rows == {p[1] : p \in S}
  <1>1. rows \subseteq Nat /\ rows # {}
    OBVIOUS
  <1>2. PICK i \in rows : \A k \in rows : i <= k
    BY <1>1, LeastIndex
  <1> DEFINE columns == {p[2] : p \in {q \in S : q[1] = i}}
  <1>3. columns \subseteq Nat /\ columns # {}
    BY <1>2
  <1>4. PICK j \in columns : \A k \in columns : j <= k
    BY <1>3, LeastIndex
  <1>5. PICK p \in S : p[1] = i /\ p[2] = j
    BY <1>4
  <1>6. \A q \in S : p[1] < q[1] \/ (p[1] = q[1] /\ p[2] <= q[2])
    <2> SUFFICES ASSUME NEW q \in S PROVE p[1] < q[1] \/ (p[1] = q[1] /\ p[2] <= q[2])
      OBVIOUS
    <2>1. i \in Nat /\ q[1] \in Nat /\ i <= q[1]
      BY <1>1, <1>2
    <2>2. q[1] = i => j <= q[2]
      BY <1>4
    <2>. QED BY <1>5, <2>1, <2>2
  <1>. QED BY <1>6 DEF FirstPlace

\* Places of endpoints.
LEMMA Places ==
    ASSUME NEW md, MetadataOK(md)
    PROVE  /\ PostEndpoints(md) \subseteq Nat \X Nat
           /\ \A p \in PostEndpoints(md) :
                 /\ p[1] \in DOMAIN md.descriptors
                 /\ p[2] \in DOMAIN md.descriptors[p[1]].acs
                 /\ Endpoint(md, p).binding = "post"
  BY DEF PostEndpoints, MetadataOK

\* getACSEndpoint finds an HTTP-POST endpoint that the request names, if it names one.
LEMMA EndpointNamed ==
    ASSUME NEW md, MetadataOK(md), NEW q, ACSEndpoint(md, q) # None
    PROVE  LET acs == ACSEndpoint(md, q)
               e == Endpoint(md, acs)
           IN
           /\ acs \in PostEndpoints(md)
           /\ \/ q.acsIndex = None /\ q.acsURL = None
              \/ q.acsIndex # None /\ q.acsIndex = e.index
              \/ q.acsURL # None /\ q.acsURL = e.location
  <1> DEFINE acs == ACSEndpoint(md, q)
             best == {p \in PostEndpoints(md) :
                        \A o \in PostEndpoints(md) :
                           Preference(Endpoint(md, p)) >= Preference(Endpoint(md, o))}
             byIndex == {p \in PostEndpoints(md) :
                           q.acsIndex # None /\ Endpoint(md, p).index = q.acsIndex}
             byURL == {p \in PostEndpoints(md) :
                         q.acsURL # None /\ Endpoint(md, p).location = q.acsURL}
  <1>1. acs = FirstPlace(IF q.acsIndex = None /\ q.acsURL = None THEN best
                         ELSE IF byIndex # {} THEN byIndex ELSE byURL)
    BY DEF ACSEndpoint, DefaultACSEndpoint
  <1>2. \A S : FirstPlace(S) # None /\ S \subseteq PostEndpoints(md) => FirstPlace(S) \in S
    BY Places, FirstIsOne DEF FirstPlace
  <1>3. best \subseteq PostEndpoints(md) /\ byIndex \subseteq PostEndpoints(md)
        /\ byURL \subseteq PostEndpoints(md)
    OBVIOUS
  <1>4. CASE q.acsIndex = None /\ q.acsURL = None
    <2>1. acs = FirstPlace(best)
      BY <1>1, <1>4
    <2>. QED BY <1>2, <1>3, <1>4, <2>1
  <1>5. CASE ~(q.acsIndex = None /\ q.acsURL = None) /\ byIndex # {}
    <2>1. acs = FirstPlace(byIndex)
      BY <1>1, <1>5
    <2>2. acs \in byIndex
      BY <1>2, <1>3, <2>1
    <2>. QED BY <2>2
  <1>6. CASE ~(q.acsIndex = None /\ q.acsURL = None) /\ byIndex = {}
    <2>1. acs = FirstPlace(byURL)
      BY <1>1, <1>6
    <2>2. acs \in byURL
      BY <1>2, <1>3, <2>1
    <2>. QED BY <2>2
  <1>. QED BY <1>4, <1>5, <1>6

\* useDefaultACSEndpoint finds an HTTP-POST endpoint.
LEMMA DefaultIsPost ==
    ASSUME NEW md, MetadataOK(md), DefaultACSEndpoint(md) # None
    PROVE  DefaultACSEndpoint(md) \in PostEndpoints(md)
  <1>1. \A S : FirstPlace(S) # None /\ S \subseteq PostEndpoints(md) => FirstPlace(S) \in S
    BY Places, FirstIsOne DEF FirstPlace
  <1>. QED BY <1>1 DEF DefaultACSEndpoint

\* getSPEncryptionCert leaves an assertion in the clear only if all keys are for
\* signing, and otherwise chooses one that is not.
LEMMA EncryptionChosen ==
    ASSUME NEW md, MetadataOK(md), NEW acs \in PostEndpoints(md),
           Encryption(md, acs) # "error"
    PROVE  LET key(i, j) == md.descriptors[i].keys[j] IN
           IF Encryption(md, acs) = "plain"
           THEN \A i \in DOMAIN md.descriptors : \A j \in DOMAIN md.descriptors[i].keys :
                   key(i, j).use = "signing"
           ELSE \E i \in DOMAIN md.descriptors : \E j \in DOMAIN md.descriptors[i].keys :
                   key(i, j).use # "signing" /\ key(i, j).cert = Encryption(md, acs)
  <1> DEFINE d == md.descriptors[acs[1]]
             usable(use) == {j \in DOMAIN d.keys : d.keys[j].use = use /\ d.keys[j].cert # None}
             first(S) == CHOOSE j \in S : \A k \in S : j <= k
             cert == EncryptionCert(d)
  <1>1. acs[1] \in DOMAIN md.descriptors /\ DOMAIN d.keys \subseteq Nat
    BY Places DEF MetadataOK
  <1>2. \A use : usable(use) # {} => first(usable(use)) \in usable(use)
    <2> SUFFICES ASSUME NEW use, usable(use) # {} PROVE first(usable(use)) \in usable(use)
      OBVIOUS
    <2>1. \E j \in usable(use) : \A k \in usable(use) : j <= k
      BY <1>1, LeastIndex
    <2>. QED BY <2>1
  <1>3. /\ usable("encryption") # {} => cert = d.keys[first(usable("encryption"))].cert
        /\ usable("encryption") = {} /\ usable("") # {} => cert = d.keys[first(usable(""))].cert
        /\ usable("encryption") = {} /\ usable("") = {} => cert = None
    <2>1. ASSUME usable("encryption") # {}
          PROVE  cert = d.keys[first(usable("encryption"))].cert
      BY <2>1, Zenon DEF EncryptionCert
    <2>2. ASSUME usable("encryption") = {}, usable("") # {}
          PROVE  cert = d.keys[first(usable(""))].cert
      BY <2>2, Zenon DEF EncryptionCert
    <2>3. ASSUME usable("encryption") = {}, usable("") = {} PROVE cert = None
      BY <2>3, Zenon DEF EncryptionCert
    <2>. QED BY <2>1, <2>2, <2>3
  <1>4. cert = None \/ \E j \in DOMAIN d.keys : /\ d.keys[j].use \in {"encryption", ""}
                                                /\ d.keys[j].cert = cert
    <2> HIDE DEF first, cert
    <2>1. CASE usable("encryption") # {}
      BY <1>2, <1>3, <2>1
    <2>2. CASE usable("encryption") = {} /\ usable("") # {}
      BY <1>2, <1>3, <2>2
    <2>3. CASE usable("encryption") = {} /\ usable("") = {}
      BY <1>3, <2>3
    <2>. QED BY <2>1, <2>2, <2>3
  <1> HIDE DEF cert, first, usable
  <1>5. CASE cert = None
    <2>1. Encryption(md, acs) = "plain" /\ ~AcceptsEncryption(md)
      BY <1>5 DEF Encryption, cert, d
    <2>. QED BY <2>1 DEF AcceptsEncryption, Keys
  <1>6. CASE cert # None
    <2>1. Encryption(md, acs) = cert
      BY <1>6 DEF Encryption, cert, d
    <2>2. PICK j \in DOMAIN d.keys : /\ d.keys[j].use \in {"encryption", ""}
                                     /\ d.keys[j].cert = cert
      BY <1>4, <1>6
    <2>3. cert # "plain"
      BY <1>1, <2>2 DEF MetadataOK
    <2>. QED BY <1>1, <2>1, <2>2, <2>3
  <1>. QED BY <1>5, <1>6

-----------------------------------------------------------------------------
\* The steps.

\* What is said of a tab stays true while time passes.
LEMMA FineStays ==
    ASSUME setting' = setting, now \in Nat, now' \in Nat, now <= now'
    PROVE  \A x : Fine(x) => Fine(x)'
  <1>1. Link' = Link /\ Message' = Message /\ Registration' = Registration
    BY DEF Link, Message, Registration
  <1> SUFFICES ASSUME NEW x, Fine(x) PROVE Fine(x)'
    OBVIOUS
  <1>2. Shape(x)'
    BY <1>1 DEF Fine, Shape
  <1>3. Judged(x)'
    BY <1>1 DEF Fine, Judged
  <1>4. \A m, md : Seen(m, md, now) => Seen(m, md, now')
    BY DEF Seen
  <1>5. Resumes(x)'
    BY <1>1, <1>4 DEF Fine, Resumes
  <1>6. AnswerOK(x)'
    BY <1>1 DEF Fine, AnswerOK, Granted
  <1>. QED BY <1>2, <1>3, <1>5, <1>6 DEF Fine

\* A step of one tab that leaves it fine keeps the invariant.
LEMMA OneTab ==
    ASSUME IInv, NEW t \in Tab, NEW rec, Fine(rec), tab' = [tab EXCEPT ![t] = rec],
           UNCHANGED <<setting, now, registry, changes>>, Clocks'
    PROVE  IInv'
  <1>1. RegistryOK'
    BY DEF IInv, RegistryOK, Registration
  <1>2. DOMAIN tab' = Tab /\ tab'[t] = rec /\ \A q \in Tab \ {t} : tab'[q] = tab[q]
    BY DEF IInv
  <1>3. \A x : Fine(x) => Fine(x)'
    BY FineStays DEF IInv, Clocks
  <1>. QED BY <1>1, <1>2, <1>3 DEF IInv

\* The sets a setting gives.
LEMMA SettingOK ==
    ASSUME IInv
    PROVE  /\ now \in Nat
           /\ \A md \in Registration : MetadataOK(md)
           /\ \A m \in Message : MessageOK(m)
           /\ \A link \in Link : link # None /\ link.entity \in Entity
           /\ Settings[setting].tabs \subseteq Tab
  BY SSOAssumption DEF IInv, Clocks, Registration, Message, Link

\* A tab that has been given up, ...
LEMMA IdleFine ==
    ASSUME IInv
    PROVE  Fine(Idle)
  <1>1. /\ Idle.at = "idle" /\ Idle.link = None /\ Idle.message = None
        /\ Idle.credentials = None /\ Idle.request = None /\ Idle.arrived = 0
        /\ Idle.form = None
    BY DEF Idle
  <1>2. now \in Nat
    BY DEF IInv, Clocks
  <1>. QED BY <1>1, <1>2 DEF Fine, Shape, Judged, Resumes, AnswerOK

\* ... one that follows a link, ...
LEMMA LinkFine ==
    ASSUME IInv, NEW link \in Link, NEW c \in Credentials \cup {None}
    PROVE  Fine([Idle EXCEPT !.at = "get_session", !.link = link, !.credentials = c,
                             !.arrived = now])
  <1> DEFINE x == [Idle EXCEPT !.at = "get_session", !.link = link, !.credentials = c,
                               !.arrived = now]
  <1>1. /\ DOMAIN x = DOMAIN Idle /\ x.at = "get_session" /\ x.link = link
        /\ x.credentials = c /\ x.arrived = now /\ x.message = None /\ x.request = None
        /\ x.form = None
    BY DEF Idle
  <1>2. now \in Nat /\ link # None
    BY SettingOK
  <1> HIDE DEF x
  <1>3. Fine(x)
    BY <1>1, <1>2 DEF Fine, Shape, Judged, Resumes, AnswerOK
  <1>. QED BY <1>3 DEF x

\* ... and one with a message: accepted, ...
LEMMA AcceptedFine ==
    ASSUME IInv, NEW m \in Message, Acceptable(m), NEW c \in Credentials \cup {None},
           NEW form, NEW firstMd,
           form # None => form = LoginForm(m), Seen(m, firstMd, now)
    PROVE  Fine([Idle EXCEPT !.credentials = c, !.form = form, !.firstMd = firstMd,
                             !.at = "get_session", !.message = m,
                             !.request = VerifiedRequest(m), !.md = ServiceProvider(m),
                             !.acs = ACSEndpoint(ServiceProvider(m), VerifiedRequest(m)),
                             !.arrived = now])
  <1> DEFINE md == ServiceProvider(m)
             q == VerifiedRequest(m)
             acs == ACSEndpoint(md, q)
             x == [Idle EXCEPT !.credentials = c, !.form = form, !.firstMd = firstMd,
                               !.at = "get_session", !.message = m, !.request = q,
                               !.md = md, !.acs = acs, !.arrived = now]
  <1>1. now \in Nat /\ MessageOK(m)
    BY SettingOK
  <1>2. md \in Registration /\ md.entity = m.request.issuer /\ Validate(Self, md, m, now)
    BY DEF Acceptable, ServiceProvider, IInv, RegistryOK
  <1>3. q # None
    BY <1>1 DEF MessageOK
  <1> HIDE DEF md, q, acs
  <1>4. /\ DOMAIN x = DOMAIN Idle /\ x.at = "get_session" /\ x.link = None
        /\ x.credentials = c /\ x.arrived = now /\ x.message = m /\ x.request = q
        /\ x.md = md /\ x.acs = acs /\ x.form = form /\ x.firstMd = firstMd
    BY DEF Idle
  <1> HIDE DEF x
  <1>5. Shape(x)
    BY <1>1, <1>3, <1>4 DEF Shape
  <1>6. Judged(x)
    BY <1>2, <1>4 DEF Judged, q, acs
  <1>7. Resumes(x) /\ AnswerOK(x)
    BY <1>4 DEF Resumes, AnswerOK
  <1>. QED BY <1>5, <1>6, <1>7 DEF Fine, x, md, q, acs

\* ... or refused.
LEMMA RefusedFine ==
    ASSUME IInv, NEW m \in Message, ~Acceptable(m), NEW c \in Credentials \cup {None},
           NEW form, NEW firstMd,
           form # None => form = LoginForm(m) /\ Seen(m, firstMd, now)
    PROVE  Fine([Idle EXCEPT !.credentials = c, !.form = form, !.firstMd = firstMd,
                             !.at = "refused", !.message = m, !.md = ServiceProvider(m),
                             !.arrived = now])
  <1> DEFINE md == ServiceProvider(m)
             x == [Idle EXCEPT !.credentials = c, !.form = form, !.firstMd = firstMd,
                               !.at = "refused", !.message = m, !.md = md, !.arrived = now]
  <1>1. now \in Nat /\ (md # None => ~Validate(Self, md, m, now))
    BY SettingOK DEF Acceptable
  <1> HIDE DEF md
  <1>2. /\ DOMAIN x = DOMAIN Idle /\ x.at = "refused" /\ x.link = None
        /\ x.credentials = c /\ x.arrived = now /\ x.message = m /\ x.request = None
        /\ x.md = md /\ x.form = form /\ x.firstMd = firstMd
    BY DEF Idle
  <1> HIDE DEF x
  <1>3. Shape(x) /\ Judged(x) /\ AnswerOK(x)
    BY <1>1, <1>2 DEF Shape, Judged, AnswerOK
  <1>4. Resumes(x)
    BY <1>1, <1>2 DEF Resumes
  <1>. QED BY <1>3, <1>4 DEF Fine, x, md

\* How Accept writes those records.
LEMMA AcceptShape ==
    ASSUME NEW c, NEW form, NEW firstMd, NEW m, NEW q, NEW md, NEW acs, NEW n
    PROVE  LET first == [Idle EXCEPT !.firstMd = firstMd]
               again == [Idle EXCEPT !.credentials = c, !.form = form, !.firstMd = firstMd]
           IN
           /\ [first EXCEPT !.at = "get_session", !.message = m, !.request = q, !.md = md,
                            !.acs = acs, !.arrived = n]
                = [Idle EXCEPT !.credentials = None, !.form = None, !.firstMd = firstMd,
                               !.at = "get_session", !.message = m, !.request = q,
                               !.md = md, !.acs = acs, !.arrived = n]
           /\ [first EXCEPT !.at = "refused", !.message = m, !.md = md, !.arrived = n]
                = [Idle EXCEPT !.credentials = None, !.form = None, !.firstMd = firstMd,
                               !.at = "refused", !.message = m, !.md = md, !.arrived = n]
           /\ [again EXCEPT !.at = "get_session", !.message = m, !.request = q, !.md = md,
                            !.acs = acs, !.arrived = n]
                = [Idle EXCEPT !.credentials = c, !.form = form, !.firstMd = firstMd,
                               !.at = "get_session", !.message = m, !.request = q,
                               !.md = md, !.acs = acs, !.arrived = n]
           /\ [again EXCEPT !.at = "refused", !.message = m, !.md = md, !.arrived = n]
                = [Idle EXCEPT !.credentials = c, !.form = form, !.firstMd = firstMd,
                               !.at = "refused", !.message = m, !.md = md, !.arrived = n]
  <1>1. Idle.credentials = None /\ Idle.form = None
    BY DEF Idle
  <1>2. Idle = [at |-> Idle.at, message |-> Idle.message, link |-> Idle.link,
                credentials |-> Idle.credentials, request |-> Idle.request, md |-> Idle.md,
                acs |-> Idle.acs, arrived |-> Idle.arrived, session |-> Idle.session,
                answer |-> Idle.answer, form |-> Idle.form, firstMd |-> Idle.firstMd]
    BY DEF Idle
  <1>. QED BY <1>1, <1>2

\* A message arrives.
LEMMA ReceiveStep ==
    ASSUME IInv, NEW t \in Tab, NEW m \in Message, Receive(t, m)
    PROVE  IInv'
  <1> DEFINE md == ServiceProvider(m)
             q == VerifiedRequest(m)
             rec == IF Acceptable(m)
                    THEN [Idle EXCEPT !.credentials = None, !.form = None, !.firstMd = md,
                                      !.at = "get_session", !.message = m, !.request = q,
                                      !.md = md, !.acs = ACSEndpoint(md, q), !.arrived = now]
                    ELSE [Idle EXCEPT !.credentials = None, !.form = None, !.firstMd = md,
                                      !.at = "refused", !.message = m, !.md = md,
                                      !.arrived = now]
  <1>1. tab' = [tab EXCEPT ![t] = rec]
    BY AcceptShape DEF Receive, Accept
  <1>2. UNCHANGED <<setting, now, registry, changes>> /\ Clocks'
    BY DEF Receive, IInv, Clocks
  <1>3. ASSUME Acceptable(m) PROVE Seen(m, md, now)
    BY <1>3, SettingOK DEF Acceptable, Seen
  <1>4. Fine(rec)
    BY <1>3, AcceptedFine, RefusedFine
  <1> HIDE DEF rec
  <1>. QED BY <1>1, <1>2, <1>4, OneTab

\* The login form gives back the message it was made for.
LEMMA FormRead ==
    ASSUME NEW m, MessageOK(m)
    PROVE  ReadForm(LoginForm(m)) = m
  BY DEF MessageOK, ReadForm, LoginForm

\* The login form is submitted.
LEMMA SubmitStep ==
    ASSUME IInv, NEW t \in Tab, NEW c \in Credentials, SubmitForm(t, c)
    PROVE  IInv'
  <1>1. Fine(tab[t]) /\ tab[t].form # None /\ tab[t].at = "form"
    BY DEF IInv, SubmitForm
  <1>2. PICK m \in Message : tab[t].form = LoginForm(m) /\ Seen(m, tab[t].firstMd, now)
    BY <1>1 DEF Fine, Resumes
  <1>3. ReadForm(tab[t].form) = m
    BY <1>2, SettingOK, FormRead
  <1> DEFINE md == ServiceProvider(m)
             q == VerifiedRequest(m)
             form == tab[t].form
             first == tab[t].firstMd
             rec == IF Acceptable(m)
                    THEN [Idle EXCEPT !.credentials = c, !.form = form, !.firstMd = first,
                                      !.at = "get_session", !.message = m, !.request = q,
                                      !.md = md, !.acs = ACSEndpoint(md, q), !.arrived = now]
                    ELSE [Idle EXCEPT !.credentials = c, !.form = form, !.firstMd = first,
                                      !.at = "refused", !.message = m, !.md = md,
                                      !.arrived = now]
  <1>4. Accept(t, m, [Idle EXCEPT !.credentials = c, !.form = form, !.firstMd = first])
    BY <1>3 DEF SubmitForm
  <1>5. tab' = [tab EXCEPT ![t] = rec]
    BY <1>4, AcceptShape DEF Accept
  <1>6. UNCHANGED <<setting, now, registry, changes>> /\ Clocks'
    BY DEF SubmitForm, IInv, Clocks
  <1>7. Fine(rec)
    BY <1>2, AcceptedFine, RefusedFine
  <1> HIDE DEF rec
  <1>. QED BY <1>5, <1>6, <1>7, OneTab

\* A link is followed, and its login form submitted.
LEMMA LinkStep ==
    ASSUME IInv, NEW t \in Tab,
           \/ \E link \in Link : FollowLink(t, link)
           \/ \E c \in Credentials : SubmitLinkForm(t, c)
    PROVE  IInv'
  <1>1. UNCHANGED <<setting, now, registry, changes>> /\ Clocks'
    BY DEF FollowLink, SubmitLinkForm, IInv, Clocks
  <1>2. ASSUME NEW link \in Link, FollowLink(t, link) PROVE IInv'
    <2> DEFINE rec == [Idle EXCEPT !.at = "get_session", !.link = link,
                                   !.credentials = None, !.arrived = now]
    <2>1. [Idle EXCEPT !.at = "get_session", !.link = link, !.arrived = now] = rec
      <3>1. Idle.credentials = None
        BY DEF Idle
      <3>2. Idle = [at |-> Idle.at, message |-> Idle.message, link |-> Idle.link,
                    credentials |-> Idle.credentials, request |-> Idle.request,
                    md |-> Idle.md, acs |-> Idle.acs, arrived |-> Idle.arrived,
                    session |-> Idle.session, answer |-> Idle.answer, form |-> Idle.form,
                    firstMd |-> Idle.firstMd]
        BY DEF Idle
      <3>. QED BY <3>1, <3>2
    <2>2. tab' = [tab EXCEPT ![t] = rec]
      BY <1>2, <2>1 DEF FollowLink
    <2>3. Fine(rec)
      BY LinkFine
    <2> HIDE DEF rec
    <2>. QED BY <1>1, <2>2, <2>3, OneTab
  <1>3. ASSUME NEW c \in Credentials, SubmitLinkForm(t, c) PROVE IInv'
    <2> DEFINE link == tab[t].link
               rec == [Idle EXCEPT !.at = "get_session", !.link = link, !.credentials = c,
                                   !.arrived = now]
    <2>1. link \in Link
      BY <1>3 DEF SubmitLinkForm, IInv, Fine, Shape
    <2>2. tab' = [tab EXCEPT ![t] = rec]
      BY <1>3 DEF SubmitLinkForm
    <2>3. Fine(rec)
      BY <2>1, LinkFine
    <2> HIDE DEF rec
    <2>. QED BY <1>1, <2>2, <2>3, OneTab
  <1>. QED BY <1>2, <1>3

\* A tab that is answered.
LEMMA AnsweredFine ==
    ASSUME NEW x, Fine(x), NEW md \in Registration, NEW acs \in PostEndpoints(md),
           x.request # None => md = x.md /\ acs = x.acs,
           x.request = None => x.link # None /\ md.entity = x.link.entity,
           NEW relay, NEW status, NEW a, NEW encryption,
           a # None =>
              /\ a.audience = md.entity /\ a.qualifier = md.entity
              /\ a.recipient = Endpoint(md, acs).location
              /\ encryption = Encryption(md, acs) /\ encryption # "error"
              /\ x.request # None =>
                    /\ a.inResponseTo = x.request.id
                    /\ Status(Self, x.request, a) = "Success"
                    /\ x.request.force => /\ x.credentials \in User /\ ~x.request.passive
                                          /\ a.nameID = Details[x.credentials].nameID
                                          /\ a.authnInstant >= x.arrived
    PROVE  Fine([x EXCEPT !.at = "answered", !.md = md, !.acs = acs,
                          !.answer = [url |-> Endpoint(md, acs).location, relay |-> relay,
                                      status |-> status, assertion |-> a,
                                      encryption |-> encryption]])
  <1> DEFINE answer == [url |-> Endpoint(md, acs).location, relay |-> relay,
                        status |-> status, assertion |-> a, encryption |-> encryption]
             y == [x EXCEPT !.at = "answered", !.md = md, !.acs = acs, !.answer = answer]
  <1>1. /\ answer.url = Endpoint(md, acs).location /\ answer.assertion = a
        /\ answer.encryption = encryption
    OBVIOUS
  <1>2. DOMAIN Idle = {"at", "message", "link", "credentials", "request", "md", "acs",
                       "arrived", "session", "answer", "form", "firstMd"}
    BY DEF Idle
  <1>3. DOMAIN x = DOMAIN Idle
    BY DEF Fine, Shape
  <1> HIDE DEF answer
  <1>4. /\ DOMAIN y = DOMAIN Idle /\ y.at = "answered" /\ y.md = md /\ y.acs = acs
        /\ y.answer = answer /\ y.link = x.link /\ y.message = x.message
        /\ y.credentials = x.credentials /\ y.request = x.request /\ y.arrived = x.arrived
        /\ y.form = x.form /\ y.firstMd = x.firstMd
    BY <1>2, <1>3
  <1> HIDE DEF y
  <1>5. Shape(y)
    BY <1>4 DEF Fine, Shape
  <1>6. Judged(y)
    BY <1>4 DEF Fine, Judged
  <1>7. Resumes(y)
    BY <1>4 DEF Fine, Resumes
  <1>8. AnswerOK(y)
    <2>1. a # None => Granted(y)
      BY <1>1, <1>4 DEF Granted
    <2>. QED BY <1>1, <1>4, <2>1 DEF AnswerOK
  <1>. QED BY <1>5, <1>6, <1>7, <1>8 DEF Fine, y, answer

\* The endpoint a request is answered at.
LEMMA EndpointOfRequest ==
    ASSUME IInv, NEW x, Fine(x), x.request # None
    PROVE  /\ x.md \in Registration /\ MetadataOK(x.md) /\ x.link = None
           /\ x.acs \in PostEndpoints(x.md)
  <1>1. x.md \in Registration /\ x.acs = ACSEndpoint(x.md, x.request) /\ x.acs # None
        /\ x.link = None
    BY DEF Fine, Judged, Validate
  <1>2. MetadataOK(x.md)
    BY <1>1, SettingOK
  <1>. QED BY <1>1, <1>2, EndpointNamed

\* An error is answered, ...
LEMMA ErrorStep ==
    ASSUME IInv, NEW t \in Tab, tab[t].request # None, NEW status, RespondError(t, status),
           UNCHANGED <<setting, now, registry, changes>>, Clocks'
    PROVE  IInv'
  <1> DEFINE x == tab[t]
             answer == [url |-> Endpoint(x.md, x.acs).location, relay |-> x.message.relay,
                        status |-> status, assertion |-> None, encryption |-> None]
             rec == [x EXCEPT !.at = "answered", !.md = x.md, !.acs = x.acs,
                              !.answer = answer]
  <1>1. Fine(x) /\ x.request # None
    BY DEF IInv
  <1>2. x.md \in Registration /\ x.acs \in PostEndpoints(x.md)
    BY <1>1, EndpointOfRequest
  <1>3. tab' = [tab EXCEPT ![t] = rec]
    BY DEF RespondError, Respond, IInv
  <1>4. Fine(rec)
    <2> HIDE DEF x
    <2>. QED BY <1>1, <1>2, AnsweredFine
  <1> HIDE DEF rec
  <1>. QED BY <1>3, <1>4, OneTab

\* ... or an HTTP error, ...
LEMMA FailStep ==
    ASSUME IInv, NEW t \in Tab, Fail(t), UNCHANGED <<setting, now, registry, changes>>, Clocks'
    PROVE  IInv'
  BY IdleFine, OneTab DEF Fail

\* ... or the login form.
LEMMA FormStep ==
    ASSUME IInv, NEW t \in Tab, tab[t].at = "get_session", ShowForm(t),
           UNCHANGED <<setting, now, registry, changes>>, Clocks'
    PROVE  IInv'
  <1> DEFINE x == tab[t]
             form == IF x.link = None THEN LoginForm(x.message) ELSE None
             rec == [Idle EXCEPT !.at = "form", !.link = x.link, !.firstMd = x.firstMd,
                                 !.form = form]
  <1>1. Fine(x) /\ now \in Nat
    BY DEF IInv, Clocks
  <1>2. form # None => x.message \in Message /\ form = LoginForm(x.message)
                       /\ Seen(x.message, x.firstMd, now)
    BY <1>1 DEF Fine, Shape, Judged, Resumes
  <1>3. tab' = [tab EXCEPT ![t] = rec]
    BY DEF ShowForm
  <1> HIDE DEF form, x
  <1>4. /\ DOMAIN rec = DOMAIN Idle /\ rec.at = "form" /\ rec.link = x.link
        /\ rec.firstMd = x.firstMd /\ rec.form = form /\ rec.message = None
        /\ rec.credentials = None /\ rec.request = None /\ rec.arrived = 0
    BY DEF Idle
  <1> HIDE DEF rec
  <1>5. Shape(rec)
    BY <1>1, <1>4 DEF Fine, Shape
  <1>6. Judged(rec) /\ AnswerOK(rec)
    BY <1>4 DEF Judged, AnswerOK
  <1>7. Resumes(rec)
    BY <1>2, <1>4 DEF Resumes
  <1>8. Fine(rec)
    BY <1>5, <1>6, <1>7 DEF Fine
  <1>. QED BY <1>3, <1>8, OneTab

\* The assertion is made and sent, or refused.
LEMMA FinishStep ==
    ASSUME IInv, NEW t \in Tab, NEW q, q = tab[t].request,
           NEW md \in Registration, NEW acs \in PostEndpoints(md),
           q # None => md = tab[t].md /\ acs = tab[t].acs,
           q = None => tab[t].link # None /\ md.entity = tab[t].link.entity,
           NEW s,
           q # None /\ q.force => /\ tab[t].credentials \in User /\ ~q.passive
                                  /\ s.nameID = Details[tab[t].credentials].nameID
                                  /\ s.create >= tab[t].arrived,
           NEW relay, Finish(t, q, md, acs, relay, s),
           UNCHANGED <<setting, now, registry, changes>>, Clocks'
    PROVE  IInv'
  <1> DEFINE id == IF q = None THEN NoID ELSE q.id
             a == MakeAssertion(md, acs, id, s, tab[t].arrived, now)
             status == IF q = None THEN "Success" ELSE Status(Self, q, a)
             encryption == Encryption(md, acs)
             x == tab[t]
             answer == [url |-> Endpoint(md, acs).location, relay |-> relay,
                        status |-> status, assertion |-> a, encryption |-> encryption]
             rec == [x EXCEPT !.at = "answered", !.md = md, !.acs = acs, !.answer = answer]
  <1>1. /\ a.audience = md.entity /\ a.qualifier = md.entity
        /\ a.recipient = Endpoint(md, acs).location /\ a.inResponseTo = id
        /\ a.nameID = s.nameID /\ a.authnInstant = s.create
    BY DEF MakeAssertion
  <1>2. CASE Fail(t)
    BY <1>2, FailStep
  <1>3. CASE status # "Success" /\ RespondError(t, status)
    <2>1. tab[t].request # None
      BY <1>3
    <2> HIDE DEF status
    <2>. QED BY <1>3, <2>1, ErrorStep
  <1>4. CASE /\ status = "Success" /\ encryption # "error"
             /\ Respond(t, md, acs, relay, status, a, encryption)
    <2>1. tab' = [tab EXCEPT ![t] = rec]
      BY <1>4 DEF Respond, IInv
    <2>2. q # None => Status(Self, q, a) = "Success"
      BY <1>4
    <2>3. Fine(x)
      BY DEF IInv
    <2>4. /\ x.request # None => md = x.md /\ acs = x.acs
          /\ x.request = None => x.link # None /\ md.entity = x.link.entity
          /\ x.request # None =>
                /\ a.inResponseTo = x.request.id /\ Status(Self, x.request, a) = "Success"
                /\ x.request.force => /\ x.credentials \in User /\ ~x.request.passive
                                      /\ a.nameID = Details[x.credentials].nameID
                                      /\ a.authnInstant >= x.arrived
      BY <1>1, <2>2
    <2> HIDE DEF a, status, x
    <2>5. Fine(rec)
      BY <1>1, <1>4, <2>3, <2>4, AnsweredFine
    <2> HIDE DEF rec
    <2>. QED BY <2>1, <2>5, OneTab
  <1>. QED BY <1>2, <1>3, <1>4 DEF Finish

\* The session a request gets.
LEMMA SessionGiven ==
    ASSUME IInv, NEW q, NEW c, SessionFor(q, c) # None
    PROVE  LET s == SessionFor(q, c) IN
           /\ s.create \in Nat /\ s.expire \in Nat
           /\ Forced(q) => /\ c \in User /\ ~Passive(q) /\ s.create = now
                           /\ s.nameID = Details[c].nameID
  <1>1. now \in Nat /\ (Existing # None => Existing.create \in Nat /\ Existing.expire \in Nat)
    BY DEF IInv, Clocks, Existing
  <1>2. /\ NewSession(c).create = now /\ NewSession(c).expire = now + SessionMaxAge
        /\ NewSession(c).nameID = Details[c].nameID
    BY DEF NewSession
  <1>3. now + SessionMaxAge \in Nat
    BY <1>1, SSOAssumption
  <1>. QED BY <1>1, <1>2, <1>3 DEF SessionFor

\* A session is found or made, ...
LEMMA UseStep ==
    ASSUME IInv, NEW t \in Tab, UseSession(t)
    PROVE  IInv'
  <1> DEFINE x == tab[t]
             q == x.request
             s == SessionFor(q, x.credentials)
  <1>1. Fine(x) /\ x.at = "get_session" /\ s # None
    BY DEF IInv, UseSession
  <1>2. /\ s.create \in Nat /\ s.expire \in Nat
        /\ Forced(q) => /\ x.credentials \in User /\ ~Passive(q) /\ s.create = now
                        /\ s.nameID = Details[x.credentials].nameID
    BY <1>1, SessionGiven
  <1>3. UNCHANGED <<setting, now, registry, changes>> /\ session' \in {session, s}
    BY DEF UseSession
  <1> HIDE DEF s
  <1>4. Clocks'
    BY <1>2, <1>3 DEF IInv, Clocks
  <1>5. CASE x.link # None /\ tab' = [tab EXCEPT ![t].at = "lookup", ![t].session = s]
    <2> DEFINE rec == [x EXCEPT !.at = "lookup", !.session = s]
    <2>1. tab' = [tab EXCEPT ![t] = rec]
      BY <1>5 DEF IInv
    <2>2. DOMAIN Idle = {"at", "message", "link", "credentials", "request", "md", "acs",
                         "arrived", "session", "answer", "form", "firstMd"}
      BY DEF Idle
    <2>3. DOMAIN x = DOMAIN Idle
      BY <1>1 DEF Fine, Shape
    <2> HIDE DEF x
    <2>4. /\ DOMAIN rec = DOMAIN Idle /\ rec.at = "lookup" /\ rec.link = x.link
          /\ rec.message = x.message /\ rec.credentials = x.credentials
          /\ rec.request = x.request /\ rec.arrived = x.arrived /\ rec.md = x.md
          /\ rec.acs = x.acs /\ rec.form = x.form /\ rec.firstMd = x.firstMd
      BY <2>2, <2>3
    <2> HIDE DEF rec
    <2>5. Shape(rec) /\ Judged(rec) /\ AnswerOK(rec)
      BY <1>1, <1>5, <2>4 DEF Fine, Shape, Judged, AnswerOK
    <2>6. Resumes(rec)
      BY <1>1, <2>4 DEF Fine, Resumes
    <2>7. Fine(rec)
      BY <2>5, <2>6 DEF Fine
    <2>. QED BY <1>3, <1>4, <2>1, <2>7, OneTab
  <1>6. CASE x.link = None /\ Finish(t, q, x.md, x.acs, x.message.relay, s)
    <2>1. q # None
      BY <1>1, <1>6 DEF Fine, Shape
    <2>2. x.md \in Registration /\ x.acs \in PostEndpoints(x.md)
      BY <1>1, <2>1, EndpointOfRequest
    <2>3. q.force => /\ x.credentials \in User /\ ~q.passive
                     /\ s.nameID = Details[x.credentials].nameID /\ s.create >= x.arrived
      <3>1. x.arrived <= now /\ x.arrived \in Nat /\ now \in Nat
        BY <1>1, SettingOK DEF Fine, Shape
      <3>. QED BY <1>2, <2>1, <3>1 DEF Forced, Passive
    <2>. QED BY <1>3, <1>4, <1>6, <2>1, <2>2, <2>3, FinishStep
  <1>. QED BY <1>5, <1>6 DEF UseSession, s

\* ... or there is none, or the Store fails.
LEMMA NoSessionStep ==
    ASSUME IInv, NEW t \in Tab, NoSession(t) \/ StoreError(t)
    PROVE  IInv'
  <1>1. UNCHANGED <<setting, now, registry, changes>> /\ Clocks' /\ tab[t].at = "get_session"
    BY DEF NoSession, StoreError, IInv, Clocks
  <1>2. \/ tab[t].request # None /\ RespondError(t, "NoPassive")
        \/ Fail(t) \/ ShowForm(t)
    BY DEF NoSession, StoreError, Passive
  <1>. QED BY <1>1, <1>2, ErrorStep, FailStep, FormStep

\* ServeIDPInitiated looks the service provider up.
LEMMA LookupStep ==
    ASSUME IInv, NEW t \in Tab, Lookup(t)
    PROVE  IInv'
  <1> DEFINE x == tab[t]
             md == registry[x.link.entity]
             acs == DefaultACSEndpoint(md)
  <1>1. UNCHANGED <<setting, now, registry, changes>> /\ Clocks'
    BY DEF Lookup, IInv, Clocks
  <1>2. Fine(x) /\ x.at = "lookup"
    BY DEF IInv, Lookup
  <1>3. x.link # None /\ x.link \in Link /\ x.request = None
    BY <1>2 DEF Fine, Shape, Judged
  <1>4. x.link.entity \in Entity
    BY <1>3, SettingOK
  <1>5. CASE Fail(t)
    BY <1>1, <1>5, FailStep
  <1>6. CASE md # None /\ acs # None /\ Finish(t, None, md, acs, x.link.relay, x.session)
    <2>1. md \in Registration /\ md.entity = x.link.entity
      BY <1>4, <1>6 DEF IInv, RegistryOK
    <2>2. acs \in PostEndpoints(md)
      BY <1>6, <2>1, SettingOK, DefaultIsPost
    <2> HIDE DEF md, acs
    <2>. QED BY <1>1, <1>3, <1>6, <2>1, <2>2, FinishStep
  <1>. QED BY <1>5, <1>6 DEF Lookup

\* The initial states.
LEMMA Starts == Init => IInv
  <1> SUFFICES ASSUME Init PROVE IInv
    OBVIOUS
  <1>1. RegistryOK
    BY DEF Init, RegistryOK
  <1>2. Clocks
    BY DEF Init, Clocks
  <1>3. /\ Idle.at = "idle" /\ Idle.link = None /\ Idle.message = None
        /\ Idle.credentials = None /\ Idle.request = None /\ Idle.arrived = 0
        /\ Idle.form = None
    BY DEF Idle
  <1>4. Fine(Idle)
    BY <1>2, <1>3 DEF Clocks, Fine, Shape, Judged, Resumes, AnswerOK
  <1>5. DOMAIN tab = Tab /\ \A t \in Tab : tab[t] = Idle
    BY DEF Init
  <1>. QED BY <1>1, <1>2, <1>4, <1>5 DEF IInv

\* Every step keeps the invariant.
LEMMA Kept == IInv /\ [Next]_vars => IInv'
  <1> SUFFICES ASSUME IInv, [Next]_vars PROVE IInv'
    OBVIOUS
  <1>1. CASE Tick
    <2>1. setting' = setting /\ now \in Nat /\ now' \in Nat /\ now <= now'
      BY <1>1, SettingOK DEF Tick
    <2>2. \A x : Fine(x) => Fine(x)'
      BY <2>1, FineStays
    <2>3. RegistryOK' /\ Clocks' /\ tab' = tab
      BY <1>1, <2>1 DEF Tick, IInv, RegistryOK, Registration, Clocks
    <2>. QED BY <2>2, <2>3 DEF IInv
  <1>2. CASE EndSession \/ UNCHANGED vars
    <2>1. UNCHANGED <<setting, now, registry, changes, tab>> /\ session' \in {session, None}
      BY <1>2 DEF EndSession, vars
    <2>2. \A x : Fine(x) => Fine(x)'
      BY <2>1, SettingOK, FineStays
    <2>3. RegistryOK' /\ Clocks'
      BY <2>1 DEF IInv, RegistryOK, Registration, Clocks
    <2>. QED BY <2>1, <2>2, <2>3 DEF IInv
  <1>3. ASSUME NEW e \in Entity, NEW md \in Registration \cup {None}, ChangeRegistry(e, md)
        PROVE  IInv'
    <2>1. /\ UNCHANGED <<setting, now, session, tab>> /\ changes' = changes + 1
          /\ registry' = [registry EXCEPT ![e] = md] /\ (md # None => md.entity = e)
      BY <1>3 DEF ChangeRegistry
    <2>2. \A x : Fine(x) => Fine(x)'
      BY <2>1, SettingOK, FineStays
    <2>3. RegistryOK'
      BY <2>1 DEF IInv, RegistryOK, Registration
    <2>4. Clocks'
      BY <2>1 DEF IInv, Clocks
    <2>. QED BY <2>1, <2>2, <2>3, <2>4 DEF IInv
  <1>4. ASSUME NEW t \in Settings[setting].tabs,
               \/ \E m \in Message : Receive(t, m)
               \/ \E link \in Link : FollowLink(t, link)
               \/ \E c \in Credentials : SubmitForm(t, c) \/ SubmitLinkForm(t, c)
               \/ UseSession(t) \/ NoSession(t) \/ StoreError(t) \/ Lookup(t) \/ Close(t)
        PROVE  IInv'
    <2>1. t \in Tab
      BY SettingOK
    <2>2. CASE Close(t)
      <3>1. Fail(t) /\ UNCHANGED <<setting, now, registry, changes>> /\ Clocks'
        BY <2>2 DEF Close, Fail, IInv, Clocks
      <3>. QED BY <2>1, <3>1, FailStep
    <2>. QED BY <1>4, <2>1, <2>2, ReceiveStep, SubmitStep, LinkStep, UseStep, NoSessionStep,
                LookupStep
  <1>. QED BY <1>1, <1>2, <1>3, <1>4 DEF Next

\* The invariant holds in every state the program reaches.
LEMMA Invariant == Spec => []IInv
  BY Starts, Kept, PTL DEF Spec

-----------------------------------------------------------------------------
\* What Validate has made sure of.

\* The request that is acted on is of the issuer whose metadata was used, is for this
\* identity provider, and was neither old nor of the future.
LEMMA ValidRequest ==
    ASSUME NEW md, NEW m, NEW n, Validate(Self, md, m, n)
    PROVE  LET q == VerifiedRequest(m) IN
           /\ q.issuer = m.request.issuer
           /\ q.destination \in {None, "sso"}
           /\ n <= q.issueInstant + Self.maxAge
           /\ q.issueInstant <= n + MaxClockSkew
  <1>1. CheckRequest(Self, m.request, n) /\ VerifySignature(Self, md, m, n)
    BY DEF Validate
  <1>2. CASE m.signature = NoSignature
    BY <1>1, <1>2 DEF VerifiedRequest, CheckRequest
  <1>3. CASE m.signature # NoSignature
    <2>1. CheckRequest(Self, m.signature.covers, n) /\ m.signature.covers.issuer = m.request.issuer
      BY <1>1, <1>3 DEF VerifySignature, IsSigned
    <2>. QED BY <1>3, <2>1 DEF VerifiedRequest, CheckRequest
  <1>. QED BY <1>2, <1>3

-----------------------------------------------------------------------------
\* What the identity provider promises.

\* The variables keep their types, and a request that waits has its endpoint.
THEOREM TypeCorrect == Spec => []TypeOK
  <1>1. IInv => TypeOK
    <2> SUFFICES ASSUME IInv PROVE TypeOK
      OBVIOUS
    <2>1. ASSUME NEW t \in Tab
          PROVE  /\ tab[t].at \in {"idle", "get_session", "lookup", "form", "answered", "refused"}
                 /\ tab[t].link \in Link \cup {None}
                 /\ tab[t].message \in Message \cup {None}
                 /\ tab[t].credentials \in Credentials \cup {None}
                 /\ tab[t].at = "get_session" /\ tab[t].link = None =>
                       tab[t].md \in Registration /\ tab[t].acs \in PostEndpoints(tab[t].md)
      <3>1. Fine(tab[t])
        BY DEF IInv
      <3>2. tab[t].at = "get_session" /\ tab[t].link = None => tab[t].request # None
        BY <3>1 DEF Fine, Shape
      <3>. QED BY <3>1, <3>2, EndpointOfRequest DEF Fine, Shape
    <2>. QED BY <2>1 DEF TypeOK, IInv, RegistryOK, Clocks
  <1>. QED BY <1>1, Invariant, PTL

\* WriteResponse posts to the endpoint getACSEndpoint has found in the metadata of the
\* service provider that asked, and MakeAssertion makes the assertion for it.
THEOREM GoesToRequester == Spec => []DeliveredToRequester
  <1>1. ASSUME IInv, NEW t \in Tab, Answered(t)
        PROVE  LET answer == tab[t].answer
                   md == tab[t].md
                   q == tab[t].request
                   named(e) == q = None \/ \/ q.acsIndex = None /\ q.acsURL = None
                                           \/ q.acsIndex # None /\ q.acsIndex = e.index
                                           \/ q.acsURL # None /\ q.acsURL = e.location
               IN
               /\ md.entity = IF q = None THEN tab[t].link.entity ELSE q.issuer
               /\ \E i \in DOMAIN md.descriptors : \E j \in DOMAIN md.descriptors[i].acs :
                     LET e == md.descriptors[i].acs[j] IN
                     e.binding = "post" /\ e.location = answer.url /\ named(e)
               /\ Asserted(t) => /\ answer.assertion.audience = md.entity
                                 /\ answer.assertion.recipient = answer.url
    <2> DEFINE x == tab[t]
               e == Endpoint(x.md, x.acs)
    <2>1. Fine(x) /\ x.at = "answered"
      BY <1>1 DEF IInv, Answered
    <2>2. /\ x.md \in Registration /\ x.acs \in PostEndpoints(x.md) /\ x.answer.url = e.location
          /\ x.request = None => x.md.entity = x.link.entity
          /\ x.answer.assertion # None => Granted(x)
      BY <2>1 DEF Fine, AnswerOK
    <2>3. MetadataOK(x.md)
      BY <1>1, <2>2, SettingOK
    <2>4. x.request # None =>
             /\ Validate(Self, x.md, x.message, x.arrived)
             /\ x.request = VerifiedRequest(x.message)
             /\ x.md.entity = x.message.request.issuer
             /\ x.acs = ACSEndpoint(x.md, x.request) /\ x.acs # None
      BY <2>1 DEF Fine, Judged, Validate
    <2>5. x.request # None => x.md.entity = x.request.issuer
      BY <2>4, ValidRequest
    <2>6. x.request = None \/ \/ x.request.acsIndex = None /\ x.request.acsURL = None
                              \/ x.request.acsIndex # None /\ x.request.acsIndex = e.index
                              \/ x.request.acsURL # None /\ x.request.acsURL = e.location
      BY <2>3, <2>4, EndpointNamed
    <2>7. /\ x.acs[1] \in DOMAIN x.md.descriptors
          /\ x.acs[2] \in DOMAIN x.md.descriptors[x.acs[1]].acs
          /\ e.binding = "post" /\ e = x.md.descriptors[x.acs[1]].acs[x.acs[2]]
      BY <2>2, <2>3, Places DEF Endpoint
    <2>8. Asserted(t) => /\ x.answer.assertion.audience = x.md.entity
                         /\ x.answer.assertion.recipient = x.answer.url
      BY <2>2 DEF Asserted, Granted
    <2> HIDE DEF e
    <2>. QED BY <2>2, <2>5, <2>6, <2>7, <2>8
  <1>2. IInv => DeliveredToRequester
    BY <1>1 DEF DeliveredToRequester
  <1>. QED BY <1>2, Invariant, PTL

\* getSession does not satisfy ForceAuthn with a session that exists.
THEOREM ForcedIsFresh == Spec => []ForcedFresh
  <1>1. IInv => ForcedFresh
    BY DEF IInv, Fine, AnswerOK, Granted, ForcedFresh, Asserted, Answered
  <1>. QED BY <1>1, Invariant, PTL

\* verifyAuthnRequestSignature and useVerifiedRequest: what is answered is what was
\* signed by the service provider.
THEOREM OnlyAsSigned == Spec => []AnsweredAsSigned
  <1>1. ASSUME IInv, NEW t \in Tab, Answered(t), tab[t].request # None
        PROVE  LET m == tab[t].message
                   md == tab[t].md
                   key(k) == \E i \in DOMAIN md.descriptors :
                                \E j \in DOMAIN md.descriptors[i].keys :
                                   md.descriptors[i].keys[j].use # "encryption"
                                     /\ md.descriptors[i].keys[j].cert = k
                   signs == \E i \in DOMAIN md.descriptors : md.descriptors[i].signs
               IN
               /\ m.signature # NoSignature =>
                    key(m.signature.key) /\ tab[t].request = m.signature.covers
               /\ m.query # NoSignature => key(m.query.key) /\ m.query.intact
               /\ Self.wantSigned \/ signs => m.signature # NoSignature \/ m.query # NoSignature
    <2> DEFINE m == tab[t].message
               md == tab[t].md
               key(k) == \E i \in DOMAIN md.descriptors :
                            \E j \in DOMAIN md.descriptors[i].keys :
                               md.descriptors[i].keys[j].use # "encryption"
                                 /\ md.descriptors[i].keys[j].cert = k
    <2>1. VerifySignature(Self, md, m, tab[t].arrived) /\ tab[t].request = VerifiedRequest(m)
      BY <1>1 DEF IInv, Fine, Judged, Validate
    <2> HIDE DEF m, md
    <2>2. \A k \in SigningCertificates(md) : key(k)
      BY DEF SigningCertificates, Keys
    <2>3. m.signature # NoSignature => key(m.signature.key) /\ tab[t].request = m.signature.covers
      BY <2>1, <2>2 DEF VerifySignature, IsSigned, ValidEnveloped, VerifiedRequest
    <2>4. m.query # NoSignature => key(m.query.key) /\ m.query.intact
      BY <2>1, <2>2 DEF VerifySignature, IsSigned, ValidQuery
    <2>5. Self.wantSigned \/ SignsAuthnRequests(md)
            => m.signature # NoSignature \/ m.query # NoSignature
      BY <2>1 DEF VerifySignature, IsSigned
    <2>. QED BY <2>3, <2>4, <2>5 DEF m, md, SignsAuthnRequests
  <1>2. IInv => AnsweredAsSigned
    BY <1>1 DEF AnsweredAsSigned
  <1>. QED BY <1>2, Invariant, PTL

\* checkRequest, of what was read and again of what the signature covers.
THEOREM OnlyInTime == Spec => []AnsweredInTime
  <1>1. ASSUME IInv, NEW t \in Tab, tab[t].request # None
        PROVE  /\ tab[t].request.destination \in {None, "sso"}
               /\ tab[t].arrived <= tab[t].request.issueInstant + Self.maxAge
               /\ tab[t].request.issueInstant <= tab[t].arrived + MaxClockSkew
    <2>1. /\ Validate(Self, tab[t].md, tab[t].message, tab[t].arrived)
          /\ tab[t].request = VerifiedRequest(tab[t].message)
      BY <1>1 DEF IInv, Fine, Judged
    <2>. QED BY <2>1, ValidRequest
  <1>2. IInv => AnsweredInTime
    BY <1>1 DEF AnsweredInTime
  <1>. QED BY <1>2, Invariant, PTL

\* getSPEncryptionCert: no assertion is in the clear if it could be encrypted.
THEOREM KeptConfidential == Spec => []Confidential
  <1>1. ASSUME IInv, NEW t \in Tab, Asserted(t)
        PROVE  LET md == tab[t].md
                   key(i, j) == md.descriptors[i].keys[j]
               IN
               IF tab[t].answer.encryption = "plain"
               THEN \A i \in DOMAIN md.descriptors : \A j \in DOMAIN md.descriptors[i].keys :
                       key(i, j).use = "signing"
               ELSE \E i \in DOMAIN md.descriptors : \E j \in DOMAIN md.descriptors[i].keys :
                       /\ key(i, j).use # "signing"
                       /\ key(i, j).cert = tab[t].answer.encryption
    <2>1. /\ tab[t].md \in Registration /\ tab[t].acs \in PostEndpoints(tab[t].md)
          /\ tab[t].answer.encryption = Encryption(tab[t].md, tab[t].acs)
          /\ tab[t].answer.encryption # "error"
      BY <1>1 DEF IInv, Fine, AnswerOK, Granted, Asserted, Answered
    <2>2. MetadataOK(tab[t].md)
      BY <1>1, <2>1, SettingOK
    <2>. QED BY <2>1, <2>2, EncryptionChosen
  <1>2. IInv => Confidential
    BY <1>1 DEF Confidential
  <1>. QED BY <1>2, Invariant, PTL

\* Validate refuses a message that it has accepted before, with the same metadata,
\* only if what was read or what was signed has grown too old.
LEMMA RefusedTooOld ==
    ASSUME NEW md, NEW m, MessageOK(m), NEW f \in Nat, NEW n \in Nat, f <= n,
           Validate(Self, md, m, f), ~Validate(Self, md, m, n)
    PROVE  \/ n > m.request.issueInstant + Self.maxAge
           \/ n > VerifiedRequest(m).issueInstant + Self.maxAge
  <1> SUFFICES ASSUME n <= m.request.issueInstant + Self.maxAge,
                      n <= VerifiedRequest(m).issueInstant + Self.maxAge
               PROVE  Validate(Self, md, m, n)
    BY SSOAssumption DEF MessageOK
  <1>1. ASSUME NEW q, q.issueInstant \in Int, n <= q.issueInstant + Self.maxAge,
               CheckRequest(Self, q, f)
        PROVE  CheckRequest(Self, q, n)
    BY <1>1, DelaysAssumption DEF CheckRequest
  <1>2. CheckRequest(Self, m.request, n)
    BY <1>1 DEF Validate, MessageOK
  <1>3. CASE m.signature = NoSignature
    BY <1>2, <1>3 DEF Validate, VerifySignature
  <1>4. CASE m.signature # NoSignature
    <2>1. VerifiedRequest(m) = m.signature.covers /\ CheckRequest(Self, m.signature.covers, f)
      BY <1>4 DEF VerifiedRequest, Validate, VerifySignature, IsSigned
    <2>2. CheckRequest(Self, m.signature.covers, n)
      BY <1>1, <2>1 DEF MessageOK
    <2>. QED BY <1>2, <1>4, <2>2 DEF Validate, VerifySignature
  <1>. QED BY <1>3, <1>4

\* sendLoginForm and NewIdpAuthnRequest: the login form leads back to the request,
\* signatures and all.
THEOREM FormsLeadBack == Spec => []FormsResume
  <1>1. ASSUME IInv, NEW t \in Tab, tab[t].at = "refused", tab[t].form # None,
               tab[t].md = tab[t].firstMd
        PROVE  \/ tab[t].arrived > tab[t].form.request.issueInstant + Self.maxAge
               \/ tab[t].arrived > VerifiedRequest(tab[t].form).issueInstant + Self.maxAge
    <2> DEFINE x == tab[t]
    <2>1. Fine(x)
      BY <1>1 DEF IInv
    <2>2. PICK m \in Message : /\ x.form = LoginForm(m) /\ Seen(m, x.firstMd, x.arrived)
                               /\ x.md # None => ~Validate(Self, x.md, m, x.arrived)
      BY <1>1, <2>1 DEF Fine, Resumes
    <2>3. MessageOK(m) /\ x.arrived \in Nat
      BY <1>1, <2>1, SettingOK DEF Fine, Shape
    <2>4. PICK f \in 0..x.arrived : Validate(Self, x.firstMd, m, f)
      BY <2>2 DEF Seen
    <2>5. ~Validate(Self, x.md, m, x.arrived) /\ Validate(Self, x.md, m, f)
      BY <1>1, <2>2, <2>4 DEF Seen
    <2>6. \/ x.arrived > m.request.issueInstant + Self.maxAge
          \/ x.arrived > VerifiedRequest(m).issueInstant + Self.maxAge
      BY <2>3, <2>5, RefusedTooOld
    <2>7. x.form.request = m.request /\ VerifiedRequest(x.form) = VerifiedRequest(m)
      BY <2>2 DEF LoginForm, VerifiedRequest
    <2>. QED BY <2>6, <2>7
  <1>2. IInv => FormsResume
    BY <1>1 DEF FormsResume
  <1>. QED BY <1>2, Invariant, PTL

\* EnforceAuthnContext lets only classes pass that rank as the comparison says.
LEMMA ContextMet ==
    ASSUME NEW context, NEW a, EnforceAuthnContext(Self, context, a)
    PROVE  LET rank(x) == IF x \in DOMAIN Self.strength THEN Self.strength[x] ELSE 0
               ranked(y) == {a.class, y} \subseteq DOMAIN Self.strength
           IN
           \E y \in context.classes :
              CASE context.comparison = "exact" -> a.class = y
                [] context.comparison = "minimum" ->
                      a.class = y \/ (ranked(y) /\ rank(a.class) >= rank(y))
                [] context.comparison = "maximum" ->
                      a.class = y \/ (ranked(y) /\ rank(a.class) <= rank(y))
                [] OTHER -> ranked(y) /\ rank(a.class) > rank(y)
  <1> DEFINE rank(x) == IF x \in DOMAIN Self.strength THEN Self.strength[x] ELSE 0
             ranked(y) == {a.class, y} \subseteq DOMAIN Self.strength
  <1>1. PICK y \in context.classes :
           Satisfies(Self.strength, context.comparison, a.class, y)
    BY DEF EnforceAuthnContext
  <1>2. \A u, v : Stronger(Self.strength, u, v) =>
           /\ u \in DOMAIN Self.strength /\ v \in DOMAIN Self.strength
           /\ rank(u) > rank(v) /\ rank(u) >= rank(v) /\ rank(v) <= rank(u)
    BY SSOAssumption DEF Stronger
  <1> HIDE DEF rank
  <1>3. CASE context.comparison = "exact"
    <2>1. a.class = y
      BY <1>1, <1>3 DEF Satisfies
    <2>. QED BY <1>3, <2>1
  <1>4. CASE context.comparison = "minimum"
    <2>1. a.class = y \/ Stronger(Self.strength, a.class, y)
      BY <1>1, <1>4 DEF Satisfies
    <2>2. a.class = y \/ (ranked(y) /\ rank(a.class) >= rank(y))
      BY <1>2, <2>1
    <2>. QED BY <1>4, <2>2 DEF rank
  <1>5. CASE context.comparison = "maximum"
    <2>1. a.class = y \/ Stronger(Self.strength, y, a.class)
      BY <1>1, <1>5 DEF Satisfies
    <2>2. a.class = y \/ (ranked(y) /\ rank(a.class) <= rank(y))
      BY <1>2, <2>1
    <2>. QED BY <1>5, <2>2 DEF rank
  <1>6. CASE context.comparison \notin {"exact", "minimum", "maximum"}
    <2>1. Stronger(Self.strength, a.class, y)
      BY <1>1, <1>6 DEF Satisfies
    <2>2. ranked(y) /\ rank(a.class) > rank(y)
      BY <1>2, <2>1
    <2>. QED BY <1>6, <2>2 DEF rank
  <1>. QED BY <1>3, <1>4, <1>5, <1>6

\* The enforcers of ServeSSO: an assertion that goes out is for the principal, in the
\* format and as strong as the request asks.
THEOREM RequestsMet == Spec => []MeetsRequest
  <1>1. ASSUME IInv, NEW t \in Tab, Asserted(t), tab[t].request # None
        PROVE  LET a == tab[t].answer.assertion
                   q == tab[t].request
                   rank(x) == IF x \in DOMAIN Self.strength THEN Self.strength[x] ELSE 0
                   ranked(y) == {a.class, y} \subseteq DOMAIN Self.strength
               IN
               /\ q.subject # None =>
                    /\ q.subject.nameID = a.nameID
                    /\ q.subject.format \in {None, "unspecified", a.format}
                    /\ q.subject.confirmations # {} =>
                         \E c \in q.subject.confirmations :
                            /\ c.bearer /\ c.recipient \in {None, a.recipient}
                            /\ c.inResponseTo \in {None, q.id}
               /\ q.policy # None => /\ q.policy.format \in {None, "unspecified", a.format}
                                     /\ q.policy.qualifier \in {None, a.qualifier}
               /\ q.context # None =>
                    \E y \in q.context.classes :
                       CASE q.context.comparison = "exact" -> a.class = y
                         [] q.context.comparison = "minimum" ->
                               a.class = y \/ (ranked(y) /\ rank(a.class) >= rank(y))
                         [] q.context.comparison = "maximum" ->
                               a.class = y \/ (ranked(y) /\ rank(a.class) <= rank(y))
                         [] OTHER -> ranked(y) /\ rank(a.class) > rank(y)
    <2> DEFINE a == tab[t].answer.assertion
               q == tab[t].request
    <2>1. a.inResponseTo = q.id /\ Status(Self, q, a) = "Success"
      BY <1>1 DEF IInv, Fine, AnswerOK, Granted, Asserted, Answered
    <2> HIDE DEF a, q
    <2>2. /\ q.subject # None => EnforceSubject(q.subject, a)
          /\ q.policy # None => EnforceNameIDPolicy(q.policy, a)
          /\ q.context # None => EnforceAuthnContext(Self, q.context, a)
      BY <2>1 DEF Status
    <2>3. q.subject # None =>
            /\ q.subject.nameID = a.nameID
            /\ q.subject.format \in {None, "unspecified", a.format}
            /\ q.subject.confirmations # {} =>
                 \E c \in q.subject.confirmations :
                    /\ c.bearer /\ c.recipient \in {None, a.recipient}
                    /\ c.inResponseTo \in {None, q.id}
      BY <2>1, <2>2 DEF EnforceSubject, SatisfiesConfirmationData, Given
    <2>4. q.policy # None => /\ q.policy.format \in {None, "unspecified", a.format}
                             /\ q.policy.qualifier \in {None, a.qualifier}
      BY <2>2 DEF EnforceNameIDPolicy, Given
    <2>. QED BY <2>2, <2>3, <2>4, ContextMet DEF a, q
  <1>2. IInv => MeetsRequest
    BY <1>1 DEF MeetsRequest
  <1>. QED BY <1>2, Invariant, PTL

=============================================================================
