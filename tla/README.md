# Verification of saml-provider

TLA+ models of the SAML service provider and identity provider in this
repository, TLC runs that check them on small instances, and TLAPS proofs of
what matters most for every size.  Paths are relative to `src/`.

## 1. The system

| Component | State | Operations | Talks to |
| --- | --- | --- | --- |
| `samlidp` users and sessions (`samlidp/user.go`, `session.go`, `store.go`) | `/users/` and `/sessions/` in the Store, `usersMu`, a session cookie in each browser | login, use of a session, logout, PUT and DELETE of a user, DELETE of a session | the SSO and SLO services call it as their SessionProvider |
| `samlidp` services and shortcuts (`samlidp/service.go`, `shortcut.go`, `util.go`, `samlidp.go`) | `/services/` and `/shortcuts/` in the Store, the maps `serviceProviders` and `serviceIDs`, `idpConfigMu` | PUT and DELETE of services and shortcuts, `GetServiceProvider`, start of the server | the SSO and SLO services ask it for metadata |
| `IdentityProvider` single sign-on (`identity_provider.go`, `identity_provider_signature.go`) | none of its own; the hidden fields of the login form carry a request over | `ServeSSO`, `ServeIDPInitiated` | service providers, through the browser |
| `IdentityProvider` single logout (`identity_provider_logout.go`) | none | `ServeSLO` | service providers, through the browser |
| `ServiceProvider` (`service_provider.go`) | none: pending request IDs are its caller's | `ParseResponse`, `ParseXMLResponse`, `ParseXMLArtifactResponse`, `MakeLogoutRequest`, `ValidateLogoutResponse…` | the identity provider, through the browser and by artifact resolution |
| `samlsp.Middleware` (`samlsp/*.go`) | none on the server: signed cookies for tracked requests and for the session | `RequireAccount`, `ServeACS`, `DeleteSession` | `ServiceProvider`; the browser |
| HTTP-Redirect binding (`service_provider.go`, `identity_provider_signature.go`, `flate.go`) | none | making, signing, reading and verifying the query of a URL; inflating under a limit | single sign-on and single logout |
| XML signatures (`internal/dsig`, `service_provider.go`, `identity_provider_signature.go`) | none | canonicalization, signing, validation, and the element that is left to read | all messages |
| XML encryption (`xmlenc`, `identity_provider.go`, `service_provider.go`) | none | choice of key and method, encryption, decryption | the assertion of a response |
| Encodings (`schema.go`, `metadata.go`, `duration.go`, `time.go`) | none | conversions between Go values and XML | all |
| Metadata fetching and size limits (`samlsp/fetch_metadata.go`, `flate.go`, `service_provider.go`) | none | one GET, reads under a limit and a timeout, a parse | start of a service provider; artifact resolution |

What is hard here: every HTTP request runs in its own goroutine, and a handler
makes several Store operations; the process may die between any two of them;
two tabs of a browser share cookies; everything between the two parties
goes through a browser, so that it arrives late, twice, in another browser, or
never; a login form suspends a request for as long as the user likes; clocks
and expiry dates meet all of these.  A message is read twice, once by the code that
verifies its signature and once by the code that uses it, and the two readers need
not agree; software on the way writes the same XML or the same query differently;
sizes meet limits, blocks and integer widths.  `PROJECT.json` lists each such place under
`hazards` with the properties that cover it.

What makes a component correct:

* users and sessions: emails are unique (an email is the NameID by which every
  service provider knows the user); a session that was ended, or whose user was
  changed, is never used again.
* services: the maps and the Store agree; a restart succeeds; expired metadata is
  not answered with.
* identity provider: an answer goes to an endpoint of the service provider that
  asked, encrypted if it has keys, and is what was asked for and signed.
* service provider: exactly the conforming responses are accepted, by the browser
  that asked, in time.
* logout: it ends the session of the one who asked, and is reported as done only
  when it is.
* redirect binding: what is processed is what was signed, and an honest change of
  the rest of the query does no harm.
* XML signatures: what is read from a verified element was signed by a trusted key
  and says what the signer said; rewriting that keeps the meaning keeps it valid.
* XML encryption: what is encrypted to a service provider that published its keys can
  be read by it, completely or not at all.
* encodings and reads: a value comes back as it was; a message is read whole or refused,
  within a bounded memory, and the read ends.

## 2. The modules

| Module | Models | Actions are |
| --- | --- | --- |
| `UserSessions` | users and sessions | one Store operation of a handler with the local computation up to the next |
| `ServiceRegistry` | services, shortcuts, `GetServiceProvider` | the same, and the steps of `idpConfigMu` |
| `ServiceDirectory` | what that registry promises: one table | the request, its one effect, and its answer |
| `SpResponse` | the checks of `ParseXMLResponse` and `ParseXMLArtifactResponse` | (operators) |
| `SpParse` | a service provider that decides on one message | the two ways of receiving one |
| `SpMiddleware` | `samlsp.Middleware`, browsers and tabs around `SpResponse` | one HTTP request or the delivery of its reply |
| `IdpRequest` | validation, endpoints, signatures, enforcers, assertion | (operators) |
| `IdpSSO` | `ServeSSO`, `ServeIDPInitiated`, the SessionProvider, tabs, on `IdpRequest` | the parts of a handler between which others can act |
| `SingleLogout` | `ServeSLO` and the service provider's side, on `IdpRequest` and `SpResponse` | one message handled |
| `RedirectBinding` | a message in a query, its detached signature and its two readers | sending, one change on the way, receiving |
| `XmlTree` | elements, namespace contexts, canonical forms, `unmarshalElement` | (operators) |
| `XmlSignature` | `internal/dsig` and its callers, on `XmlTree` | signing, one rewriting on the way, verifying |
| `AssertionEncryption` | `ServiceProvider.Metadata`, `contentEncryption`, `xmlenc`, `decryptElement` | publishing, encrypting, damage, decrypting |
| `BrowserMessage` | a message protected by a signature over its query or by encryption, composed of the two | those of the two |
| `MessageProtection` | the same with XML signatures as the third way | those of the three |
| `LimitedRead` | `flate.go` and the bodies of HTTP answers | one Read or one check |
| `Durations` | `duration.go`, `time.go`, and the attributes of `metadata.go` they write | one writing or reading |
| `MetadataFetch` | reading metadata and then its document, composed of the two | those of the two |
| `MC…` | | instances for TLC |
| `…Proofs` | | theorems about `UserSessions`, `ServiceRegistry`, `SpParse`, `SpMiddleware`, `IdpSSO`, `SingleLogout`, `BrowserMessage` and `MetadataFetch` |

**UserSessions.**  `users` and `sessions` are the Store, `usersMu` the slot that
holds the mutex, `pc[r]` the Store operation request `r` is about to make, `loc[r]`
its local variables.  `rand.Text` revisions and session IDs are counters, since only
their being fresh matters; a password stands for its hash.  `StoreError` is any
Store operation failing, `Crash` the death of the process, which keeps the Store
and the browsers' jars; `Start` is `New` with `checkUserEmails`.  `Bodies` are the users
an administrator may PUT, which lets an instance keep to the changes it is about, and
`Logouts` how a session may be ended.  `hist` is a history variable: what was stale
when a request began.

**ServiceRegistry.**  A writer announces itself (`Lock` called) and then waits for
readers; while it waits no new reader enters, as in `sync.RWMutex`, so that a
reader that took the lock twice could deadlock.  Metadata is its entity ID, its
expiry times and whether its keys have a known use; a body is one
`EntityDescriptor` or a group.  A RelayState is the sequence of its parts, because
the code puts a slash in front of a suffix.

**ServiceDirectory.**  One table; an accepted change takes effect at one instant
between its request and its answer, a lookup answers with the table of one such
instant, a restart forgets only the requests under way.  `ServiceRegistry` implements it
(`ImplementsDirectory`): the mapping takes `table` from the Store and `request[r]` from
`pc[r]` (`RequestOf`).  A change takes effect at the Store operation, and until the maps follow
`idpConfigMu` keeps lookups out; a lookup takes effect where it reads the map, and
`Current` is what is left of the metadata after expiry.

**SpResponse, SpParse.**  An element is a record of what the code reads; its
signature says which key made it, which certificate its KeyInfo holds, if any, and
whether the element is what was signed.  `VerifyCertificate` takes an embedded certificate
only if it is one of the identity provider's metadata, the only one of these
if there is none, and refuses one that has expired.
`ParseResponse` has the checks in the code's order, including that a bad signature
is acted on only after the attributes and the status.

**SpMiddleware.**  The server is stateless; `tracked[b]` and `token[b]` are the
cookies of browser `b`, with the attributes that decide which cookie replaces
which.  A request is handled with the cookies of the moment at which it is sent, its
reply is delivered (`Deliver`) or lost (`Lose`) later.  `Asks[t]` are the pages that are asked for
in tab `t`.  With `Revisits` a tab may
present a request to the identity provider once more; `DeleteSession` ends a session.  With the artifact binding
the handler waits in `Resolve` holding what it read before.  The identity provider
is external: `IdpAnswer` and `IdpInitiated` issue any signed response for any user,
and `PostAny` lets any tab post any of them.  It may return another RelayState than the
one it was given (`ChangedRelay`).  `HostOnlyApart` is a browser that keeps a cookie without
a Domain apart from one with the host as its Domain.

**IdpRequest, IdpSSO.**  A message is the request `encoding/xml` read, the content
its enveloped signature covers (which may be another), and a signature over the
redirect query.  `registry` stands for `GetServiceProvider` and `session` for what
`existingSession` returns; their details are those of `ServiceRegistry` and
`UserSessions`.  A setting, chosen at the start, fixes which registrations, messages and
links occur, so that one run covers several kinds of traffic without mixing them.

**SingleLogout.**  `requests` and `responses` hold every message sent, and strays;
any of them may arrive at any time and number.  `pending` are the
`possibleRequestIDs` of the application, which drops one that has been used.
`AnswerIdp` is the service provider's `LogoutResponse` to a request of its identity provider.

**RedirectBinding.**  A query is a sequence of pairs of a raw key and a raw value, each with
what it decodes to and how it is written.  `url.Values` and `redirectParameters` read
it differently, as in the code; the signature covers the raw values.  On the way
pairs are dropped, added, repeated, exchanged or written in another encoding.

**XmlTree, XmlSignature.**  A document is a tree with prefixes, declarations, attributes,
comments and split text, because a signature covers these and not the meaning.  The
signer's `SignEnveloped` and the validator's steps are followed in order: finding the
signature in the namespace context, reading `SignedInfo`, its canonical form, the
transforms, the digest, the certificate, the bytes that are read back.  Digests and
signatures are ideal: a digest is what was digested.  On the way, other software adds and
drops declarations, inserts comments, sets attributes, changes text, copies or moves
elements, or drops a KeyInfo.  `signed` records everything a key ever signed.

**AssertionEncryption.**  A buffer is what it holds and its length, a padded one its last
byte too; key and block sizes are the real ones.  `Stray` are the arrangements of
keys that other identity providers produce.

**BrowserMessage, MessageProtection, MetadataFetch.**  Compositions by `INSTANCE`: one message is
followed under one protection, and the two that use no trees are a module of their own, which can be
reasoned about; bytes that `FetchMetadata` has accepted become a document that is then
written and read as XML and as JSON in the Store.

**LimitedRead.**  An answer has a status, or there is none at all.  Bytes are counted, and a
Read returns some of what is left.
`saferFlateReader` refuses when the next buffer could pass its limit, before it reads.

**Durations.**  A text is the numbers before its designators; the units are parameters, so
that a narrow integer overflows at a few years where an `int64` of nanoseconds does at 292.
Seconds are read as a `float64`, which is exact up to a nanosecond below `Precise` (2^52 ns, 52
days), and for whole seconds below `PreciseWhole` (2^62 ns); beyond, `FloatProduct` is the set of
integers within the rounding of its two operations, and `ToDuration` either end of the
range for what is out of it, since Go leaves that conversion to the machine.

## 3. The runs

Constants are model values; sizes are the smallest at which the cases of the
hazards occur.  States are distinct states, times with two workers.

| Run | Instance | Shows | States |
| --- | --- | --- | --- |
| `MCUserSessions` | 2 concurrent requests, 1 browser, 2 users, 2 emails that may pass from one to the other, 2 sessions, 2 new revisions, 2 instants | `TypeOK`, `NoStaleSession`, `OneUserPerNameID`, `RefusedForever` | 3.7 M, 170 s |
| `MCUserEmails` | 2 requests, 2 users, emails `a` and `A` which fold to one, empty store or one that is refused, 2 new revisions, no logins | `EmailsUnique`, `RequestsFinish` | 368 k, 140 s |
| `MCServiceRegistry` | 2 requests, 2 services, 2 entity IDs, 1 shortcut, 4 instants, 5 documents | `RegistryMatchesStore`, `RestartAccepted`, `NoExpiredAnswer`, `RequestsFinish`, `ImplementsDirectory` (the refinement of `ServiceDirectory`) | 156 k, 52 s |
| `MCSpParse` | 14 816 messages and configurations: every signature combined with each deviation, and embedded certificates that are missing or of another key; one or two certificates in the metadata, or an expired one | `OutermostSignatureValid`, `AcceptedIffConforming` | 30 k, 25 s |
| `MCSpArtifact` | 2 browsers, both bindings, IdP-initiated flows, 1 request and 1 unsolicited response, 2 pages of which one is not local, a RelayState that may come back changed, lost replies, host-only cookies kept apart, session Path `/app` | `SessionsSolicited`, `SessionsTimely` | 2.4 M, 75 s |
| `MCSpTabs` | 2 tabs of one browser that ask for different pages, one of them not local, 2 requests that may be presented again, answers that may come back with the RelayState of the other tab, no IdP-initiated flows, host-only cookies kept apart, session Path `/app`, sessions that are deleted | `FlowsIndependent`, `RedirectsOwnPages`, `FlowsEnd` | 163 k, 130 s |
| `MCIdp` | two settings: 1 tab, about 80 messages signed in every way or with every demand, 7 registrations, 3 users, 1 change of the registry, 4 instants; 2 tabs, 2 users, 5 requests, 2 links | `DeliveredToRequester`, `Confidential`, `MeetsRequest`, `AnsweredAsSigned`, `AnsweredInTime`, `FormsResume`, `ForcedFresh` | 1.5 M, 51 s |
| `MCLogout` | 2 service providers, 2 users, 2 requests, strays and a request of the identity provider, failures, 3 instants | `DoneMeansEnded`, `EndedOnRequest` | 557 k, 100 s |
| `MCLogoutLiveness` | 1 service provider, 2 requests | `LogoutCompletes` | 11 k, 55 s |
| `MCProtection` | queries: 3 keys of two types, one expired, 2 changes on the way; XML: three settings (keys and both readers; other canonicalizations; two rewritings near the limit); encryption: lengths around the block boundaries, 6 foreign and all own descriptors, one of them with an intermediate certificate, 36 arrangements of keys | `ProcessedIsSigned`, `SignedArrives`, `VerifiedWasSigned`, `RewritingHarmless`, `Readable`, `ReadsWhole` | 904 k, 140 s |
| `MCMetadata` | sizes around limits 3 and 8, buffers up to 9, statuses and no answer; durations of 10 bits, all of them, and texts that overflow or have seconds beyond what a float holds exactly; 2 rounds of writing and reading | `WholeOrRefused`, `Survives`, `ReadsEnd`, `ReadAsDenoted` | 69 k, 12 s |
| `MCHashRetained` | violation, see section 6 | `HashRetained` | |

Why the bounds suffice.  A race between handlers is between two Store operations of
one and a change by another, so two concurrent requests, each of which may be followed
by more in the same slot, reach it.  Two revisions let a user be changed, deleted and
created again.  In the safety runs the clock runs past every limit that the run's
properties name; `MCSpTabs` and `MCLogoutLiveness` never let it pass `MaxIssueDelay`,
the condition under which their liveness properties promise an end, and leave the
limits to `MCSpArtifact` and `MCLogout`.  A bound only keeps new work from starting: at `MaxRevision`
or `MaxSessions` a request can still end by `StoreError`.  `CHECK_DEADLOCK FALSE`
is set only where a bounded instance ends for that reason.  `MCUserSessions` and
`MCHashRetained` permute slots, and `MCSpArtifact` its browsers, which nothing tells
apart; runs with a liveness property use no symmetry.  Limits are scaled down where
only the order of sizes matters: a namespace context may visit 27 elements in one
setting of `MCProtection` and 60, which is never reached, in the others (1000 in the
code); `flateUncompressLimit` is 8 and the size limit 3 in `MCMetadata`, where buffers are
smaller than, between and larger than both; a duration has 10 bits and a day eight
seconds of ten nanoseconds, so that hundreds of texts overflow in a product or in a sum, and
a float of seconds is exact below 64 and, for whole seconds, below 256 of the 511 nanoseconds.  One change of
a query or of XML shows each kind, two show a change that prepares another.

Fairness.  `UserSessions` and `ServiceRegistry` assume that goroutines keep
running (weak fairness of a handler's steps) and that a waiting `Lock` is
not passed over for ever: `sync.Mutex` switches to starvation mode after a
millisecond, and `sync.RWMutex` stops new readers for a waiting writer and lets
waiting readers in at its `Unlock`; hence strong fairness of acquiring.
`SpMiddleware` assumes that a browser follows redirects, and that the identity
provider answers; its liveness run has no losses.  `SingleLogout` assumes that the
browser carries each message to its end.  `LimitedRead` assumes that reads from memory,
the checks and a timer make progress; an answer of a peer need never come, and
`ReadsEnd` promises an end only where a timeout or the data ensures one.  Nothing is assumed of crashes, logins or
the arrival of requests.

Some properties are conjunctions of parts that a reader may want one by one:
`WholeOrRefused` contains `MemoryBounded` and `RefusedForCause`; `Survives` is `TimesSettle`,
`CacheNear` and `RolesKept`; `VerifiedWasSigned` of `MessageProtection` and `Readable` and `ReadsWhole` of `BrowserMessage`
contain `RemainingCovered`, `MethodOfTheKey` and `KeysFit`.  The type invariants of
`ServiceRegistry`, `SpMiddleware`, `IdpSSO` and `SingleLogout` are proved (section 4); only
that of `UserSessions` is also part of a run.

Every property of a passing run has a mutant of a mapped definition, in the module
beside the definition, for which TLC finds the property violated.

## 4. What is proved

`UserSessionsProofs`, for any sets of slots, users, emails, browsers and any bounds,
from `ConstantsAssumption` (the special values differ from the ordinary ones, the
initial store has users of revision 0):

* `TypeCorrect`: `TypeOK`, with `Control`, what a handler holds at each point.
* `EmailsStayUnique`: `EmailsUnique`.  It is not inductive: between the scan of the other
  users and the write of its own a PUT relies on what it has seen.  `EInv` adds
  `Exclusion` (a PUT between the scan and the write holds `usersMu`) and `EmailFree` (no
  user already scanned, and none stored since, has the email).  Only `PutUser` writes
  an email, so `DeleteUser`, which takes no lock, does no harm.
* `NoStaleSessions`, `RefusedStaysRefused`: `NoStaleSession` and `RefusedForever`.  `SInv`
  adds `Revisions` (what is in the Store was drawn before) and `Freshness` (so was what
  a handler holds; what was over when its request began is still over; a session about
  to be matched with its user does not match it if it was over).  `Effect` bounds what
  any step does to the Store, and carries `Freshness` across the steps of other slots.
* `NameIDsOfOneUser`: `OneUserPerNameID`.  `NInv` joins both with `Links` (a session, and a
  login about to store one, has the email of its revision) and `Unstarted` (a server
  that is refused has no sessions: `EmailsUnique` lets every later start succeed).

`SpParseProofs`, for any set of messages that satisfies `MessageAssumption` (their shape):

* `AcceptsConforming`: `AcceptedIffConforming`, both directions.  `ParseResponseAccepts`
  and `ArtifactAccepts` turn the ordered checks into a conjunction and show that the
  first acceptable assertion exists; `ConformsIsValid` and `GoodIsAcceptable` relate
  them with the profile, by the three ways in which the outermost signature is found.
* `AcceptedIsSigned`: `OutermostSignatureValid`, a consequence.

`ServiceRegistryProofs`, for any sets of slots, services, entity IDs and documents, from
`RegistryAssumption` (the shape of documents; a single `EntityDescriptor` is of no group):

* `TypeCorrect`: `TypeOK`, with `Control`, what a handler holds at each point.
* `MapsFollowStore`, `RestartSucceeds`: `RegistryMatchesStore` and `RestartAccepted`.  `RInv`
  adds `Mutex` (the handler between `Lock` and `Unlock` is the writer, and there are no readers
  once it touches the Store) and `Registry`: outside the window between a Store
  operation and the maps the two agree, and in it they differ by the one record the
  writer holds.  A crash in the window loses the maps, and the restart rebuilds them.
* `AnswersUnexpired`: `NoExpiredAnswer`.  `Covered` adds that metadata in the Store and the maps never
  outlives the group it came from; without it the expiry of a group would be lost.
* `RegistryImplementsDirectory`: `ImplementsDirectory`, the safety part of the refinement.  Each
  step maps to a step of `ServiceDirectory` or a stutter: a change to the one at its Store
  operation, a lookup to the one where it reads the maps, which by `RInv` are the table
  then.

`SpMiddlewareProofs`, for any numbers of browsers, tabs, requests, responses and users, any
delays and every configuration that `MiddlewareAssumption` and `AbsentAssumption` allow (the
shape of the constants; absent values are none of the others).  The identity provider is the
external one of the model: it signs, and answers whatever it likes.

* `OnlySolicited`, `OnlyInTime`, `OnlyOwnPages`, `TypeCorrect`.  `MInv` says where everything a browser, a
  tab or a reply holds comes from: cookies from requests of that browser (`Jars`, `Requests`), responses
  from the identity provider (`Issued`), and what `Resolve` holds while it waits, from cookies that
  were valid when it began (`TabOK`).  `ResponseOutcome` reduces `ParseResponse` to three conditions.
  None of them restricts the browser or the attributes of the cookies: a cookie that should have been
  cleared and stays (section 6) is harmless to them.  `OnlyOwnPages` says that a user lands on a local page or the
  default one; that a request which is stopped is this browser's, and its page the one where the user
  lands, also when the RelayState names the request of another tab; and that any other page takes
  `AllowIDPInitiated`.
* `FlowsApart`: `FlowsIndependent` without a `RelayStateFunc` (`FixedIndex = None`).  With one that always returns
  the same value the flows share one cookie, and a later one replaces an earlier one.
  `FInv` adds that the cookie of a request that was sent is in the jar until it is stopped or
  expires (`CookiesKept`), and that a tab at the identity provider got there with it.

`IdpSSOProofs`, for any registrations, messages, users, links, settings and tabs that satisfy
`SSOAssumption` (their shape; an absent value is no entity or user):

* `GoesToRequester`, `ForcedIsFresh`, `OnlyAsSigned`, `OnlyInTime`, `KeptConfidential`, `FormsLeadBack`,
  `RequestsMet` and `TypeCorrect`, the seven invariants of `MCIdp` and the type.  `IInv` gives each tab `Shape`,
  `Judged` (the request it acts on was valid when it arrived, with metadata its issuer was
  registered with then), `Resumes` (what the login form holds was valid when it was
  first seen) and `AnswerOK` (an answer is what the validated request and the
  registered metadata give).  The lemmas about `ACSEndpoint`, `FirstPlace` and
  `Encryption` say what the choices from metadata return, for metadata of any size.

`SingleLogoutProofs`, from `LogoutAssumption` (shapes) and `PartiesAssumption`: nobody else makes a
success that the service provider takes for its identity provider's, and no other
service provider is registered to be answered at its URL.  These are conditions of a deployment, which the
library cannot check; without either the property is false.

* `LogoutIsReal`: `DoneMeansEnded`.  `LInv` adds `AnswersTrue`: every response that may arrive
  and would count as a success answers a request that has been served.  `Terminated`
  shows that `TerminateSession` reports success only if no session is left;
  `AnswersTheIssuer`, that only the issuer of a request is answered.
* `OnlyOnRequest`: the action property `EndedOnRequest`.
* `TypeCorrect`: no logout is both pending and done.

`BrowserMessageProofs`, the signature over a query, for any messages, keys, certificates and destinations,
and any number of changes to the query, from `KeyTypes` and `OwnParameters` (an endpoint's own
parameters are not SAML's):

* `OnlyWhatWasSigned`: `ProcessedIsSigned`.  `RInv` adds `Genuine` (the only signature in the query is the
  sender's).  `TextTells` shows that the signed text determines the message and the RelayState;
  `SameValue`, that the two readers agree on a parameter that occurs once.
* `SignedGetsThrough`: `SignedArrives`.  `Carries` says that a query that was not altered has each
  parameter of the message once and as it was sent; it survives exchanging, adding, rewriting and
  dropping unrelated pairs.
* `SignedWhateverArrives`: both, of `Browser`.

and encryption, for any configurations, metadata, RSA keys and lengths of assertions, and any messages of
other identity providers, from `EncryptionAssumption`: their shapes, that an assertion is not
empty (section 6), that RSA is the last of the nested layers (the code would not look at one
inside it), and that a
message of another identity provider holds its assertion in its first layer.

* `EncryptedIsReadable`: `Readable`, with `MethodOfTheKey`.  `EInv` says where a message comes from: it is an
  answer that was not encrypted, or there is a sound message (`Sound`) of which it is a faithful or a
  once damaged copy (`Arrived`), and for an answer of this identity provider that is the one
  `MakeAssertionEl` makes for the metadata.  The property does not carry itself: once a message has
  been damaged, nothing else ties it to what was sent.  `Answered` shows that the chosen descriptor's key and the
  chosen method belong together, for metadata of any length; `Encrypted`, that both layers are read
  back; `Padded`, that stripping undoes padding for every length and both block sizes.
* `NothingBeyondTheBlocks`: `ReadsWhole`, with `KeysFit`.  `Decrypt` is a recursive function over the layers.
  `KeysExist` shows that this function exists for any number of layers, by a least counterexample,
  and `Unfolds` gives its equations; `LayersRead` then follows an error, and the lengths of the keys, through
  the layers, and `DamagedRead` bounds what CBC without a digest can return.

The steps of `MessageProtection` are those of `Browser`, or XML steps that leave its variables as they are,
so that these theorems hold of it too; they are stated of `Browser` because `MessageProtection` reaches
recursive operators.

`MetadataFetchProofs`, for any sizes, buffers and limits with `MaxSize` below the limit of `flate.go`
(`LimitAssumption`), any units and any width of integers (`DurationAssumption`) and any documents of the
shapes in `DocumentAssumption`:

* `ReadsWholeOrRefuses`: `WholeOrRefused`.  `LInv` bounds what has been read in each state of a read, and says
  why a read has ended.
* `MetadataSurvives`: `Survives`.  `DocumentInv` says that the metadata in memory is `Near` to what it was at first,
  by at most one nanosecond for each time it was written, and that a file is what some such metadata is
  written as.  `InUnits` takes a duration apart into its units, `Wraps` and `UnmarshalNear` show that the
  products and sums modulo 2^`Width` come back to a duration that fits, `RoundTrip` and `RoundNear` join them.
* `ReadsWhatIsDenoted`: the action property `ReadAsDenoted`.  What is read differs from what the text denotes
  by at most `Loss`, one nanosecond and one for each `Precise` of the seconds (`SecondsNear`, `SumNear`), if that
  fits with room for the loss; and by as much modulo 2^`Width` (`WrapsWhole`, `RestBelow`) if it does not.

Exponentiation is unknown to the provers: `DurationAssumption` therefore states the one fact about
2^`Width` that is needed, which TLC evaluates.  It also says how the limits of a float lie: a minute is below
`Precise`, so that the seconds `MarshalText` writes lose a nanosecond at most, and what is no float at all
(`MaxFloat`) fits no duration.

Only model-checked:

* liveness (`RequestsFinish`, `FlowsEnd`, `LogoutCompletes`, `ReadsEnd`): fairness and ENABLED are
  beyond the prover;
* `VerifiedWasSigned` and `RewritingHarmless`: trees need recursive operators and induction over data;
* `HashRetained`, which is false (section 6).

## 5. What is not modelled

* The cryptography below `xmlenc` and `internal/dsig`: ciphers, digests and signatures are
  ideal.  In `IdpSSO`, `SpParse`, `SpMiddleware` and `SingleLogout` the outcome of a
  signature or a decryption is a field of a message; how it comes about is in
  `MessageProtection`.
* In `internal/dsig`: Canonical XML 1.0, which copies attributes of ancestors and which
  neither party writes, and ID attributes of another name.
* `schema.go` and most of `metadata.go`: they write fields in a fixed order and read them
  back, which no property here is about.  `checkEndpointLocation` parses URLs character
  by character; the locations in the models are ones it accepts.  `ParseMetadata` takes
  one entity out of a document and keeps no state.
* Handlers that only read (`HandleListUsers`, `HandleGetUser` and their like).
* The `ValidateRequestID` hook, custom AssertionHandlers and request trackers, and a
  failing JWT signature in `CreateSession`.
* The logger, the helpers of the tests and the example programs.

## 6. What the code does otherwise than it says

One run is kept for a disagreement (`findings` in `PROJECT.json`):

* `MCHashRetained`: `HandleDeleteUser` (`samlidp/user.go:145`) takes no `usersMu`, so that a
  DELETE between the read of the old hash (`:114`) and the Put (`:129`) of a PUT
  without a password leaves a user with the deleted password, although
  "HashedPassword retains it's stored value" (`:76`).

Others that TLC found or that were met while modelling; no run is kept for them:

* `identity_provider.go:200`: with the `minimum` comparison a different class of the same
  strength is refused, although the class must be "at least as strong as" a requested
  one (`:187`) and "Classes may share a value" (`:180`).
* `service_provider.go:390` sends a LogoutResponse to the Location of the endpoint of the
  identity provider, also where its metadata has a ResponseLocation.
* `service_provider.go:1957`: what a configured `SignatureVerifier` accepts is read from the
  element itself, and `elementToBytes` declares the prefixes of elements, not those that
  only attributes use.
* `identity_provider.go:1531` expects one certificate; with `Intermediates` configured, the
  metadata of this code's own service provider has several in one key descriptor, and is
  answered with an error; `Readable` promises an answer for `intermediates = 0`.
* `duration.go:124` computes the seconds through a float and may lose a nanosecond, and more
  from 2^52 ns on: `PT1000000000.000000050S` is read 50 ns short.  `:84` multiplies and adds
  without a check, so that a long duration wraps around.  `ReadAsDenoted` states how far either goes.  A zero duration behind a
  pointer is written as an empty text, which is not read back, and the most negative
  one as `-PT`.
* `flate.go:21` compares the limit with what the buffer could hold, before it knows how much
  is left, so that a LogoutResponse below the limit may be refused.  `RefusedForCause` shows that
  readers with a smaller limit of their own are not affected.
* In `xmlenc` an empty plaintext does not survive CBC, and `OAEP_SHA256` and `OAEP_SHA512`
  can encrypt a key but are not among the registered decrypters (`pubkey.go:206`).

* `samlidp/shortcut.go:123` puts a slash in front of the suffix; the comment at `:24-26`
  promises a RelayState of "foo" for `/login/myservice/foo`.
* `service_provider.go:1070` returns `ErrBadStatus` before looking at any assertion;
  `:744-745` says "when the assertion provided is valid but the status code is not".
* `samlsp/middleware.go:95` accepts a response to any tracked request; `:29-31` suggests
  that the one the RelayState names is used to validate the ID.
* `samlsp/request_tracker_cookie.go:68` clears with a Domain a cookie that was set without
  (`:47-55`).  Browsers keep the two apart (`HostOnlyApart = TRUE`), so that `StopTrackingRequest`,
  which "stops tracking the SAML request given by index" (`:60`), leaves the request tracked until
  its cookie expires, and a second response to it is accepted.
* `samlsp/session_cookie.go:84` clears the session with Path `/` whatever Path it was
  set with (`:47-60`): with another one, the user is still logged in after a `DeleteSession` that
  is to "modify the response such that it removed the current session" (`:65-66`).
  `MCSpArtifact` and `MCSpTabs` are run with such a browser and such a Path: `SessionsTimely` is
  what limits the use of a request that stays tracked.
* `identity_provider.go:432` says "we must check that the request ID has not been
  previously issued"; nothing does, so a request is answered as often as it arrives.

## 7. Plan

1. `WebSSO`, composing `IdpSSO` with `SpMiddleware` in place of the external parties of each,
   and an abstract specification of web sign-on (a browser is logged in at a service
   provider as the user who authenticated, at its request) that it implements.
2. Proofs about the canonical forms of `XmlTree`, once the provers take induction over trees: first that
   a canonical form does not depend on the declarations a rewriting adds or drops.
