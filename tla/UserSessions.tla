---------------------------- MODULE UserSessions ----------------------------
(***************************************************************************)
(* Users and login sessions of the samlidp server: samlidp/user.go,        *)
(* samlidp/session.go and the Store they share (samlidp/store.go,          *)
(* samlidp/memory_store.go).                                               *)
(*                                                                         *)
(* net/http runs every request in a goroutine of its own, a Slot here.     *)
(* Handlers share only the Store, whose operations are atomic, and the     *)
(* mutex usersMu, which HandlePutUser alone takes.  An action is therefore *)
(* one Store operation together with the local computation up to the next  *)
(* one; two handlers interleave between any two Store operations.          *)
(*                                                                         *)
(* Random values are represented by counters: a revision (rand.Text) by    *)
(* nextRev, a session identifier and the session index drawn with it by    *)
(* nextId.  A password stands for its bcrypt hash.  The details of a user  *)
(* that a session copies (email, groups, names) are represented by the     *)
(* email, which is also the NameID.                                        *)
(***************************************************************************)
EXTENDS Naturals, FiniteSets

CONSTANTS
    Slot,           \* request goroutines that may run at the same time
    Browser,        \* user agents, each with one cookie jar for the server
    User,           \* user names, the keys below /users/
    Email,          \* non-empty email addresses
    Fold,           \* Fold[e]: the case-folded form of e
    Password,       \* passwords, standing for their hashes too
    NoEmail,        \* the empty email
    NoPassword,     \* an absent password or hash
    NotFound,       \* what the Store answers for a key it does not have
    None,           \* no slot, no browser, no user
    InitialUsers,   \* what /users/ may hold when the server is first started
    Bodies,         \* the users an administrator may PUT
    Logouts,        \* the pairs of a NameID and session indexes to log out
    SessionMaxAge,  \* sessionMaxAge, in ticks of the clock
    MaxRevision,    \* bound on the revisions drawn
    MaxSessions,    \* bound on the sessions created
    MaxTime         \* bound on the clock

SessionId == 1..MaxSessions
NoCookie == 0
EmailOrNone == Email \cup {NoEmail}
PasswordOrNone == Password \cup {NoPassword}

\* User: the stored fields the server acts on.
UserRecord == [email: EmailOrNone, hash: PasswordOrNone, rev: Nat]

\* storedSession: a saml.Session with the revision of its user.
SessionRecord == [id: SessionId, user: User, nameID: EmailOrNone,
                  rev: Nat, expire: Nat]

\* What a PUT of a user carries: its name, and of the body what the server acts on.
\* A hash beside a password is not looked at.
Body == {u \in [name: User, email: EmailOrNone, password: PasswordOrNone,
                hash: PasswordOrNone] :
           u.password = NoPassword \/ u.hash = NoPassword}

ASSUME ConstantsAssumption ==
    /\ Fold \in [Email -> Email]
    /\ NoEmail \notin Email /\ NoPassword \notin Password
    /\ None \notin Slot \cup User \cup Browser
    /\ NotFound \notin UserRecord /\ NotFound \notin SessionRecord
    /\ SessionMaxAge \in Nat /\ MaxRevision \in Nat
    /\ MaxSessions \in Nat /\ MaxTime \in Nat
    /\ Bodies \subseteq Body
    /\ Logouts \subseteq EmailOrNone \X SUBSET SessionId
    /\ InitialUsers \subseteq
         {f \in [User -> UserRecord \cup {NotFound}] :
            \A u \in User : f[u] # NotFound => f[u].rev = 0}

VARIABLES
    users,      \* Store, /users/: User -> UserRecord or NotFound
    sessions,   \* Store, /sessions/: SessionId -> SessionRecord or NotFound
    nextRev,    \* the next revision to be drawn
    nextId,     \* the next session identifier to be drawn
    now,        \* saml.TimeNow
    status,     \* "new", "up", "down" or "refused": the server process
    usersMu,    \* the slot holding usersMu, or None
    jar,        \* the session cookie of each browser
    pc,         \* where each request is
    req,        \* what each request asks for
    loc,        \* local variables of each handler
    hist        \* what was true when each request began (history)

storeVars == <<users, sessions, nextRev, nextId>>
vars == <<users, sessions, nextRev, nextId, now, status, usersMu, jar, pc, req,
          loc, hist>>

-----------------------------------------------------------------------------
Request == [browser: Browser \cup {None}, cookie: {NoCookie} \cup SessionId,
            name: User \cup {None}, email: EmailOrNone,
            password: PasswordOrNone, hash: PasswordOrNone,
            nameID: EmailOrNone, indexes: SUBSET SessionId,
            logout: BOOLEAN]

NoRequest == [browser |-> None, cookie |-> NoCookie, name |-> None,
              email |-> NoEmail, password |-> NoPassword, hash |-> NoPassword,
              nameID |-> NoEmail, indexes |-> {}, logout |-> FALSE]

Locals == [user: UserRecord, session: SessionRecord \cup {NotFound},
           names: SUBSET User, ids: SUBSET SessionId,
           setCookie: BOOLEAN, clearCookie: BOOLEAN]

NoUser == [email |-> NoEmail, hash |-> NoPassword, rev |-> 0]

NoLocals == [user |-> NoUser, session |-> NotFound, names |-> {}, ids |-> {},
             setCookie |-> FALSE, clearCookie |-> FALSE]

History == [revs: [User -> Nat], gone: SUBSET SessionId]

NoHistory == [revs |-> [u \in User |-> 0], gone |-> {}]

\* Control points before a Store operation, of the handlers that serve a browser
\* and of the RESTful interface.
BrowserPoint == {"login_user", "login_put", "get_session", "get_user",
                 "end_session"}
PutPoint == {"list_users", "scan_users", "get_hash", "put_user"}
AdminPoint == PutPoint \cup {"delete_user", "list_sessions", "end_sessions"}
Point == BrowserPoint \cup AdminPoint \cup {"idle", "lock", "done"}

\* Users f whose emails agree, ignoring case, are one principal at every SP.
SameEmail(e1, e2) == e1 # NoEmail /\ e2 # NoEmail /\ Fold[e1] = Fold[e2]

EmailsDistinct(f) ==
    \A u, v \in User :
       u # v /\ f[u] # NotFound /\ f[v] # NotFound
         => ~SameEmail(f[u].email, f[v].email)

\* The next revision any session of user u can still be created from.
CurrentRevision(u) == IF users[u] = NotFound THEN nextRev ELSE users[u].rev

\* A stored session s that existingSession would return now.
Usable(s) ==
    /\ sessions[s] # NotFound
    /\ now <= sessions[s].expire
    /\ users[sessions[s].user] # NotFound
    /\ users[sessions[s].user].rev = sessions[s].rev

\* What is true now of the revisions and sessions a request may meet.
CurrentHistory ==
    [revs |-> [u \in User |-> CurrentRevision(u)],
     gone |-> {s \in SessionId : s < nextId /\ ~Usable(s)}]

Init ==
    /\ users \in InitialUsers
    /\ sessions = [s \in SessionId |-> NotFound]
    /\ nextRev = 1
    /\ nextId = 1
    /\ now = 0
    /\ status = "new"
    /\ usersMu = None
    /\ jar = [b \in Browser |-> NoCookie]
    /\ pc = [r \in Slot |-> "idle"]
    /\ req = [r \in Slot |-> NoRequest]
    /\ loc = [r \in Slot |-> NoLocals]
    /\ hist = [r \in Slot |-> NoHistory]

-----------------------------------------------------------------------------
\* The server process.

\* New: checkUserEmails reads every user before the server handles requests.
CheckUserEmails == EmailsDistinct(users)

Start ==
    /\ status \in {"new", "down"}
    /\ status' = IF CheckUserEmails THEN "up" ELSE "refused"
    /\ UNCHANGED <<storeVars, now, usersMu, jar, pc, req, loc, hist>>

\* The process dies: handlers and the mutex are gone, the Store and the
\* browsers' jars are kept.
Crash ==
    /\ status = "up"
    /\ status' = "down"
    /\ usersMu' = None
    /\ pc' = [r \in Slot |-> "idle"]
    /\ req' = [r \in Slot |-> NoRequest]
    /\ loc' = [r \in Slot |-> NoLocals]
    /\ hist' = [r \in Slot |-> NoHistory]
    /\ UNCHANGED <<storeVars, now, jar>>

Tick ==
    /\ now < MaxTime
    /\ now' = now + 1
    /\ UNCHANGED <<storeVars, status, usersMu, jar, pc, req, loc, hist>>

-----------------------------------------------------------------------------
\* Steps common to the handlers.

Begin(r, request, point) ==
    /\ status = "up"
    /\ pc[r] = "idle"
    /\ pc' = [pc EXCEPT ![r] = point]
    /\ req' = [req EXCEPT ![r] = request]
    /\ hist' = [hist EXCEPT ![r] = IF request.browser = None THEN NoHistory
                                   ELSE CurrentHistory]
    /\ UNCHANGED <<storeVars, now, status, usersMu, jar, loc>>

Goto(r, point) == pc' = [pc EXCEPT ![r] = point]

\* A handler that serves a browser returns the session, if any, with the cookie
\* to set or to clear.  Its other local variables are dropped.
Answer(r, session, set, clear) ==
    /\ Goto(r, "done")
    /\ req' = [req EXCEPT ![r] = [NoRequest EXCEPT !.browser = req[r].browser]]
    /\ loc' = [loc EXCEPT ![r] = [NoLocals EXCEPT !.session = session,
                                                 !.setCookie = set,
                                                 !.clearCookie = clear]]
    /\ UNCHANGED <<usersMu, hist>>

\* Mutant of Finish: the mutex is not released.
MutantFinish(r) ==
    /\ Goto(r, "idle")
    /\ req' = [req EXCEPT ![r] = NoRequest]
    /\ loc' = [loc EXCEPT ![r] = NoLocals]
    /\ UNCHANGED <<hist, usersMu>>

\* A handler of the RESTful interface returns; the deferred usersMu.Unlock runs
\* if it holds the mutex.  Its response changes nothing, so the request is over.
Finish(r) ==
    /\ Goto(r, "idle")
    /\ req' = [req EXCEPT ![r] = NoRequest]
    /\ loc' = [loc EXCEPT ![r] = NoLocals]
    /\ usersMu' = IF usersMu = r THEN None ELSE usersMu
    /\ UNCHANGED hist

\* The response reaches the browser, which applies its Set-Cookie header.
Respond(r) ==
    /\ pc[r] = "done"
    /\ jar' = IF loc[r].setCookie
              THEN [jar EXCEPT ![req[r].browser] = loc[r].session.id]
              ELSE IF loc[r].clearCookie
              THEN [jar EXCEPT ![req[r].browser] = NoCookie]
              ELSE jar
    /\ pc' = [pc EXCEPT ![r] = "idle"]
    /\ req' = [req EXCEPT ![r] = NoRequest]
    /\ loc' = [loc EXCEPT ![r] = NoLocals]
    /\ hist' = [hist EXCEPT ![r] = NoHistory]
    /\ UNCHANGED <<storeVars, now, status, usersMu>>

\* A Store operation fails with an error other than ErrNotFound.  Every handler
\* then stops: with a 500, with the login form, or with no passive session.
StoreError(r) ==
    /\ \/ pc[r] \in BrowserPoint /\ Answer(r, NotFound, FALSE, FALSE)
       \/ pc[r] \in AdminPoint /\ Finish(r)
    /\ UNCHANGED <<storeVars, now, status, jar>>

-----------------------------------------------------------------------------
\* authenticate, called by GetSession and GetForcedSession when the request
\* carries credentials.

\* checkLoginOrigin: h.site is Sec-Fetch-Site, h.origin is Origin.
CheckLoginOrigin(h) ==
    \/ h.site \in {"same-origin", "none"}
    \/ h.site = "" /\ h.origin \in {"", "own"}

LoginHeaders == [site: {"", "same-origin", "none", "cross-site"},
                 origin: {"", "own", "other"}]

\* Credentials refused for their origin change nothing.
StartLogin(r, b, u, p, h) ==
    /\ CheckLoginOrigin(h)
    /\ Begin(r, [NoRequest EXCEPT !.browser = b, !.name = u, !.password = p],
             "login_user")

\* Mutant of LoginGetUser: ErrNotFound is ignored.
MutantLoginGetUser(r) ==
    /\ pc[r] = "login_user"
    /\ loc' = [loc EXCEPT ![r].user = users[req[r].name]]
    /\ Goto(r, "login_put")
    /\ UNCHANGED <<storeVars, now, status, usersMu, jar, req, hist>>

\* Store.Get of the user and bcrypt.CompareHashAndPassword.
LoginGetUser(r) ==
    LET user == users[req[r].name]
        valid == user # NotFound /\ user.hash = req[r].password
    IN
    /\ pc[r] = "login_user"
    /\ \/ /\ valid
          /\ loc' = [loc EXCEPT ![r].user = user]
          /\ Goto(r, "login_put")
          /\ UNCHANGED <<usersMu, req, hist>>
       \/ /\ ~valid
          /\ Answer(r, NotFound, FALSE, FALSE)
    /\ UNCHANGED <<storeVars, now, status, jar>>

\* Store.Put of the session, which is returned and set as the cookie.
LoginPutSession(r) ==
    LET session == [id |-> nextId, user |-> req[r].name,
                    nameID |-> loc[r].user.email, rev |-> loc[r].user.rev,
                    expire |-> now + SessionMaxAge]
    IN
    /\ pc[r] = "login_put"
    /\ nextId <= MaxSessions
    /\ nextId' = nextId + 1
    /\ sessions' = [sessions EXCEPT ![nextId] = session]
    /\ Answer(r, session, TRUE, FALSE)
    /\ UNCHANGED <<users, nextRev, now, status, jar>>

-----------------------------------------------------------------------------
\* existingSession, called by GetSession and GetPassiveSession without
\* credentials, and by TerminateSession.

\* A request without the cookie gets the login form, or no passive session, and
\* changes nothing.
StartSession(r, b) ==
    /\ jar[b] # NoCookie
    /\ Begin(r, [NoRequest EXCEPT !.browser = b, !.cookie = jar[b]],
             "get_session")

\* TerminateSession: a LogoutRequest for nameID and indexes.  Without the cookie
\* a POST is an error and a redirect has no session to end.
StartLogout(r, b, nameID, indexes) ==
    /\ jar[b] # NoCookie
    /\ Begin(r, [NoRequest EXCEPT !.browser = b, !.cookie = jar[b],
                                  !.nameID = nameID, !.indexes = indexes,
                                  !.logout = TRUE],
             "get_session")

\* Store.Get of the session and the test of its ExpireTime.
GetSession(r) ==
    LET stored == sessions[req[r].cookie]
        current == stored # NotFound /\ ~(now > stored.expire)
    IN
    /\ pc[r] = "get_session"
    /\ \/ /\ current
          /\ loc' = [loc EXCEPT ![r].session = stored]
          /\ Goto(r, "get_user")
          /\ UNCHANGED <<usersMu, req, hist>>
       \/ /\ ~current
          /\ Answer(r, NotFound, FALSE, FALSE)
    /\ UNCHANGED <<storeVars, now, status, jar>>

\* Mutant of RevisionCurrent: only the existence of the user is checked.
MutantRevisionCurrent(session) == users[session.user] # NotFound

\* user.Revision == stored.UserRevision
RevisionCurrent(session) ==
    /\ users[session.user] # NotFound
    /\ users[session.user].rev = session.rev

\* Does the LogoutRequest of r name the principal and the index of the session?
LogoutNames(r, session) ==
    /\ session.nameID = req[r].nameID
    /\ req[r].indexes = {} \/ session.id \in req[r].indexes

\* Store.Get of the session's user and the test of the revision; then a logout
\* that names the session goes on to delete it, one that does not is an error.
GetSessionUser(r) ==
    LET session == loc[r].session IN
    /\ pc[r] = "get_user"
    /\ \/ /\ RevisionCurrent(session)
          /\ ~req[r].logout
          /\ Answer(r, session, FALSE, FALSE)
       \/ /\ RevisionCurrent(session)
          /\ req[r].logout
          /\ LogoutNames(r, session)
          /\ Goto(r, "end_session")
          /\ UNCHANGED <<usersMu, req, loc, hist>>
       \/ /\ ~RevisionCurrent(session) \/ (req[r].logout /\ ~LogoutNames(r, session))
          /\ Answer(r, NotFound, FALSE, FALSE)
    /\ UNCHANGED <<storeVars, now, status, jar>>

\* TerminateSession: Store.Delete of the session; the cookie is cleared.
EndSession(r) ==
    /\ pc[r] = "end_session"
    /\ sessions' = [sessions EXCEPT ![loc[r].session.id] = NotFound]
    /\ Answer(r, NotFound, FALSE, TRUE)
    /\ UNCHANGED <<users, nextRev, nextId, now, status, jar>>

\* HandleDeleteSession: one Store operation.
DeleteSession(s) ==
    /\ status = "up"
    /\ sessions[s] # NotFound
    /\ sessions' = [sessions EXCEPT ![s] = NotFound]
    /\ UNCHANGED <<users, nextRev, nextId, now, status, usersMu, jar, pc, req,
                   loc, hist>>

-----------------------------------------------------------------------------
\* HandlePutUser.  The body holds the email, a password or none, and possibly a
\* hash, which is only kept for a user that is not stored yet.

StartPutUser(r, body) ==
    Begin(r, [NoRequest EXCEPT !.name = body.name, !.email = body.email,
                               !.password = body.password, !.hash = body.hash],
          "lock")

\* After the email is known to be free: hash the password or read the old hash.
AfterEmail(r) == IF req[r].password = NoPassword THEN "get_hash" ELSE "put_user"

\* Mutant of LockUsers: the mutex is not waited for.
MutantLockUsers(r) ==
    /\ pc[r] = "lock"
    /\ usersMu' = r
    /\ loc' = [loc EXCEPT ![r].user.email = req[r].email,
                          ![r].user.hash = IF req[r].password = NoPassword
                                           THEN req[r].hash
                                           ELSE req[r].password]
    /\ Goto(r, IF req[r].email = NoEmail THEN AfterEmail(r) ELSE "list_users")
    /\ UNCHANGED <<storeVars, now, status, jar, req, hist>>

\* usersMu.Lock
LockUsers(r) ==
    /\ pc[r] = "lock"
    /\ usersMu = None
    /\ usersMu' = r
    /\ loc' = [loc EXCEPT ![r].user.email = req[r].email,
                          ![r].user.hash = IF req[r].password = NoPassword
                                           THEN req[r].hash
                                           ELSE req[r].password]
    /\ Goto(r, IF req[r].email = NoEmail THEN AfterEmail(r) ELSE "list_users")
    /\ UNCHANGED <<storeVars, now, status, jar, req, hist>>

\* emailOwner: Store.List("/users/"), without the user itself
ListUsers(r) ==
    LET names == {u \in User : users[u] # NotFound} \ {req[r].name} IN
    /\ pc[r] = "list_users"
    /\ loc' = [loc EXCEPT ![r].names = names]
    /\ Goto(r, IF names = {} THEN AfterEmail(r) ELSE "scan_users")
    /\ UNCHANGED <<storeVars, now, status, usersMu, jar, req, hist>>

\* emailOwner: Store.Get of one of the listed users, in the order of the list.
\* A user with the email is a conflict; one deleted meanwhile is skipped.
ScanUser(r, u) ==
    LET names == loc[r].names \ {u}
        owner == users[u] # NotFound /\ SameEmail(users[u].email, req[r].email)
    IN
    /\ pc[r] = "scan_users"
    /\ u \in loc[r].names
    /\ \/ /\ owner
          /\ Finish(r)
       \/ /\ ~owner
          /\ loc' = [loc EXCEPT ![r].names = names]
          /\ Goto(r, IF names = {} THEN AfterEmail(r) ELSE "scan_users")
          /\ UNCHANGED <<usersMu, req, hist>>
    /\ UNCHANGED <<storeVars, now, status, jar>>

\* Store.Get of the stored user, whose hash is retained.
GetHash(r) ==
    LET user == users[req[r].name] IN
    /\ pc[r] = "get_hash"
    /\ loc' = IF user = NotFound THEN loc
              ELSE [loc EXCEPT ![r].user.hash = user.hash]
    /\ Goto(r, "put_user")
    /\ UNCHANGED <<storeVars, now, status, usersMu, jar, req, hist>>

\* Mutant of PutUser: a stored user keeps its revision.
MutantKeepRevision(r) ==
    LET old == users[req[r].name]
        rev == IF old = NotFound THEN nextRev ELSE old.rev
    IN
    /\ pc[r] = "put_user"
    /\ nextRev <= MaxRevision
    /\ nextRev' = nextRev + 1
    /\ users' = [users EXCEPT ![req[r].name] = [loc[r].user EXCEPT !.rev = rev]]
    /\ Goto(r, "list_sessions")
    /\ UNCHANGED <<sessions, nextId, now, status, usersMu, jar, req, loc, hist>>

\* Mutant of PutUser: the revision counts the changes of the stored user.
MutantCountRevision(r) ==
    LET old == users[req[r].name]
        rev == IF old = NotFound THEN 1 ELSE old.rev + 1
    IN
    /\ pc[r] = "put_user"
    /\ nextRev <= MaxRevision
    /\ nextRev' = nextRev + 1
    /\ users' = [users EXCEPT ![req[r].name] = [loc[r].user EXCEPT !.rev = rev]]
    /\ Goto(r, "list_sessions")
    /\ UNCHANGED <<sessions, nextId, now, status, usersMu, jar, req, loc, hist>>

\* A new revision is drawn and the user is stored.
PutUser(r) ==
    /\ pc[r] = "put_user"
    /\ nextRev <= MaxRevision
    /\ nextRev' = nextRev + 1
    /\ users' = [users EXCEPT ![req[r].name] = [loc[r].user EXCEPT !.rev = nextRev]]
    /\ Goto(r, "list_sessions")
    /\ UNCHANGED <<sessions, nextId, now, status, usersMu, jar, req, loc, hist>>

-----------------------------------------------------------------------------
\* HandleDeleteUser, which does not take usersMu.

StartDeleteUser(r, u) == Begin(r, [NoRequest EXCEPT !.name = u], "delete_user")

DeleteUser(r) ==
    /\ pc[r] = "delete_user"
    /\ users' = [users EXCEPT ![req[r].name] = NotFound]
    /\ Goto(r, "list_sessions")
    /\ UNCHANGED <<sessions, nextRev, nextId, now, status, usersMu, jar, req,
                   loc, hist>>

\* endUserSessions, the end of both: Store.List("/sessions/") ...
ListSessions(r) ==
    LET ids == {s \in SessionId : sessions[s] # NotFound} IN
    /\ pc[r] = "list_sessions"
    /\ \/ /\ ids # {}
          /\ loc' = [loc EXCEPT ![r].ids = ids]
          /\ Goto(r, "end_sessions")
          /\ UNCHANGED <<usersMu, req, hist>>
       \/ /\ ids = {}
          /\ Finish(r)
    /\ UNCHANGED <<storeVars, now, status, jar>>

\* ... and, for each of them, Store.Get and the Store.Delete of a session of the
\* user.  A stored session is never changed, so the two are one step.
EndUserSession(r, s) ==
    LET ids == loc[r].ids \ {s} IN
    /\ pc[r] = "end_sessions"
    /\ s \in loc[r].ids
    /\ sessions' = IF sessions[s] # NotFound /\ sessions[s].user = req[r].name
                   THEN [sessions EXCEPT ![s] = NotFound]
                   ELSE sessions
    /\ \/ /\ ids # {}
          /\ loc' = [loc EXCEPT ![r].ids = ids]
          /\ UNCHANGED <<usersMu, pc, req, hist>>
       \/ /\ ids = {}
          /\ Finish(r)
    /\ UNCHANGED <<users, nextRev, nextId, now, status, jar>>

-----------------------------------------------------------------------------
Arrive(r) ==
    \/ \E b \in Browser :
          \/ \E u \in User, p \in Password, h \in LoginHeaders :
                StartLogin(r, b, u, p, h)
          \/ StartSession(r, b)
          \/ \E logout \in Logouts : StartLogout(r, b, logout[1], logout[2])
    \/ \E u \in User : StartDeleteUser(r, u)
    \/ \E body \in Bodies : StartPutUser(r, body)

Step(r) ==
    \/ LoginGetUser(r)
    \/ LoginPutSession(r)
    \/ GetSession(r)
    \/ GetSessionUser(r)
    \/ EndSession(r)
    \/ ListUsers(r)
    \/ \E u \in User : ScanUser(r, u)
    \/ GetHash(r)
    \/ PutUser(r)
    \/ DeleteUser(r)
    \/ ListSessions(r)
    \/ \E s \in SessionId : EndUserSession(r, s)
    \/ StoreError(r)
    \/ Respond(r)

Next ==
    \/ Start
    \/ Crash
    \/ Tick
    \/ \E r \in Slot : Arrive(r) \/ LockUsers(r) \/ Step(r)
    \/ \E s \in SessionId : DeleteSession(s)

Spec == Init /\ [][Next]_vars

\* net/http keeps every goroutine running, and a sync.Mutex hands itself to a
\* waiter it has starved, so that a waiting Lock is not passed over for ever.
Fairness ==
    \A r \in Slot : WF_vars(Step(r)) /\ SF_vars(LockUsers(r))

FairSpec == Spec /\ Fairness

-----------------------------------------------------------------------------
\* Properties.

\* Every variable keeps its shape.
TypeOK ==
    /\ users \in [User -> UserRecord \cup {NotFound}]
    /\ sessions \in [SessionId -> SessionRecord \cup {NotFound}]
    /\ nextRev \in Nat \ {0}
    /\ nextId \in Nat \ {0}
    /\ now \in Nat
    /\ status \in {"new", "up", "down", "refused"}
    /\ usersMu \in Slot \cup {None}
    /\ jar \in [Browser -> {NoCookie} \cup SessionId]
    /\ pc \in [Slot -> Point]
    /\ req \in [Slot -> Request]
    /\ loc \in [Slot -> Locals]
    /\ hist \in [Slot -> History]

\* Two stored users never have the same email, ignoring case, although
\* HandlePutUser reads the other users one by one before it writes and
\* HandleDeleteUser runs beside it.  This includes the store a crash leaves
\* behind, so that checkUserEmails never refuses a restart.
EmailsUnique == status \in {"up", "down"} => EmailsDistinct(users)

\* A request never gets a session which had already ceased to be usable when the
\* request began, nor one made from details of a user older than those stored
\* then: neither existingSession, which reads the session and its user at
\* different times, nor authenticate, which reads the user before it stores the
\* session.
NoStaleSession ==
    \A r \in Slot :
       pc[r] = "done" /\ loc[r].session # NotFound
         => LET session == loc[r].session IN
            /\ session.id \notin hist[r].gone
            /\ session.rev >= hist[r].revs[session.user]

\* The sessions existingSession accepts carry the current details of their
\* users, so two of them with the same NameID are of the same user.
OneUserPerNameID ==
    \A s \in SessionId : Usable(s) =>
       /\ sessions[s].nameID = users[sessions[s].user].email
       /\ \A t \in SessionId :
             Usable(t) /\ SameEmail(sessions[s].nameID, sessions[t].nameID)
               => sessions[s].user = sessions[t].user

\* Once existingSession would refuse a session it refuses it for ever, whatever
\* becomes of its user: changed, deleted, or deleted and created again; a login
\* under way, a failed endUserSessions and a restart do not bring it back.
RefusedForever ==
    [][\A s \in SessionId :
          s < nextId /\ ~Usable(s) => ~Usable(s)']_vars

\* Every request is answered: no handler waits for ever for usersMu, whichever
\* way the handler holding it returns.
RequestsFinish == \A r \in Slot : pc[r] # "idle" ~> pc[r] = "idle"

\* HandlePutUser without a password stores the hash the user has in the Store at
\* that moment, or the one in the body if the user is not stored.
HashRetained ==
    [][\A r \in Slot :
          pc[r] = "put_user" /\ users' # users /\ pc'[r] = "list_sessions"
            /\ req[r].password = NoPassword
            => LET u == req[r].name IN
               users'[u].hash = IF users[u] = NotFound THEN req[r].hash
                                ELSE users[u].hash]_vars

=============================================================================
