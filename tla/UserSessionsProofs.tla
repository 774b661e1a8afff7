------------------------- MODULE UserSessionsProofs -------------------------
(***************************************************************************)
(* What UserSessions guarantees for any number of concurrent requests,     *)
(* users, emails and sessions, proved with TLAPS.                          *)
(*                                                                         *)
(* TypeOK and Control say what a handler holds at each control point.      *)
(* With Exclusion and EmailFree they are inductive and keep the emails     *)
(* distinct (EInv); with Revisions and Freshness they are inductive and    *)
(* keep a revision once left from returning (SInv).  Both together, with   *)
(* Links and Unstarted, tie a NameID to one user (NInv).                   *)
(***************************************************************************)
EXTENDS UserSessions, TLAPS

\* What the handler of a request knows at each control point.
Control ==
    \A r \in Slot :
       /\ pc[r] \in {"login_user", "login_put", "lock"} \cup AdminPoint
            => req[r].name \in User
       /\ pc[r] = "get_session" => req[r].cookie \in SessionId
       /\ pc[r] \in {"get_user", "end_session"} => loc[r].session # NotFound
       /\ pc[r] \in BrowserPoint \cup {"done"} => req[r].browser \in Browser
       /\ pc[r] = "done" /\ loc[r].setCookie => loc[r].session # NotFound

\* HandlePutUser holds usersMu from emailOwner to Store.Put.
Exclusion == \A r \in Slot : pc[r] \in PutPoint => usersMu = r

\* No user emailOwner has passed, and none stored since, has the email.
EmailFree ==
    \A r \in Slot :
       /\ pc[r] \in PutPoint => loc[r].user.email = req[r].email
       /\ pc[r] \in {"scan_users", "get_hash", "put_user"} =>
             \A u \in User \ {req[r].name} :
                users[u] # NotFound /\ (pc[r] = "scan_users" => u \notin loc[r].names)
                  => ~SameEmail(users[u].email, req[r].email)

\* Revisions and session identifiers in the Store have been drawn.
Revisions ==
    /\ \A u \in User : users[u] # NotFound => users[u].rev < nextRev
    /\ \A s \in SessionId : sessions[s] # NotFound
          => sessions[s].rev < nextRev /\ sessions[s].id = s /\ s < nextId

\* So have those a handler holds, and what was over when its request began is
\* still over.
SlotFresh(r) ==
    /\ loc[r].session # NotFound
         => loc[r].session.rev < nextRev /\ loc[r].session.id < nextId
    /\ \A s \in hist[r].gone : s < nextId /\ ~Usable(s)
    /\ \A u \in User : hist[r].revs[u] <= CurrentRevision(u)
    /\ pc[r] = "login_put" => /\ loc[r].user.rev < nextRev
                              /\ hist[r].revs[req[r].name] <= loc[r].user.rev
    /\ pc[r] = "get_user" /\ loc[r].session.id \in hist[r].gone
         => ~RevisionCurrent(loc[r].session)
    /\ pc[r] = "done" /\ loc[r].session # NotFound
         => /\ loc[r].session.id \notin hist[r].gone
            /\ loc[r].session.rev >= hist[r].revs[loc[r].session.user]

Freshness == \A r \in Slot : SlotFresh(r)

-----------------------------------------------------------------------------
\* Types.

\* What a request remembers of the store has the type of a history.
LEMMA HistoryType ==
    ASSUME TypeOK PROVE CurrentHistory \in History /\ NoHistory \in History
  BY DEF TypeOK, CurrentHistory, NoHistory, History, CurrentRevision, UserRecord

\* The empty request, locals and history are typed.
LEMMA DefaultTypes ==
    /\ NoRequest \in Request
    /\ NoLocals \in Locals
  BY DEF NoRequest, Request, NoLocals, Locals, NoUser, UserRecord, EmailOrNone,
         PasswordOrNone, NoCookie

\* A request that begins keeps the types and the control facts.
LEMMA BeginType ==
    ASSUME TypeOK, Control, NEW r \in Slot, NEW request \in Request,
           NEW point \in {"login_user", "get_session", "lock", "delete_user"},
           point # "get_session" => request.name \in User,
           point = "get_session" => request.cookie \in SessionId,
           point \in BrowserPoint => request.browser \in Browser,
           Begin(r, request, point)
    PROVE  TypeOK' /\ Control'
  <1>1. TypeOK'
    BY HistoryType DEF TypeOK, Begin, Point, BrowserPoint, AdminPoint, PutPoint,
       storeVars
  <1>2. Control'
    BY DEF TypeOK, Begin, Control, BrowserPoint, AdminPoint, PutPoint, storeVars
  <1>. QED BY <1>1, <1>2

\* So does a handler that returns.
LEMMA AnswerType ==
    ASSUME TypeOK, Control, NEW r \in Slot,
           NEW session \in SessionRecord \cup {NotFound},
           NEW set \in BOOLEAN, NEW clear \in BOOLEAN,
           set => session # NotFound,
           req[r].browser \in Browser,
           Answer(r, session, set, clear)
    PROVE  /\ usersMu' \in Slot \cup {None}
           /\ pc' \in [Slot -> Point]
           /\ req' \in [Slot -> Request]
           /\ loc' \in [Slot -> Locals]
           /\ hist' \in [Slot -> History]
           /\ Control'
  <1> DEFINE q == [NoRequest EXCEPT !.browser = req[r].browser]
             l == [NoLocals EXCEPT !.session = session, !.setCookie = set,
                                   !.clearCookie = clear]
  <1>1. q \in Request /\ q.browser = req[r].browser
    BY DEF NoRequest, Request, EmailOrNone, PasswordOrNone, NoCookie
  <1>2. l \in Locals /\ l.session = session /\ l.setCookie = set
    BY DefaultTypes DEF NoLocals, Locals
  <1>3. /\ req' = [req EXCEPT ![r] = q]
        /\ loc' = [loc EXCEPT ![r] = l]
        /\ pc' = [pc EXCEPT ![r] = "done"]
        /\ usersMu' = usersMu /\ hist' = hist
    BY DEF Answer, Goto
  <1> HIDE DEF q, l
  <1>4. Control'
    BY <1>1, <1>2, <1>3 DEF TypeOK, Control, BrowserPoint, AdminPoint, PutPoint
  <1>. QED BY <1>1, <1>2, <1>3, <1>4 DEF TypeOK, Point

\* So does a handler of the RESTful interface that is over.
LEMMA FinishType ==
    ASSUME TypeOK, Control, NEW r \in Slot, Finish(r)
    PROVE  /\ usersMu' \in Slot \cup {None}
           /\ pc' \in [Slot -> Point]
           /\ req' \in [Slot -> Request]
           /\ loc' \in [Slot -> Locals]
           /\ hist' \in [Slot -> History]
           /\ Control'
  BY DefaultTypes DEF TypeOK, Control, Finish, Goto, Point, BrowserPoint, AdminPoint, PutPoint

\* A handler of r that only moves on and changes its own locals.
LEMMA MoveType ==
    ASSUME TypeOK, Control, NEW r \in Slot,
           \A q \in Slot \ {r} : pc'[q] = pc[q] /\ loc'[q] = loc[q],
           req' = req,
           \/ pc'[r] = "login_put" /\ pc[r] = "login_user"
           \/ /\ pc'[r] \in {"get_user", "end_session"}
              /\ pc[r] \in {"get_session", "get_user"}
              /\ loc'[r].session # NotFound
           \/ pc'[r] \in AdminPoint /\ pc[r] \in AdminPoint \cup {"lock"}
    PROVE  Control'
  BY DEF TypeOK, Control, BrowserPoint, AdminPoint, PutPoint

\* The types and the control facts hold initially.
LEMMA TypeInit == Init => TypeOK /\ Control
  <1> SUFFICES ASSUME Init PROVE TypeOK /\ Control
    OBVIOUS
  <1>1. users \in [User -> UserRecord \cup {NotFound}]
    BY ConstantsAssumption DEF Init
  <1>2. NoHistory \in History
    BY DEF NoHistory, History
  <1>3. TypeOK
    BY <1>1, <1>2, DefaultTypes DEF Init, TypeOK, Point, NoCookie
  <1>4. Control
    BY DEF Init, Control, BrowserPoint, AdminPoint, PutPoint
  <1>. QED BY <1>3, <1>4

\* They are kept when a request arrives ...
LEMMA ArriveType ==
    ASSUME TypeOK, Control, NEW r \in Slot, Arrive(r)
    PROVE  TypeOK' /\ Control'
  <1>1. ASSUME NEW b \in Browser, NEW u \in User, NEW p \in Password,
               NEW h \in LoginHeaders, StartLogin(r, b, u, p, h)
        PROVE  TypeOK' /\ Control'
    <2> DEFINE q == [NoRequest EXCEPT !.browser = b, !.name = u, !.password = p]
    <2>1. q \in Request /\ q.name = u /\ q.browser = b
      BY DEF NoRequest, Request, EmailOrNone, PasswordOrNone, NoCookie
    <2>2. Begin(r, q, "login_user")
      BY <1>1 DEF StartLogin
    <2> HIDE DEF q
    <2>. QED BY <2>1, <2>2, BeginType
  <1>2. ASSUME NEW b \in Browser, StartSession(r, b)
        PROVE  TypeOK' /\ Control'
    <2> DEFINE q == [NoRequest EXCEPT !.browser = b, !.cookie = jar[b]]
    <2>1. q \in Request /\ q.cookie \in SessionId /\ q.browser = b
      BY <1>2 DEF NoRequest, Request, EmailOrNone, PasswordOrNone, NoCookie,
                  StartSession, TypeOK
    <2>2. Begin(r, q, "get_session")
      BY <1>2 DEF StartSession
    <2> HIDE DEF q
    <2>. QED BY <2>1, <2>2, BeginType
  <1>3. ASSUME NEW b \in Browser, NEW e \in EmailOrNone,
               NEW i \in SUBSET SessionId, StartLogout(r, b, e, i)
        PROVE  TypeOK' /\ Control'
    <2> DEFINE q == [NoRequest EXCEPT !.browser = b, !.cookie = jar[b],
                                      !.nameID = e, !.indexes = i, !.logout = TRUE]
    <2>1. q \in Request /\ q.cookie \in SessionId /\ q.browser = b
      BY <1>3 DEF NoRequest, Request, EmailOrNone, PasswordOrNone, NoCookie,
                  StartLogout, TypeOK
    <2>2. Begin(r, q, "get_session")
      BY <1>3 DEF StartLogout
    <2> HIDE DEF q
    <2>. QED BY <2>1, <2>2, BeginType
  <1>4. ASSUME NEW u \in User, StartDeleteUser(r, u)
        PROVE  TypeOK' /\ Control'
    <2> DEFINE q == [NoRequest EXCEPT !.name = u]
    <2>1. q \in Request /\ q.name = u
      BY DEF NoRequest, Request, EmailOrNone, PasswordOrNone, NoCookie
    <2>2. Begin(r, q, "delete_user")
      BY <1>4 DEF StartDeleteUser
    <2> HIDE DEF q
    <2>. QED BY <2>1, <2>2, BeginType DEF BrowserPoint
  <1>5. ASSUME NEW body \in Body, StartPutUser(r, body)
        PROVE  TypeOK' /\ Control'
    <2> DEFINE q == [NoRequest EXCEPT !.name = body.name, !.email = body.email,
                                      !.password = body.password, !.hash = body.hash]
    <2>1. q \in Request /\ q.name = body.name /\ body.name \in User
      BY DEF NoRequest, Request, EmailOrNone, PasswordOrNone, NoCookie, Body
    <2>2. Begin(r, q, "lock")
      BY <1>5 DEF StartPutUser
    <2> HIDE DEF q
    <2>. QED BY <2>1, <2>2, BeginType DEF BrowserPoint
  <1>6. \A logout \in Logouts :
           logout[1] \in EmailOrNone /\ logout[2] \in SUBSET SessionId
    BY ConstantsAssumption
  <1>7. \A body \in Bodies : body \in Body
    BY ConstantsAssumption
  <1>. QED BY <1>1, <1>2, <1>3, <1>4, <1>5, <1>6, <1>7 DEF Arrive

\* ... by every step of a handler, action by action ...
LEMMA StepType ==
    ASSUME TypeOK, Control, NEW r \in Slot, LockUsers(r) \/ Step(r)
    PROVE  TypeOK' /\ Control'
  <1>1. CASE LoginGetUser(r)
    <2>1. req[r].name \in User /\ req[r].browser \in Browser
      BY <1>1 DEF LoginGetUser, Control, BrowserPoint
    <2>2. CASE Answer(r, NotFound, FALSE, FALSE)
      BY <1>1, <2>1, <2>2, AnswerType DEF LoginGetUser, TypeOK, storeVars
    <2>3. CASE loc' = [loc EXCEPT ![r].user = users[req[r].name]]
                /\ users[req[r].name] # NotFound
                /\ Goto(r, "login_put") /\ UNCHANGED <<usersMu, req, hist>>
      <3> DEFINE l == [loc[r] EXCEPT !.user = users[req[r].name]]
      <3>1. l \in Locals
        BY <2>1, <2>3 DEF TypeOK, Locals
      <3>2. loc' = [loc EXCEPT ![r] = l]
        BY <2>3 DEF TypeOK
      <3> HIDE DEF l
      <3>k. /\ pc' \in [Slot -> Point] /\ loc' \in [Slot -> Locals]
           /\ \A q \in Slot \ {r} : pc'[q] = pc[q] /\ loc'[q] = loc[q]
        BY <1>1, <2>3, <3>1, <3>2 DEF LoginGetUser, Goto, TypeOK, Point, BrowserPoint, AdminPoint, PutPoint
      <3>m. Control'
        BY <1>1, <2>3, <3>1, <3>2, <3>k, MoveType DEF LoginGetUser, Goto, TypeOK, AdminPoint, PutPoint
      <3>. QED
        BY <1>1, <2>3, <3>1, <3>2, <3>k, <3>m DEF LoginGetUser, TypeOK, storeVars
    <2>. QED BY <1>1, <2>2, <2>3 DEF LoginGetUser
  <1>2. CASE LoginPutSession(r)
    <2> DEFINE session == [id |-> nextId, user |-> req[r].name,
                    nameID |-> loc[r].user.email, rev |-> loc[r].user.rev,
                    expire |-> now + SessionMaxAge]
    <2>1. req[r].name \in User /\ req[r].browser \in Browser
      BY <1>2 DEF LoginPutSession, Control, BrowserPoint
    <2>2. nextId \in SessionId /\ session \in SessionRecord
      BY <1>2, <2>1, ConstantsAssumption
         DEF LoginPutSession, TypeOK, SessionId, SessionRecord, Locals, UserRecord
    <2>3. session # NotFound
      BY <2>2, ConstantsAssumption
    <2>4. /\ Answer(r, session, TRUE, FALSE)
          /\ sessions' = [sessions EXCEPT ![nextId] = session]
          /\ nextId' = nextId + 1
          /\ UNCHANGED <<users, nextRev, now, status, jar>>
      BY <1>2 DEF LoginPutSession
    <2> HIDE DEF session
    <2>5. /\ usersMu' \in Slot \cup {None} /\ pc' \in [Slot -> Point]
          /\ req' \in [Slot -> Request] /\ loc' \in [Slot -> Locals]
          /\ hist' \in [Slot -> History] /\ Control'
      BY <2>1, <2>2, <2>3, <2>4, AnswerType
    <2>. QED BY <2>2, <2>4, <2>5 DEF TypeOK
  <1>3. CASE GetSession(r)
    <2>1. req[r].cookie \in SessionId /\ req[r].browser \in Browser
      BY <1>3 DEF GetSession, Control, BrowserPoint
    <2>2. CASE Answer(r, NotFound, FALSE, FALSE)
      BY <1>3, <2>1, <2>2, AnswerType DEF GetSession, TypeOK, storeVars
    <2>3. CASE loc' = [loc EXCEPT ![r].session = sessions[req[r].cookie]]
                /\ sessions[req[r].cookie] # NotFound
                /\ Goto(r, "get_user") /\ UNCHANGED <<usersMu, req, hist>>
      <3> DEFINE l == [loc[r] EXCEPT !.session = sessions[req[r].cookie]]
      <3>1. l \in Locals /\ l.session # NotFound
        BY <2>1, <2>3 DEF TypeOK, Locals
      <3>2. loc' = [loc EXCEPT ![r] = l]
        BY <2>3 DEF TypeOK
      <3> HIDE DEF l
      <3>k. /\ pc' \in [Slot -> Point] /\ loc' \in [Slot -> Locals]
           /\ \A q \in Slot \ {r} : pc'[q] = pc[q] /\ loc'[q] = loc[q]
        BY <1>3, <2>3, <3>1, <3>2 DEF GetSession, Goto, TypeOK, Point, BrowserPoint, AdminPoint, PutPoint
      <3>m. Control'
        BY <1>3, <2>3, <3>1, <3>2, <3>k, MoveType DEF GetSession, Goto, TypeOK, AdminPoint, PutPoint
      <3>. QED
        BY <1>3, <2>3, <3>1, <3>2, <3>k, <3>m DEF GetSession, TypeOK, storeVars
    <2>. QED BY <1>3, <2>2, <2>3 DEF GetSession
  <1>4. CASE GetSessionUser(r)
    <2>1. loc[r].session # NotFound /\ req[r].browser \in Browser
      BY <1>4 DEF GetSessionUser, Control, BrowserPoint
    <2>2. CASE Answer(r, NotFound, FALSE, FALSE)
      BY <1>4, <2>1, <2>2, AnswerType DEF GetSessionUser, TypeOK, storeVars
    <2>3. CASE Answer(r, loc[r].session, FALSE, FALSE)
      <3>1. loc[r].session \in SessionRecord \cup {NotFound}
        BY DEF TypeOK, Locals
      <3>. QED
        BY <1>4, <2>1, <2>3, <3>1, AnswerType DEF GetSessionUser, TypeOK, storeVars
    <2>4. CASE Goto(r, "end_session") /\ UNCHANGED <<usersMu, req, loc, hist>>
      <3>1. loc' = [loc EXCEPT ![r] = loc[r]] /\ loc[r] \in Locals
        BY <2>4 DEF TypeOK
      <3>k. /\ pc' \in [Slot -> Point] /\ loc' \in [Slot -> Locals]
           /\ \A q \in Slot \ {r} : pc'[q] = pc[q] /\ loc'[q] = loc[q]
        BY <1>4, <2>1, <2>4, <3>1 DEF GetSessionUser, Goto, TypeOK, Point, BrowserPoint, AdminPoint, PutPoint
      <3>m. Control'
        BY <1>4, <2>1, <2>4, <3>1, <3>k, MoveType DEF GetSessionUser, Goto, TypeOK, AdminPoint, PutPoint
      <3>. QED
        BY <1>4, <2>1, <2>4, <3>1, <3>k, <3>m DEF GetSessionUser, TypeOK, storeVars
    <2>. QED BY <1>4, <2>2, <2>3, <2>4 DEF GetSessionUser
  <1>5. CASE EndSession(r)
    <2>1. req[r].browser \in Browser
      BY <1>5 DEF EndSession, Control, BrowserPoint
    <2>2. sessions' \in [SessionId -> SessionRecord \cup {NotFound}]
      BY <1>5 DEF EndSession, TypeOK
    <2>. QED BY <1>5, <2>1, <2>2, AnswerType DEF EndSession, TypeOK
  <1>6. CASE LockUsers(r)
    <2> DEFINE h == IF req[r].password = NoPassword THEN req[r].hash
                    ELSE req[r].password
               usr == [loc[r].user EXCEPT !.email = req[r].email, !.hash = h]
               l == [loc[r] EXCEPT !.user = usr]
    <2>1. h \in PasswordOrNone /\ req[r].email \in EmailOrNone
      BY DEF TypeOK, Request
    <2>2. l \in Locals
      <3>1. loc[r] \in Locals /\ loc[r].user \in UserRecord
        BY DEF TypeOK, Locals
      <3>2. usr \in UserRecord
        BY <2>1, <3>1 DEF UserRecord
      <3> HIDE DEF usr
      <3>. QED BY <3>1, <3>2 DEF Locals
    <2>3. loc' = [loc EXCEPT ![r] = l]
      BY <1>6 DEF LockUsers, TypeOK
    <2> HIDE DEF h, l
    <2>k. /\ pc' \in [Slot -> Point] /\ loc' \in [Slot -> Locals]
         /\ \A q \in Slot \ {r} : pc'[q] = pc[q] /\ loc'[q] = loc[q]
      BY <1>6, <2>2, <2>3 DEF LockUsers, Goto, AfterEmail, TypeOK, Point, BrowserPoint, AdminPoint, PutPoint
    <2>m. Control'
      BY <1>6, <2>2, <2>3, <2>k, MoveType DEF LockUsers, Goto, AfterEmail, TypeOK, AdminPoint, PutPoint
    <2>. QED
      BY <1>6, <2>2, <2>3, <2>k, <2>m DEF LockUsers, TypeOK, storeVars
  <1>7. CASE ListUsers(r)
    <2> DEFINE n == {u \in User : users[u] # NotFound} \ {req[r].name}
               l == [loc[r] EXCEPT !.names = n]
    <2>1. l \in Locals
      BY DEF TypeOK, Locals
    <2>2. loc' = [loc EXCEPT ![r] = l]
      BY <1>7 DEF ListUsers, TypeOK
    <2> HIDE DEF l
    <2>k. /\ pc' \in [Slot -> Point] /\ loc' \in [Slot -> Locals]
         /\ \A q \in Slot \ {r} : pc'[q] = pc[q] /\ loc'[q] = loc[q]
      BY <1>7, <2>1, <2>2 DEF ListUsers, Goto, AfterEmail, TypeOK, Point, BrowserPoint, AdminPoint, PutPoint
    <2>m. Control'
      BY <1>7, <2>1, <2>2, <2>k, MoveType DEF ListUsers, Goto, AfterEmail, TypeOK, AdminPoint, PutPoint
    <2>. QED
      BY <1>7, <2>1, <2>2, <2>k, <2>m DEF ListUsers, TypeOK, storeVars
  <1>8. ASSUME NEW u \in User, ScanUser(r, u)
        PROVE  TypeOK' /\ Control'
    <2>1. CASE Finish(r)
      BY <1>8, <2>1, FinishType DEF ScanUser, TypeOK, storeVars
    <2>2. CASE ~Finish(r)
      <3> DEFINE l == [loc[r] EXCEPT !.names = loc[r].names \ {u}]
      <3>1. l \in Locals
        BY DEF TypeOK, Locals
      <3>2. loc' = [loc EXCEPT ![r] = l]
        BY <1>8, <2>2 DEF ScanUser, TypeOK
      <3> HIDE DEF l
      <3>k. /\ pc' \in [Slot -> Point] /\ loc' \in [Slot -> Locals]
           /\ \A q \in Slot \ {r} : pc'[q] = pc[q] /\ loc'[q] = loc[q]
        BY <1>8, <2>2, <3>1, <3>2 DEF ScanUser, Goto, AfterEmail, TypeOK, Point, BrowserPoint, AdminPoint, PutPoint
      <3>m. Control'
        BY <1>8, <2>2, <3>1, <3>2, <3>k, MoveType DEF ScanUser, Goto, AfterEmail, TypeOK, AdminPoint, PutPoint
      <3>. QED
        BY <1>8, <2>2, <3>1, <3>2, <3>k, <3>m DEF ScanUser, TypeOK, storeVars
    <2>. QED BY <2>1, <2>2
  <1>9. CASE GetHash(r)
    <2> DEFINE l == IF users[req[r].name] = NotFound THEN loc[r]
                    ELSE [loc[r] EXCEPT !.user.hash = users[req[r].name].hash]
    <2>1. req[r].name \in User
      BY <1>9 DEF GetHash, Control, AdminPoint, PutPoint
    <2>2. l \in Locals
      BY <2>1 DEF TypeOK, Locals, UserRecord
    <2>3. loc' = [loc EXCEPT ![r] = l]
      BY <1>9 DEF GetHash, TypeOK
    <2> HIDE DEF l
    <2>k. /\ pc' \in [Slot -> Point] /\ loc' \in [Slot -> Locals]
         /\ \A q \in Slot \ {r} : pc'[q] = pc[q] /\ loc'[q] = loc[q]
      BY <1>9, <2>2, <2>3 DEF GetHash, Goto, TypeOK, Point, BrowserPoint, AdminPoint, PutPoint
    <2>m. Control'
      BY <1>9, <2>2, <2>3, <2>k, MoveType DEF GetHash, Goto, TypeOK, AdminPoint, PutPoint
    <2>. QED
      BY <1>9, <2>2, <2>3, <2>k, <2>m DEF GetHash, TypeOK, storeVars
  <1>10. CASE PutUser(r)
    <2>1. [loc[r].user EXCEPT !.rev = nextRev] \in UserRecord
      BY DEF TypeOK, Locals, UserRecord
    <2>3. pc' \in [Slot -> Point] /\ Control'
      <3>1. pc' \in [Slot -> Point] /\ \A q \in Slot \ {r} : pc'[q] = pc[q] /\ loc'[q] = loc[q]
        BY <1>10 DEF PutUser, Goto, TypeOK, Point, AdminPoint
      <3>. QED BY <1>10, <3>1, MoveType DEF PutUser, Goto, TypeOK, AdminPoint, PutPoint
    <2>4. users' \in [User -> UserRecord \cup {NotFound}]
      BY <1>10, <2>1 DEF PutUser, TypeOK
    <2>. QED BY <1>10, <2>3, <2>4 DEF PutUser, TypeOK
  <1>11. CASE DeleteUser(r)
    <2>2. pc' \in [Slot -> Point] /\ Control'
      <3>1. pc' \in [Slot -> Point] /\ \A q \in Slot \ {r} : pc'[q] = pc[q] /\ loc'[q] = loc[q]
        BY <1>11 DEF DeleteUser, Goto, TypeOK, Point, AdminPoint
      <3>. QED BY <1>11, <3>1, MoveType DEF DeleteUser, Goto, TypeOK, AdminPoint, PutPoint
    <2>. QED BY <1>11, <2>2 DEF DeleteUser, TypeOK
  <1>12. CASE ListSessions(r)
    <2>1. CASE Finish(r)
      BY <1>12, <2>1, FinishType DEF ListSessions, TypeOK, storeVars
    <2>2. CASE ~Finish(r)
      <3> DEFINE i == {s \in SessionId : sessions[s] # NotFound}
                 l == [loc[r] EXCEPT !.ids = i]
      <3>1. l \in Locals
        BY DEF TypeOK, Locals
      <3>2. loc' = [loc EXCEPT ![r] = l]
        BY <1>12, <2>2 DEF ListSessions, TypeOK
      <3> HIDE DEF l
      <3>k. /\ pc' \in [Slot -> Point] /\ loc' \in [Slot -> Locals]
           /\ \A q \in Slot \ {r} : pc'[q] = pc[q] /\ loc'[q] = loc[q]
        BY <1>12, <2>2, <3>1, <3>2 DEF ListSessions, Goto, TypeOK, Point, BrowserPoint, AdminPoint, PutPoint
      <3>m. Control'
        BY <1>12, <2>2, <3>1, <3>2, <3>k, MoveType DEF ListSessions, Goto, TypeOK, AdminPoint, PutPoint
      <3>. QED
        BY <1>12, <2>2, <3>1, <3>2, <3>k, <3>m DEF ListSessions, TypeOK, storeVars
    <2>. QED BY <2>1, <2>2
  <1>13. ASSUME NEW s \in SessionId, EndUserSession(r, s)
         PROVE  TypeOK' /\ Control'
    <2>0. sessions' \in [SessionId -> SessionRecord \cup {NotFound}]
      BY <1>13 DEF EndUserSession, TypeOK
    <2>1. CASE Finish(r)
      BY <1>13, <2>0, <2>1, FinishType DEF EndUserSession, TypeOK
    <2>2. CASE ~Finish(r)
      <3> DEFINE l == [loc[r] EXCEPT !.ids = loc[r].ids \ {s}]
      <3>1. l \in Locals
        BY DEF TypeOK, Locals
      <3>2. loc' = [loc EXCEPT ![r] = l] /\ pc' = [pc EXCEPT ![r] = "end_sessions"]
        BY <1>13, <2>2 DEF EndUserSession, TypeOK
      <3> HIDE DEF l
      <3>k. /\ pc' \in [Slot -> Point] /\ loc' \in [Slot -> Locals]
           /\ \A q \in Slot \ {r} : pc'[q] = pc[q] /\ loc'[q] = loc[q]
        BY <1>13, <2>0, <2>2, <3>1, <3>2 DEF EndUserSession, TypeOK, Point, BrowserPoint, AdminPoint, PutPoint
      <3>m. Control'
        BY <1>13, <2>0, <2>2, <3>1, <3>2, <3>k, MoveType DEF EndUserSession, TypeOK, AdminPoint, PutPoint
      <3>. QED
        BY <1>13, <2>0, <2>2, <3>1, <3>2, <3>k, <3>m DEF EndUserSession, TypeOK, storeVars
    <2>. QED BY <2>1, <2>2
  <1>14. CASE StoreError(r)
    <2>1. CASE Finish(r)
      BY <1>14, <2>1, FinishType DEF StoreError, TypeOK, storeVars
    <2>2. CASE pc[r] \in BrowserPoint /\ Answer(r, NotFound, FALSE, FALSE)
      <3>1. req[r].browser \in Browser
        BY <2>2 DEF Control
      <3>. QED BY <1>14, <2>2, <3>1, AnswerType DEF StoreError, TypeOK, storeVars
    <2>. QED BY <1>14, <2>1, <2>2 DEF StoreError
  <1>15. CASE Respond(r)
    <2>1. jar' \in [Browser -> {NoCookie} \cup SessionId]
      BY <1>15 DEF Respond, TypeOK, Control, Locals, SessionRecord
    <2>2. NoHistory \in History
      BY HistoryType
    <2>3. Control'
      BY <1>15 DEF Respond, TypeOK, Control, BrowserPoint, AdminPoint, PutPoint
    <2>. QED
      BY <1>15, <2>1, <2>2, <2>3, DefaultTypes DEF Respond, TypeOK, storeVars, Point
  <1>. QED
    BY <1>1, <1>2, <1>3, <1>4, <1>5, <1>6, <1>7, <1>8, <1>9, <1>10, <1>11,
       <1>12, <1>13, <1>14, <1>15 DEF Step

\* ... and by every step of the system.
LEMMA TypeNext ==
    ASSUME TypeOK, Control, [Next]_vars
    PROVE  TypeOK' /\ Control'
  <1>1. CASE Start
    BY <1>1 DEF Start, TypeOK, Control, storeVars
  <1>2. CASE Crash
    <2>1. TypeOK'
      BY <1>2, DefaultTypes, HistoryType DEF Crash, TypeOK, storeVars, Point
    <2>2. Control'
      BY <1>2 DEF Crash, Control, BrowserPoint, AdminPoint, PutPoint
    <2>. QED BY <2>1, <2>2
  <1>3. CASE Tick
    BY <1>3 DEF Tick, TypeOK, Control, storeVars
  <1>4. ASSUME NEW s \in SessionId, DeleteSession(s)
        PROVE  TypeOK' /\ Control'
    BY <1>4 DEF DeleteSession, TypeOK, Control
  <1>5. CASE UNCHANGED vars
    BY <1>5 DEF vars, TypeOK, Control
  <1>. QED BY <1>1, <1>2, <1>3, <1>4, <1>5, ArriveType, StepType DEF Next

\* Every variable keeps its type: in particular a handler never stores ErrNotFound
\* as a user or a session, and a cookie is only set to a session that exists.
THEOREM TypeCorrect == Spec => []TypeOK
  <1>1. TypeOK /\ Control /\ [Next]_vars => TypeOK' /\ Control'
    BY TypeNext
  <1>. QED BY <1>1, TypeInit, PTL DEF Spec

-----------------------------------------------------------------------------
\* The emails.

EInv == TypeOK /\ Control /\ Exclusion /\ EmailFree /\ EmailsUnique

\* The server starts with no handler and no mutex held.
LEMMA EmailsInit == Init => EInv
  <1> SUFFICES ASSUME Init PROVE EInv
    OBVIOUS
  <1>1. Exclusion /\ EmailFree
    BY DEF Init, Exclusion, EmailFree, PutPoint
  <1>2. EmailsUnique
    BY DEF Init, EmailsUnique
  <1>. QED BY <1>1, <1>2, TypeInit DEF EInv

\* A step that leaves the users and every handler before Store.Put alone.
LEMMA EmailsFrame ==
    ASSUME EInv, users' = users, UNCHANGED status,
           \A r \in Slot : pc'[r] \in PutPoint =>
              /\ pc[r] = pc'[r] /\ usersMu' = usersMu
              /\ req'[r] = req[r] /\ loc'[r] = loc[r]
    PROVE  Exclusion' /\ EmailFree' /\ EmailsUnique'
  <1>1. Exclusion'
    BY DEF EInv, Exclusion
  <1>2. EmailFree'
    BY DEF EInv, EmailFree, PutPoint, SameEmail
  <1>3. EmailsUnique'
    BY DEF EInv, EmailsUnique, EmailsDistinct, SameEmail
  <1>. QED BY <1>1, <1>2, <1>3

\* Only the holder of usersMu is before Store.Put.
LEMMA OnePutter ==
    ASSUME EInv, NEW r \in Slot, pc[r] \in PutPoint, NEW q \in Slot, q # r
    PROVE  pc[q] \notin PutPoint
  BY DEF EInv, Exclusion

\* Each step of a handler keeps the emails unique: only PutUser writes one,
\* and it holds usersMu and has found its email free.
LEMMA EmailsStep ==
    ASSUME EInv, NEW r \in Slot, LockUsers(r) \/ Step(r)
    PROVE  Exclusion' /\ EmailFree' /\ EmailsUnique'
  <1> USE DEF PutPoint, Goto, storeVars
  <1>0. /\ pc \in [Slot -> Point] /\ loc \in [Slot -> Locals]
        /\ req \in [Slot -> Request] /\ None \notin Slot
    BY ConstantsAssumption DEF EInv, TypeOK
  <1>1. CASE LoginGetUser(r)
    BY <1>0, <1>1, EmailsFrame DEF LoginGetUser, Answer
  <1>2. CASE LoginPutSession(r)
    BY <1>0, <1>2, EmailsFrame DEF LoginPutSession, Answer
  <1>3. CASE GetSession(r)
    BY <1>0, <1>3, EmailsFrame DEF GetSession, Answer
  <1>4. CASE GetSessionUser(r)
    BY <1>0, <1>4, EmailsFrame DEF GetSessionUser, Answer
  <1>5. CASE EndSession(r)
    BY <1>0, <1>5, EmailsFrame DEF EndSession, Answer
  <1>6. CASE LockUsers(r)
    <2>1. \A q \in Slot : pc[q] \notin PutPoint
      BY <1>0, <1>6 DEF LockUsers, EInv, Exclusion
    <2>2. Exclusion'
      BY <1>0, <1>6, <2>1 DEF LockUsers, Exclusion, AfterEmail
    <2>3. loc'[r].user.email = req[r].email
      <3>1. loc[r] \in Locals /\ loc[r].user \in UserRecord
        BY <1>0 DEF Locals
      <3>. QED BY <1>0, <1>6, <3>1 DEF LockUsers, Locals, UserRecord
    <2>4. EmailFree'
      BY <1>0, <1>6, <2>1, <2>3 DEF LockUsers, EmailFree, AfterEmail, SameEmail
    <2>5. EmailsUnique'
      BY <1>6 DEF LockUsers, EInv, EmailsUnique, EmailsDistinct, SameEmail
    <2>. QED BY <2>2, <2>4, <2>5
  <1>7. CASE ListUsers(r)
    <2>1. \A q \in Slot \ {r} : pc[q] \notin PutPoint
      BY <1>7, OnePutter DEF ListUsers
    <2>2. Exclusion'
      BY <1>0, <1>7, <2>1 DEF ListUsers, EInv, Exclusion, AfterEmail
    <2>3. /\ loc'[r].user = loc[r].user
          /\ loc'[r].names = {u \in User : users[u] # NotFound} \ {req[r].name}
      BY <1>0, <1>7 DEF ListUsers, Locals
    <2>4. EmailFree'
      BY <1>0, <1>7, <2>1, <2>3 DEF ListUsers, EInv, EmailFree, AfterEmail, SameEmail
    <2>5. EmailsUnique'
      BY <1>7 DEF ListUsers, EInv, EmailsUnique, EmailsDistinct, SameEmail
    <2>. QED BY <2>2, <2>4, <2>5
  <1>8. ASSUME NEW u \in User, ScanUser(r, u)
        PROVE  Exclusion' /\ EmailFree' /\ EmailsUnique'
    <2>1. \A q \in Slot \ {r} : pc[q] \notin PutPoint
      BY <1>8, OnePutter DEF ScanUser
    <2>2. CASE Finish(r)
      BY <1>0, <1>8, <2>1, <2>2, EmailsFrame DEF ScanUser, Finish
    <2>3. CASE ~Finish(r)
      <3>1. /\ loc' = [loc EXCEPT ![r].names = loc[r].names \ {u}]
            /\ pc' = [pc EXCEPT ![r] = IF loc[r].names \ {u} = {} THEN AfterEmail(r)
                                       ELSE "scan_users"]
            /\ users[u] = NotFound \/ ~SameEmail(users[u].email, req[r].email)
            /\ UNCHANGED <<users, status, usersMu, req>>
        BY <1>8, <2>3 DEF ScanUser
      <3>2. Exclusion'
        BY <1>0, <1>8, <2>1, <3>1 DEF ScanUser, EInv, Exclusion, AfterEmail
      <3>3. /\ loc'[r].user = loc[r].user
            /\ loc'[r].names = loc[r].names \ {u}
        BY <1>0, <3>1 DEF Locals
      <3>4. EmailFree'
        BY <1>0, <1>8, <2>1, <3>1, <3>3
           DEF ScanUser, EInv, EmailFree, AfterEmail, SameEmail
      <3>5. EmailsUnique'
        BY <3>1 DEF EInv, EmailsUnique, EmailsDistinct, SameEmail
      <3>. QED BY <3>2, <3>4, <3>5
    <2>. QED BY <2>2, <2>3
  <1>9. CASE GetHash(r)
    <2>1. \A q \in Slot \ {r} : pc[q] \notin PutPoint
      BY <1>9, OnePutter DEF GetHash
    <2>2. Exclusion'
      BY <1>0, <1>9, <2>1 DEF GetHash, EInv, Exclusion
    <2>3. loc'[r].user.email = loc[r].user.email
      <3>1. loc[r] \in Locals /\ loc[r].user \in UserRecord
        BY <1>0 DEF Locals
      <3>. QED BY <1>0, <1>9, <3>1 DEF GetHash, Locals, UserRecord
    <2>4. EmailFree'
      BY <1>0, <1>9, <2>1, <2>3 DEF GetHash, EInv, EmailFree, SameEmail
    <2>5. EmailsUnique'
      BY <1>9 DEF GetHash, EInv, EmailsUnique, EmailsDistinct, SameEmail
    <2>. QED BY <2>2, <2>4, <2>5
  <1>10. CASE PutUser(r)
    <2>1. \A q \in Slot \ {r} : pc[q] \notin PutPoint
      BY <1>10, OnePutter DEF PutUser
    <2>2. \A q \in Slot : pc'[q] \notin PutPoint
      BY <1>0, <1>10, <2>1 DEF PutUser
    <2>3. Exclusion' /\ EmailFree'
      BY <2>2 DEF Exclusion, EmailFree
    <2>4. req[r].name \in User /\ users \in [User -> UserRecord \cup {NotFound}]
      BY <1>10 DEF PutUser, EInv, TypeOK, Control, AdminPoint
    <2> DEFINE usr == [loc[r].user EXCEPT !.rev = nextRev]
    <2>5. usr.email = req[r].email
      <3>1. loc[r].user \in UserRecord /\ loc[r].user.email = req[r].email
        BY <1>0, <1>10 DEF PutUser, Locals, EInv, EmailFree
      <3>. QED BY <3>1 DEF UserRecord
    <2>6. users' = [users EXCEPT ![req[r].name] = usr] /\ status' = status
      BY <1>10 DEF PutUser
    <2> HIDE DEF usr
    <2>7. \A u \in User \ {req[r].name} :
             users[u] # NotFound => ~SameEmail(users[u].email, req[r].email)
      BY <1>10 DEF PutUser, EInv, EmailFree
    <2>8. EmailsUnique'
      BY <2>4, <2>5, <2>6, <2>7 DEF EInv, EmailsUnique, EmailsDistinct, SameEmail
    <2>. QED BY <2>3, <2>8
  <1>11. CASE DeleteUser(r)
    <2>1. users \in [User -> UserRecord \cup {NotFound}]
      BY DEF EInv, TypeOK
    <2>2. \A u \in User : users'[u] = NotFound \/ users'[u] = users[u]
      BY <1>11, <2>1 DEF DeleteUser
    <2>3. \A q \in Slot : pc'[q] \in PutPoint => pc'[q] = pc[q]
      BY <1>0, <1>11 DEF DeleteUser
    <2>4. UNCHANGED <<req, loc, usersMu, status>>
      BY <1>11 DEF DeleteUser
    <2>5. Exclusion'
      BY <2>3, <2>4 DEF EInv, Exclusion
    <2>6. EmailFree'
      BY <2>2, <2>3, <2>4 DEF EInv, EmailFree, SameEmail
    <2>7. EmailsUnique'
      BY <2>2, <2>4 DEF EInv, EmailsUnique, EmailsDistinct, SameEmail
    <2>. QED BY <2>5, <2>6, <2>7
  <1>12. CASE ListSessions(r)
    <2>1. \A q \in Slot : usersMu' # usersMu => pc[q] \notin PutPoint
      BY <1>0, <1>12 DEF ListSessions, Finish, EInv, Exclusion
    <2>. QED BY <1>0, <1>12, <2>1, EmailsFrame DEF ListSessions, Finish
  <1>13. ASSUME NEW s \in SessionId, EndUserSession(r, s)
         PROVE  Exclusion' /\ EmailFree' /\ EmailsUnique'
    <2>1. \A q \in Slot : usersMu' # usersMu => pc[q] \notin PutPoint
      BY <1>0, <1>13 DEF EndUserSession, Finish, EInv, Exclusion
    <2>. QED BY <1>0, <1>13, <2>1, EmailsFrame DEF EndUserSession, Finish
  <1>14. CASE StoreError(r)
    <2>1. \A q \in Slot \ {r} : usersMu' # usersMu => pc[q] \notin PutPoint
      BY <1>0, <1>14 DEF StoreError, Finish, Answer, EInv, Exclusion
    <2>. QED BY <1>0, <1>14, <2>1, EmailsFrame DEF StoreError, Finish, Answer
  <1>15. CASE Respond(r)
    BY <1>0, <1>15, EmailsFrame DEF Respond
  <1>. QED
    BY <1>1, <1>2, <1>3, <1>4, <1>5, <1>6, <1>7, <1>8, <1>9, <1>10, <1>11,
       <1>12, <1>13, <1>14, <1>15 DEF Step

\* A request that arrives changes no user.
LEMMA EmailsArrive ==
    ASSUME EInv, NEW r \in Slot, Arrive(r)
    PROVE  Exclusion' /\ EmailFree' /\ EmailsUnique'
  <1>1. \E request, point : point \notin PutPoint /\ Begin(r, request, point)
    BY DEF Arrive, StartLogin, StartSession, StartLogout, StartDeleteUser,
           StartPutUser, PutPoint
  <1>2. PICK request, point : point \notin PutPoint /\ Begin(r, request, point)
    BY <1>1
  <1>. QED BY <1>2, EmailsFrame DEF Begin, storeVars, EInv, TypeOK

\* Every step of the system keeps EInv.
LEMMA EmailsNext ==
    ASSUME EInv, [Next]_vars
    PROVE  EInv'
  <1>0. TypeOK' /\ Control'
    BY TypeNext DEF EInv
  <1>1. CASE Start
    <2>1. Exclusion' /\ EmailFree'
      BY <1>1 DEF Start, EInv, Exclusion, EmailFree, storeVars, SameEmail
    <2>2. EmailsUnique'
      BY <1>1 DEF Start, EmailsUnique, CheckUserEmails, EmailsDistinct, storeVars,
                  SameEmail
    <2>. QED BY <1>0, <2>1, <2>2 DEF EInv
  <1>2. CASE Crash
    <2>1. Exclusion' /\ EmailFree'
      BY <1>2 DEF Crash, Exclusion, EmailFree, PutPoint
    <2>2. EmailsUnique'
      BY <1>2 DEF Crash, EInv, EmailsUnique, EmailsDistinct, storeVars, SameEmail
    <2>. QED BY <1>0, <2>1, <2>2 DEF EInv
  <1>3. CASE Tick
    BY <1>0, <1>3, EmailsFrame DEF Tick, storeVars, EInv
  <1>4. ASSUME NEW s \in SessionId, DeleteSession(s)
        PROVE  EInv'
    BY <1>0, <1>4, EmailsFrame DEF DeleteSession, EInv
  <1>5. CASE UNCHANGED vars
    BY <1>0, <1>5, EmailsFrame DEF vars, EInv
  <1>. QED
    BY <1>0, <1>1, <1>2, <1>3, <1>4, <1>5, EmailsArrive, EmailsStep DEF Next, EInv

\* Two stored users never share an email, however many HandlePutUser and
\* HandleDeleteUser run at once and wherever the server dies.
THEOREM EmailsStayUnique == Spec => []EmailsUnique
  <1>1. EInv /\ [Next]_vars => EInv'
    BY EmailsNext
  <1>2. EInv => EmailsUnique
    BY DEF EInv
  <1>. QED BY <1>1, <1>2, EmailsInit, PTL DEF Spec

-----------------------------------------------------------------------------
\* The sessions.

\* What one step may do to the Store, the clock and the two counters.
Effect ==
    /\ nextRev' \in Nat /\ nextId' \in Nat /\ now' \in Nat
    /\ nextRev <= nextRev' /\ nextId <= nextId' /\ now <= now'
    /\ \A u \in User :
          \/ users'[u] = users[u]
          \/ users'[u] = NotFound
          \/ users'[u] # NotFound /\ users'[u].rev = nextRev /\ nextRev < nextRev'
    /\ \A s \in SessionId :
          \/ sessions'[s] = sessions[s]
          \/ sessions'[s] = NotFound
          \/ /\ s = nextId /\ nextId < nextId'
             /\ sessions'[s] # NotFound
             /\ sessions'[s].rev < nextRev /\ sessions'[s].id = s

SInv == TypeOK /\ Control /\ Revisions /\ Freshness

\* What any step may do to the Store: the effects Freshness relies on.
LEMMA EffectNext ==
    ASSUME SInv, [Next]_vars
    PROVE  Effect
  <1>0. /\ nextRev \in Nat /\ nextId \in Nat /\ now \in Nat
        /\ users \in [User -> UserRecord \cup {NotFound}]
        /\ sessions \in [SessionId -> SessionRecord \cup {NotFound}]
        /\ loc \in [Slot -> Locals]
    BY DEF SInv, TypeOK
  <1>1. CASE UNCHANGED <<users, sessions, nextRev, nextId>> /\ now' \in {now, now + 1}
    BY <1>0, <1>1 DEF Effect
  <1>2. ASSUME NEW s \in SessionId, DeleteSession(s) PROVE Effect
    BY <1>0, <1>2 DEF DeleteSession, Effect
  <1>3. ASSUME NEW r \in Slot, LoginPutSession(r) PROVE Effect
    <2> DEFINE session == [id |-> nextId, user |-> req[r].name,
                    nameID |-> loc[r].user.email, rev |-> loc[r].user.rev,
                    expire |-> now + SessionMaxAge]
    <2>1. req[r].name \in User /\ loc[r].user.rev < nextRev
      BY <1>3 DEF LoginPutSession, SInv, Control, Freshness, SlotFresh
    <2>2. nextId \in SessionId /\ session \in SessionRecord
      BY <1>0, <1>3, <2>1, ConstantsAssumption
         DEF LoginPutSession, SInv, TypeOK, SessionId, SessionRecord, Locals, UserRecord
    <2>3. /\ session # NotFound
          /\ session.rev < nextRev /\ session.id = nextId
      BY <2>1, <2>2, ConstantsAssumption
    <2>4. /\ sessions' = [sessions EXCEPT ![nextId] = session]
          /\ nextId' = nextId + 1
          /\ UNCHANGED <<users, nextRev, now>>
      BY <1>3 DEF LoginPutSession
    <2> HIDE DEF session
    <2>. QED BY <1>0, <2>2, <2>3, <2>4 DEF Effect
  <1>4. ASSUME NEW r \in Slot, EndSession(r) PROVE Effect
    BY <1>0, <1>4 DEF EndSession, Effect
  <1>5. ASSUME NEW r \in Slot, PutUser(r) PROVE Effect
    <2> DEFINE usr == [loc[r].user EXCEPT !.rev = nextRev]
    <2>1. usr \in UserRecord /\ usr.rev = nextRev
      BY <1>0 DEF Locals, UserRecord
    <2>2. usr # NotFound
      BY <2>1, ConstantsAssumption
    <2>3. /\ users' = [users EXCEPT ![req[r].name] = usr]
          /\ nextRev' = nextRev + 1
          /\ UNCHANGED <<sessions, nextId, now>>
      BY <1>5 DEF PutUser
    <2> HIDE DEF usr
    <2>. QED BY <1>0, <2>1, <2>2, <2>3 DEF Effect
  <1>6. ASSUME NEW r \in Slot, DeleteUser(r) PROVE Effect
    BY <1>0, <1>6 DEF DeleteUser, Effect
  <1>7. ASSUME NEW r \in Slot, NEW s \in SessionId, EndUserSession(r, s) PROVE Effect
    BY <1>0, <1>7 DEF EndUserSession, Effect
  <1>8. CASE Start \/ Crash \/ Tick \/ UNCHANGED vars
    BY <1>1, <1>8 DEF Start, Crash, Tick, vars, storeVars
  <1>9. ASSUME NEW r \in Slot, Arrive(r) PROVE Effect
    <2>1. UNCHANGED <<storeVars, now>>
      BY <1>9 DEF Arrive, StartLogin, StartSession, StartLogout, StartDeleteUser,
                  StartPutUser, Begin
    <2>. QED BY <1>1, <2>1 DEF storeVars
  <1>10. ASSUME NEW r \in Slot,
                \/ LoginGetUser(r) \/ GetSession(r) \/ GetSessionUser(r)
                \/ LockUsers(r) \/ ListUsers(r) \/ (\E u \in User : ScanUser(r, u))
                \/ GetHash(r) \/ ListSessions(r) \/ StoreError(r) \/ Respond(r)
         PROVE Effect
    <2>1. UNCHANGED <<storeVars, now>>
      BY <1>10 DEF LoginGetUser, GetSession, GetSessionUser, LockUsers, ListUsers,
                   ScanUser, GetHash, ListSessions, StoreError, Respond
    <2>. QED BY <1>1, <2>1 DEF storeVars
  <1>. QED
    BY <1>2, <1>3, <1>4, <1>5, <1>6, <1>7, <1>8, <1>9, <1>10 DEF Next, Step

\* Revisions stay below the next one to be drawn.
LEMMA RevisionsNext ==
    ASSUME SInv, Effect, TypeOK'
    PROVE  Revisions'
  <1>1. \A u \in User : users'[u] # NotFound => users'[u].rev < nextRev'
    BY DEF SInv, TypeOK, UserRecord, Effect, Revisions
  <1>2. ASSUME NEW s \in SessionId, sessions'[s] # NotFound
        PROVE  sessions'[s].rev < nextRev' /\ sessions'[s].id = s /\ s < nextId'
    <2>0. /\ nextRev \in Nat /\ nextRev' \in Nat /\ nextRev <= nextRev'
          /\ nextId \in Nat /\ nextId' \in Nat /\ nextId <= nextId' /\ s \in Nat
      BY DEF SInv, TypeOK, Effect, SessionId
    <2>1. CASE sessions'[s] = sessions[s]
      <3>1. /\ sessions[s].rev \in Nat
            /\ sessions[s].rev < nextRev /\ sessions[s].id = s /\ s < nextId
        BY <1>2, <2>1 DEF SInv, TypeOK, SessionRecord, Revisions
      <3>. QED BY <2>0, <2>1, <3>1
    <2>2. CASE sessions'[s] # sessions[s]
      <3>1. /\ s = nextId /\ nextId < nextId'
            /\ sessions'[s].rev < nextRev /\ sessions'[s].id = s
        BY <1>2, <2>2 DEF Effect
      <3>2. sessions'[s].rev \in Nat
        BY <1>2 DEF TypeOK, SessionRecord
      <3>. QED BY <2>0, <3>1, <3>2
    <2>. QED BY <2>1, <2>2
  <1>. QED BY <1>1, <1>2 DEF Revisions

\* A session of a past revision is not revived by what a step does to its user.
LEMMA OutdatedStays ==
    ASSUME SInv, Effect, NEW session \in SessionRecord, session.rev < nextRev,
           ~RevisionCurrent(session)
    PROVE  ~RevisionCurrent(session)'
  BY DEF SInv, TypeOK, UserRecord, SessionRecord, Effect, RevisionCurrent

\* A session that is not usable before a step is not usable after it.
LEMMA RefusedStays ==
    ASSUME SInv, Effect, NEW s \in SessionId, s < nextId, ~Usable(s)
    PROVE  ~Usable(s)'
  <1>1. CASE sessions[s] = NotFound
    BY <1>1 DEF SInv, TypeOK, SessionId, Effect, Usable
  <1>2. CASE sessions[s] # NotFound /\ now > sessions[s].expire
    <2>1. sessions'[s] = sessions[s] \/ sessions'[s] = NotFound
      BY DEF Effect, SInv, TypeOK, SessionId
    <2>2. sessions[s].expire \in Nat
      BY <1>2 DEF SInv, TypeOK, SessionRecord
    <2>. QED BY <1>2, <2>1, <2>2 DEF Usable, Effect, SInv, TypeOK
  <1>3. CASE sessions[s] # NotFound /\ ~RevisionCurrent(sessions[s])
    <2>1. sessions'[s] = sessions[s] \/ sessions'[s] = NotFound
      BY DEF Effect, SInv, TypeOK, SessionId
    <2>2. sessions[s] \in SessionRecord /\ sessions[s].rev < nextRev
      BY <1>3 DEF SInv, TypeOK, Revisions
    <2>3. ASSUME NEW x \in SessionRecord, x = sessions[s] PROVE ~RevisionCurrent(x)'
      BY <1>3, <2>2, <2>3, OutdatedStays
    <2>4. sessions'[s] # NotFound
            => ~(/\ users'[sessions'[s].user] # NotFound
                 /\ users'[sessions'[s].user].rev = sessions'[s].rev)
      BY <2>1, <2>2, <2>3 DEF RevisionCurrent
    <2>. QED BY <2>4 DEF Usable
  <1>4. ~(now > sessions[s].expire) => sessions[s] = NotFound \/ now <= sessions[s].expire
    BY DEF SInv, TypeOK, SessionRecord
  <1>. QED BY <1>1, <1>2, <1>3, <1>4 DEF Usable, RevisionCurrent

\* A handler that does not step keeps what it knows.
LEMMA FreshFrame ==
    ASSUME SInv, Effect, NEW r \in Slot,
           pc'[r] = pc[r], req'[r] = req[r], loc'[r] = loc[r], hist'[r] = hist[r]
    PROVE  SlotFresh(r)'
  <1>0. /\ nextRev \in Nat /\ nextRev' \in Nat /\ nextRev <= nextRev'
        /\ nextId \in Nat /\ nextId' \in Nat /\ nextId <= nextId'
        /\ hist[r].revs \in [User -> Nat] /\ hist[r].gone \subseteq SessionId
        /\ loc[r].user.rev \in Nat
        /\ SlotFresh(r)
    BY DEF SInv, TypeOK, Effect, History, Locals, UserRecord, Freshness
  <1>1. loc[r].session # NotFound
          => /\ loc[r].session \in SessionRecord
             /\ loc[r].session.rev \in Nat /\ loc[r].session.id \in Nat
    BY DEF SInv, TypeOK, Locals, SessionRecord, SessionId
  <1>2. \A s \in hist[r].gone : s \in Nat /\ s < nextId' /\ ~Usable(s)'
    BY <1>0, RefusedStays DEF SlotFresh, SessionId
  <1>3. \A u \in User : hist[r].revs[u] <= CurrentRevision(u)'
    BY <1>0 DEF SlotFresh, CurrentRevision, Effect, SInv, TypeOK, Revisions, UserRecord
  <1>4. ASSUME pc[r] = "get_user", loc[r].session.id \in hist[r].gone
        PROVE  ~RevisionCurrent(loc[r].session)'
    <2>1. /\ loc[r].session # NotFound /\ loc[r].session.rev < nextRev
          /\ ~RevisionCurrent(loc[r].session)
      BY <1>0, <1>4 DEF SInv, Control, SlotFresh
    <2>2. ASSUME NEW x \in SessionRecord, x = loc[r].session PROVE ~RevisionCurrent(x)'
      BY <2>1, <2>2, OutdatedStays
    <2>. QED BY <1>1, <2>1, <2>2 DEF RevisionCurrent
  <1>. QED BY <1>0, <1>1, <1>2, <1>3, <1>4 DEF SlotFresh

\* A handler that answers keeps no more than the session it was given.
LEMMA FreshAnswer ==
    ASSUME SInv, Effect, NEW r \in Slot,
           NEW session \in SessionRecord \cup {NotFound},
           NEW set \in BOOLEAN, NEW clear \in BOOLEAN,
           Answer(r, session, set, clear),
           session # NotFound =>
              /\ session.rev < nextRev' /\ session.id < nextId'
              /\ session.id \notin hist[r].gone
              /\ session.rev >= hist[r].revs[session.user]
    PROVE  SlotFresh(r)'
  <1>0. /\ nextId \in Nat /\ nextId' \in Nat /\ nextId <= nextId'
        /\ hist[r].gone \subseteq SessionId
        /\ hist[r].revs \in [User -> Nat]
        /\ loc \in [Slot -> Locals] /\ pc \in [Slot -> Point]
        /\ SlotFresh(r)
    BY DEF SInv, TypeOK, Effect, History, Freshness
  <1>1. pc'[r] = "done" /\ hist'[r] = hist[r] /\ loc'[r].session = session
    <2> DEFINE l == [NoLocals EXCEPT !.session = session, !.setCookie = set,
                                     !.clearCookie = clear]
    <2>1. l.session = session
      BY DEF NoLocals
    <2>2. loc'[r] = l /\ pc'[r] = "done" /\ hist' = hist
      BY <1>0 DEF Answer, Goto
    <2>. QED BY <2>1, <2>2
  <1>2. \A s \in hist[r].gone : s < nextId' /\ ~Usable(s)'
    BY <1>0, RefusedStays DEF SlotFresh, SessionId
  <1>3. \A u \in User : hist[r].revs[u] <= CurrentRevision(u)'
    BY <1>0 DEF SlotFresh, CurrentRevision, Effect, SInv, TypeOK, Revisions, UserRecord
  <1>. QED BY <1>1, <1>2, <1>3 DEF SlotFresh

\* A request that begins, or is over, relies on no session.
LEMMA FreshIdle ==
    ASSUME SInv, Effect, NEW r \in Slot,
           \/ loc'[r].session = NotFound
           \/ loc'[r].session = loc[r].session /\ pc'[r] # "done",
           pc'[r] \notin {"login_put", "get_user"},
           \/ hist'[r] = NoHistory
           \/ hist'[r] = hist[r]
           \/ hist'[r] = CurrentHistory
    PROVE  SlotFresh(r)'
  <1>0. /\ nextId \in Nat /\ nextId' \in Nat /\ nextId <= nextId'
        /\ nextRev \in Nat /\ nextRev' \in Nat /\ nextRev <= nextRev'
        /\ hist[r].gone \subseteq SessionId
        /\ hist[r].revs \in [User -> Nat]
        /\ SlotFresh(r)
    BY DEF SInv, TypeOK, Effect, History, Freshness
  <1>s. loc'[r].session # NotFound
          => loc'[r].session.rev < nextRev' /\ loc'[r].session.id < nextId'
    <2>1. loc[r].session # NotFound
            => loc[r].session.rev \in Nat /\ loc[r].session.id \in Nat
      BY DEF SInv, TypeOK, Locals, SessionRecord, SessionId
    <2>. QED BY <1>0, <2>1 DEF SlotFresh
  <1>1. CASE hist'[r] = hist[r]
    <2>1. \A s \in hist[r].gone : s < nextId' /\ ~Usable(s)'
      BY <1>0, RefusedStays DEF SlotFresh, SessionId
    <2>2. \A u \in User : hist[r].revs[u] <= CurrentRevision(u)'
      BY <1>0 DEF SlotFresh, CurrentRevision, Effect, SInv, TypeOK, Revisions, UserRecord
    <2>. QED BY <1>s, <1>1, <2>1, <2>2 DEF SlotFresh
  <1>2. CASE hist'[r] = NoHistory
    <2>1. \A u \in User : 0 <= CurrentRevision(u)'
      BY <1>0 DEF CurrentRevision, Effect, SInv, TypeOK, UserRecord
    <2>. QED BY <1>s, <1>2, <2>1 DEF SlotFresh, NoHistory
  <1>3. CASE hist'[r] = CurrentHistory
    <2>1. \A s \in CurrentHistory.gone : s < nextId' /\ ~Usable(s)'
      BY <1>0, RefusedStays DEF CurrentHistory, SessionId
    <2>2. \A u \in User : CurrentHistory.revs[u] <= CurrentRevision(u)'
      BY <1>0 DEF CurrentHistory, CurrentRevision, Effect, SInv, TypeOK, Revisions,
                  UserRecord
    <2>. QED BY <1>s, <1>3, <2>1, <2>2 DEF SlotFresh
  <1>. QED BY <1>1, <1>2, <1>3

\* A handler that moves to a point where it relies on no session.
LEMMA FreshMove ==
    ASSUME SInv, Effect, NEW r \in Slot, loc'[r].session = loc[r].session,
           pc'[r] \notin {"login_put", "get_user", "done"}, hist'[r] = hist[r]
    PROVE  SlotFresh(r)'
  <1>0. /\ nextId \in Nat /\ nextId' \in Nat /\ nextId <= nextId'
        /\ nextRev \in Nat /\ nextRev' \in Nat /\ nextRev <= nextRev'
        /\ hist[r].gone \subseteq SessionId
        /\ hist[r].revs \in [User -> Nat]
        /\ SlotFresh(r)
    BY DEF SInv, TypeOK, Effect, History, Freshness
  <1>1. \A s \in hist[r].gone : s < nextId' /\ ~Usable(s)'
    BY <1>0, RefusedStays DEF SlotFresh, SessionId
  <1>2. \A u \in User : hist[r].revs[u] <= CurrentRevision(u)'
    BY <1>0 DEF SlotFresh, CurrentRevision, Effect, SInv, TypeOK, Revisions, UserRecord
  <1>3. loc[r].session # NotFound
          => loc[r].session.rev < nextRev' /\ loc[r].session.id < nextId'
    <2>1. loc[r].session # NotFound
            => loc[r].session.rev \in Nat /\ loc[r].session.id \in Nat
      BY DEF SInv, TypeOK, Locals, SessionRecord, SessionId
    <2>. QED BY <1>0, <2>1 DEF SlotFresh
  <1>. QED BY <1>1, <1>2, <1>3 DEF SlotFresh

\* The slot of a step keeps its facts, action by action.
LEMMA FreshStep ==
    ASSUME SInv, Effect, NEW r \in Slot, LockUsers(r) \/ Step(r)
    PROVE  SlotFresh(r)'
  <1> USE DEF Goto
  <1>0. /\ pc \in [Slot -> Point] /\ loc \in [Slot -> Locals] /\ loc[r] \in Locals
        /\ req \in [Slot -> Request] /\ hist \in [Slot -> History]
        /\ hist[r].revs \in [User -> Nat] /\ hist[r].gone \subseteq SessionId
        /\ nextRev \in Nat /\ nextId \in Nat
        /\ SlotFresh(r)
    BY DEF SInv, TypeOK, Freshness, History
  <1>1. CASE LoginGetUser(r)
    <2>1. CASE Answer(r, NotFound, FALSE, FALSE)
      BY <2>1, FreshAnswer
    <2>2. CASE ~Answer(r, NotFound, FALSE, FALSE)
      <3>1. /\ users[req[r].name] # NotFound /\ req[r].name \in User
            /\ loc' = [loc EXCEPT ![r].user = users[req[r].name]]
            /\ pc' = [pc EXCEPT ![r] = "login_put"]
            /\ UNCHANGED <<users, sessions, nextRev, nextId, now, req, hist>>
        BY <1>1, <2>2 DEF LoginGetUser, SInv, Control, storeVars
      <3>2. loc'[r].session = loc[r].session /\ loc'[r].user = users[req[r].name]
        BY <1>0, <3>1 DEF Locals
      <3>3. /\ users[req[r].name].rev < nextRev
            /\ hist[r].revs[req[r].name] <= users[req[r].name].rev
        BY <1>0, <3>1 DEF SInv, Revisions, SlotFresh, CurrentRevision
      <3>4. \A s \in hist[r].gone : ~Usable(s)'
        BY <1>0, <3>1 DEF SlotFresh, Usable
      <3>5. \A u \in User : hist[r].revs[u] <= CurrentRevision(u)'
        BY <1>0, <3>1 DEF SlotFresh, CurrentRevision
      <3>. QED BY <1>0, <3>1, <3>2, <3>3, <3>4, <3>5 DEF SlotFresh
    <2>. QED BY <2>1, <2>2
  <1>2. CASE LoginPutSession(r)
    <2> DEFINE session == [id |-> nextId, user |-> req[r].name,
                    nameID |-> loc[r].user.email, rev |-> loc[r].user.rev,
                    expire |-> now + SessionMaxAge]
    <2>1. /\ req[r].name \in User /\ loc[r].user.rev < nextRev
          /\ hist[r].revs[req[r].name] <= loc[r].user.rev
          /\ loc[r].user.rev \in Nat
      BY <1>0, <1>2 DEF LoginPutSession, SInv, Control, SlotFresh, Locals, UserRecord
    <2>2. nextId \in SessionId /\ session \in SessionRecord
      BY <1>2, <2>1, ConstantsAssumption
         DEF LoginPutSession, SInv, TypeOK, SessionId, SessionRecord, Locals, UserRecord
    <2>3. /\ session.rev = loc[r].user.rev /\ session.id = nextId
          /\ session.user = req[r].name
      OBVIOUS
    <2>4. /\ Answer(r, session, TRUE, FALSE)
          /\ nextId' = nextId + 1 /\ nextRev' = nextRev
      BY <1>2 DEF LoginPutSession
    <2>5. session.id \notin hist[r].gone
      BY <1>0, <2>3 DEF SlotFresh, SessionId
    <2> HIDE DEF session
    <2>6. /\ session.rev < nextRev' /\ session.id < nextId'
          /\ session.rev >= hist[r].revs[session.user]
      BY <1>0, <2>1, <2>3, <2>4
    <2>. QED BY <2>2, <2>4, <2>5, <2>6, FreshAnswer
  <1>3. CASE GetSession(r)
    <2>1. CASE Answer(r, NotFound, FALSE, FALSE)
      BY <2>1, FreshAnswer
    <2>2. CASE ~Answer(r, NotFound, FALSE, FALSE)
      <3> DEFINE s == req[r].cookie
      <3>1. /\ sessions[s] # NotFound /\ s \in SessionId /\ ~(now > sessions[s].expire)
            /\ loc' = [loc EXCEPT ![r].session = sessions[s]]
            /\ pc' = [pc EXCEPT ![r] = "get_user"]
            /\ UNCHANGED <<users, sessions, nextRev, nextId, now, req, hist>>
        BY <1>3, <2>2 DEF GetSession, SInv, Control, storeVars
      <3> HIDE DEF s
      <3>2. loc'[r].session = sessions[s]
        BY <1>0, <3>1 DEF Locals
      <3>3. sessions[s].rev < nextRev /\ sessions[s].id = s /\ s < nextId
        BY <3>1 DEF SInv, Revisions
      <3>4. now <= sessions[s].expire
        BY <3>1 DEF SInv, TypeOK, SessionRecord
      <3>5. s \in hist[r].gone => ~RevisionCurrent(sessions[s])
        BY <1>0, <3>1, <3>4 DEF SlotFresh, Usable, RevisionCurrent
      <3>6. \A t \in hist[r].gone : t < nextId /\ ~Usable(t)'
        BY <1>0, <3>1 DEF SlotFresh, Usable
      <3>7. \A u \in User : hist[r].revs[u] <= CurrentRevision(u)'
        BY <1>0, <3>1 DEF SlotFresh, CurrentRevision
      <3>. QED
        BY <1>0, <3>1, <3>2, <3>3, <3>5, <3>6, <3>7 DEF SlotFresh, RevisionCurrent
    <2>. QED BY <2>1, <2>2
  <1>4. CASE GetSessionUser(r)
    <2>1. CASE Answer(r, NotFound, FALSE, FALSE)
      BY <2>1, FreshAnswer
    <2>2. CASE RevisionCurrent(loc[r].session) /\ Answer(r, loc[r].session, FALSE, FALSE)
      <3>1. /\ loc[r].session # NotFound /\ loc[r].session \in SessionRecord
            /\ UNCHANGED <<nextRev, nextId>>
        BY <1>0, <1>4 DEF GetSessionUser, SInv, Control, Locals, storeVars
      <3>2. /\ loc[r].session.rev < nextRev /\ loc[r].session.id < nextId
            /\ loc[r].session.id \notin hist[r].gone
        BY <1>0, <1>4, <2>2, <3>1 DEF GetSessionUser, SlotFresh
      <3>3. loc[r].session.user \in User
        BY <3>1 DEF SessionRecord
      <3>4. loc[r].session.rev >= hist[r].revs[loc[r].session.user]
        BY <1>0, <2>2, <3>1, <3>3
           DEF SlotFresh, CurrentRevision, RevisionCurrent, SessionRecord
      <3>. QED BY <2>2, <3>1, <3>2, <3>4, FreshAnswer
    <2>3. CASE pc' = [pc EXCEPT ![r] = "end_session"] /\ UNCHANGED <<req, loc, hist>>
      BY <1>0, <2>3, FreshMove
    <2>. QED BY <1>4, <2>1, <2>2, <2>3 DEF GetSessionUser
  <1>5. CASE EndSession(r)
    BY <1>5, FreshAnswer DEF EndSession
  <1>6. CASE LockUsers(r)
    BY <1>0, <1>6, FreshMove DEF LockUsers, AfterEmail, Locals
  <1>7. CASE ListUsers(r)
    BY <1>0, <1>7, FreshMove DEF ListUsers, AfterEmail, Locals
  <1>8. ASSUME NEW u \in User, ScanUser(r, u) PROVE SlotFresh(r)'
    <2>1. CASE Finish(r)
      BY <1>0, <2>1, FreshIdle DEF Finish, NoLocals
    <2>2. CASE ~Finish(r)
      BY <1>0, <1>8, <2>2, FreshMove DEF ScanUser, AfterEmail, Locals
    <2>. QED BY <2>1, <2>2
  <1>9. CASE GetHash(r)
    BY <1>0, <1>9, FreshMove DEF GetHash, Locals
  <1>10. CASE PutUser(r)
    BY <1>0, <1>10, FreshMove DEF PutUser
  <1>11. CASE DeleteUser(r)
    BY <1>0, <1>11, FreshMove DEF DeleteUser
  <1>12. CASE ListSessions(r)
    <2>1. CASE Finish(r)
      BY <1>0, <2>1, FreshIdle DEF Finish, NoLocals
    <2>2. CASE ~Finish(r)
      BY <1>0, <1>12, <2>2, FreshMove DEF ListSessions, Locals
    <2>. QED BY <2>1, <2>2
  <1>13. ASSUME NEW s \in SessionId, EndUserSession(r, s) PROVE SlotFresh(r)'
    <2>1. CASE Finish(r)
      BY <1>0, <2>1, FreshIdle DEF Finish, NoLocals
    <2>2. CASE ~Finish(r)
      BY <1>0, <1>13, <2>2, FreshMove DEF EndUserSession, Locals
    <2>. QED BY <2>1, <2>2
  <1>14. CASE StoreError(r)
    <2>1. CASE Finish(r)
      BY <1>0, <2>1, FreshIdle DEF Finish, NoLocals
    <2>2. CASE Answer(r, NotFound, FALSE, FALSE)
      BY <2>2, FreshAnswer
    <2>. QED BY <1>14, <2>1, <2>2 DEF StoreError
  <1>15. CASE Respond(r)
    BY <1>0, <1>15, FreshIdle DEF Respond, NoLocals
  <1>. QED
    BY <1>1, <1>2, <1>3, <1>4, <1>5, <1>6, <1>7, <1>8, <1>9, <1>10, <1>11,
       <1>12, <1>13, <1>14, <1>15 DEF Step

\* A step of one handler leaves the others alone.
LEMMA OthersUnchanged ==
    ASSUME TypeOK, NEW r \in Slot, Arrive(r) \/ LockUsers(r) \/ Step(r),
           NEW q \in Slot, q # r
    PROVE  pc'[q] = pc[q] /\ req'[q] = req[q] /\ loc'[q] = loc[q] /\ hist'[q] = hist[q]
  <1>1. CASE Arrive(r)
    BY <1>1 DEF TypeOK, Arrive, StartLogin, StartSession, StartLogout,
                StartDeleteUser, StartPutUser, Begin
  <1>2. CASE LockUsers(r)
    BY <1>2 DEF TypeOK, LockUsers, Goto
  <1>3. CASE LoginGetUser(r) \/ LoginPutSession(r) \/ GetSession(r)
               \/ GetSessionUser(r) \/ EndSession(r)
    BY <1>3 DEF TypeOK, LoginGetUser, LoginPutSession, GetSession, GetSessionUser,
                EndSession, Answer, Goto
  <1>4. CASE ListUsers(r) \/ (\E u \in User : ScanUser(r, u)) \/ GetHash(r)
               \/ PutUser(r) \/ DeleteUser(r)
    BY <1>4 DEF TypeOK, ListUsers, ScanUser, GetHash, PutUser, DeleteUser, Finish, Goto
  <1>5. CASE ListSessions(r) \/ (\E s \in SessionId : EndUserSession(r, s))
               \/ StoreError(r) \/ Respond(r)
    BY <1>5 DEF TypeOK, ListSessions, EndUserSession, StoreError, Respond, Answer,
                Finish, Goto
  <1>. QED BY <1>1, <1>2, <1>3, <1>4, <1>5 DEF Step

\* SInv holds initially: there are no sessions.
LEMMA SessionsInit == Init => SInv
  <1> SUFFICES ASSUME Init PROVE SInv
    OBVIOUS
  <1>1. users \in [User -> UserRecord \cup {NotFound}]
        /\ \A u \in User : users[u] # NotFound => users[u].rev = 0
    BY ConstantsAssumption DEF Init
  <1>2. Revisions
    BY <1>1 DEF Init, Revisions
  <1>3. Freshness
    BY <1>1 DEF Init, Freshness, SlotFresh, NoLocals, NoHistory, CurrentRevision
  <1>. QED BY <1>2, <1>3, TypeInit DEF SInv

\* Every step of the system keeps SInv.
LEMMA SessionsNext ==
    ASSUME SInv, [Next]_vars
    PROVE  SInv' /\ Effect
  <1>0. TypeOK' /\ Control'
    BY TypeNext DEF SInv
  <1>1. Effect
    BY EffectNext
  <1>2. Revisions'
    BY <1>0, <1>1, RevisionsNext
  <1>3. ASSUME NEW r \in Slot PROVE SlotFresh(r)'
    <2>0. pc[r] \in Point /\ r \in DOMAIN loc /\ r \in DOMAIN hist /\ r \in DOMAIN pc
      BY DEF SInv, TypeOK
    <2>1. CASE Crash
      BY <1>1, <2>1, FreshIdle DEF Crash, NoLocals
    <2>2. CASE Start \/ Tick \/ (\E s \in SessionId : DeleteSession(s)) \/ UNCHANGED vars
      BY <1>1, <2>2, FreshFrame DEF Start, Tick, DeleteSession, vars
    <2>3. CASE Arrive(r)
      BY <1>1, <2>0, <2>3, FreshIdle
         DEF Arrive, StartLogin, StartSession, StartLogout, StartDeleteUser,
             StartPutUser, Begin
    <2>4. CASE LockUsers(r) \/ Step(r)
      BY <1>1, <2>4, FreshStep
    <2>5. ASSUME NEW q \in Slot, q # r, Arrive(q) \/ LockUsers(q) \/ Step(q)
          PROVE  SlotFresh(r)'
      <3>1. pc'[r] = pc[r] /\ req'[r] = req[r] /\ loc'[r] = loc[r] /\ hist'[r] = hist[r]
        BY <2>5, OthersUnchanged DEF SInv
      <3>. QED BY <1>1, <3>1, FreshFrame
    <2>. QED BY <2>1, <2>2, <2>3, <2>4, <2>5 DEF Next
  <1>. QED BY <1>0, <1>1, <1>2, <1>3 DEF SInv, Freshness

\* No request is given a session that had ceased to be usable, or details of its
\* user that had been replaced, when the request began, whatever runs beside it.
THEOREM NoStaleSessions == Spec => []NoStaleSession
  <1>1. SInv /\ [Next]_vars => SInv'
    BY SessionsNext
  <1>2. SInv => NoStaleSession
    BY DEF SInv, Freshness, SlotFresh, NoStaleSession
  <1>. QED BY <1>1, <1>2, SessionsInit, PTL DEF Spec

\* A session existingSession would refuse is refused from then on.
THEOREM RefusedStaysRefused == Spec => RefusedForever
  <1>1. SInv /\ [Next]_vars => SInv'
    BY SessionsNext
  <1>2. SInv /\ [Next]_vars
          => [\A s \in SessionId : s < nextId /\ ~Usable(s) => ~Usable(s)']_vars
    BY SessionsNext, RefusedStays
  <1>. QED BY <1>1, <1>2, SessionsInit, PTL DEF Spec, RefusedForever

-----------------------------------------------------------------------------
\* The NameIDs.

\* If user u still has the revision rev, its email is still e.
Linked(u, rev, e) == users[u] # NotFound /\ users[u].rev = rev => users[u].email = e

\* Sessions, and those about to be stored, carry the email of their revision.
Links ==
    /\ \A s \in SessionId : sessions[s] # NotFound
          => Linked(sessions[s].user, sessions[s].rev, sessions[s].nameID)
    /\ \A r \in Slot : pc[r] = "login_put"
          => Linked(req[r].name, loc[r].user.rev, loc[r].user.email)

\* Before the server is first up nothing runs and there are no sessions.
Unstarted ==
    status \in {"new", "refused"} => /\ \A s \in SessionId : sessions[s] = NotFound
                                     /\ \A r \in Slot : pc[r] = "idle"

NInv == EInv /\ SInv /\ Links /\ Unstarted

\* A step that changes a user draws a revision that no session has.
LEMMA LinkedStays ==
    ASSUME SInv, Effect, NEW u \in User, NEW rev \in Nat, rev < nextRev, NEW e,
           Linked(u, rev, e)
    PROVE  Linked(u, rev, e)'
  BY DEF SInv, TypeOK, Effect, Linked

\* A handler is about to store a session because it was before, or because it
\* has just read the user.
LEMMA LoginPutNext ==
    ASSUME TypeOK, Control, [Next]_vars, NEW r \in Slot, pc'[r] = "login_put"
    PROVE  \/ pc[r] = "login_put" /\ req'[r] = req[r] /\ loc'[r] = loc[r]
           \/ /\ users' = users /\ req'[r] = req[r]
              /\ loc'[r].user = users[req[r].name]
  <1>0. pc \in [Slot -> Point] /\ loc \in [Slot -> Locals]
    BY DEF TypeOK
  <1>1. CASE \E q \in Slot : q # r /\ (Arrive(q) \/ LockUsers(q) \/ Step(q))
    BY <1>1, OthersUnchanged
  <1>2. CASE Crash
    BY <1>2 DEF Crash
  <1>3. CASE Start \/ Tick \/ (\E s \in SessionId : DeleteSession(s)) \/ UNCHANGED vars
    BY <1>3 DEF Start, Tick, DeleteSession, vars
  <1>4. CASE Arrive(r)
    BY <1>0, <1>4 DEF Arrive, StartLogin, StartSession, StartLogout, StartDeleteUser,
                      StartPutUser, Begin
  <1>5. CASE LoginGetUser(r)
    BY <1>0, <1>5 DEF LoginGetUser, Answer, Goto, Locals, storeVars
  <1>6. CASE LoginPutSession(r) \/ GetSession(r) \/ GetSessionUser(r) \/ EndSession(r)
    BY <1>0, <1>6 DEF LoginPutSession, GetSession, GetSessionUser, EndSession, Answer, Goto
  <1>7. CASE LockUsers(r) \/ ListUsers(r) \/ (\E u \in User : ScanUser(r, u))
               \/ GetHash(r) \/ PutUser(r) \/ DeleteUser(r)
    BY <1>0, <1>7 DEF LockUsers, ListUsers, ScanUser, GetHash, PutUser, DeleteUser,
                      AfterEmail, Finish, Goto
  <1>8. CASE ListSessions(r) \/ (\E s \in SessionId : EndUserSession(r, s))
               \/ StoreError(r) \/ Respond(r)
    BY <1>0, <1>8 DEF ListSessions, EndUserSession, StoreError, Respond, Answer,
                      Finish, Goto
  <1>. QED BY <1>1, <1>2, <1>3, <1>4, <1>5, <1>6, <1>7, <1>8 DEF Next, Step

\* A request that arrives begins, and changes nothing else.
LEMMA ArriveFrame ==
    ASSUME NEW r \in Slot, Arrive(r)
    PROVE  status = "up" /\ UNCHANGED <<storeVars, status>>
  <1>1. \E request, point : Begin(r, request, point)
    BY DEF Arrive, StartLogin, StartSession, StartLogout, StartDeleteUser, StartPutUser
  <1>. QED BY <1>1 DEF Begin

\* A session appears only when a login stores it.
LEMMA SessionAppears ==
    ASSUME SInv, Effect, [Next]_vars, NEW s \in SessionId, sessions'[s] # NotFound,
           sessions'[s] # sessions[s]
    PROVE  \E r \in Slot : /\ pc[r] = "login_put"
                            /\ sessions'[s].user = req[r].name
                            /\ sessions'[s].rev = loc[r].user.rev
                            /\ sessions'[s].nameID = loc[r].user.email
  <1>0. nextId' # nextId /\ s = nextId
    BY DEF Effect, SInv, TypeOK
  <1>1. PICK r \in Slot : LoginPutSession(r)
    <2>1. \A r \in Slot : ~Arrive(r)
      BY <1>0, ArriveFrame DEF storeVars
    <2>2. \A r \in Slot : Step(r) \/ LockUsers(r) => LoginPutSession(r)
      BY <1>0 DEF Step, storeVars, LockUsers, LoginGetUser, GetSession, GetSessionUser,
         EndSession, ListUsers, ScanUser, GetHash, PutUser, DeleteUser, ListSessions,
         EndUserSession, StoreError, Respond
    <2>. QED
      BY <1>0, <2>1, <2>2 DEF Next, vars, storeVars, Start, Crash, Tick, DeleteSession
  <1>2. sessions \in [SessionId -> SessionRecord \cup {NotFound}]
    BY DEF SInv, TypeOK
  <1>. QED BY <1>0, <1>1, <1>2 DEF LoginPutSession

\* Every step keeps the links.
LEMMA LinksNext ==
    ASSUME NInv, [Next]_vars
    PROVE  Links'
  <1>0. SInv /\ Effect
    BY SessionsNext DEF NInv
  <1>1. ASSUME NEW r \in Slot, pc[r] = "login_put"
        PROVE  /\ req[r].name \in User /\ loc[r].user.rev \in Nat
               /\ loc[r].user.rev < nextRev
               /\ Linked(req[r].name, loc[r].user.rev, loc[r].user.email)
    BY <1>0, <1>1 DEF NInv, Links, SInv, TypeOK, Control, Freshness, SlotFresh, Locals,
                      UserRecord
  <1>2. ASSUME NEW r \in Slot, pc[r] = "login_put"
        PROVE  \A u, rev, e : u = req[r].name /\ rev = loc[r].user.rev
                                /\ e = loc[r].user.email => Linked(u, rev, e)'
    BY <1>0, <1>1, <1>2, LinkedStays
  <1>3. ASSUME NEW s \in SessionId, sessions'[s] # NotFound
        PROVE  Linked(sessions[s].user, sessions[s].rev, sessions[s].nameID)'
    <2>1. CASE sessions'[s] = sessions[s]
      <3>1. /\ sessions[s].user \in User /\ sessions[s].rev \in Nat
            /\ sessions[s].rev < nextRev
            /\ Linked(sessions[s].user, sessions[s].rev, sessions[s].nameID)
        BY <1>0, <1>3, <2>1 DEF NInv, Links, SInv, TypeOK, SessionRecord, Revisions
      <3>2. \A u, rev, e : u = sessions[s].user /\ rev = sessions[s].rev
                             /\ e = sessions[s].nameID => Linked(u, rev, e)'
        BY <1>0, <3>1, LinkedStays
      <3>. QED BY <2>1, <3>2 DEF Linked
    <2>2. CASE sessions'[s] # sessions[s]
      <3>1. PICK r \in Slot : /\ pc[r] = "login_put"
                              /\ sessions'[s].user = req[r].name
                              /\ sessions'[s].rev = loc[r].user.rev
                              /\ sessions'[s].nameID = loc[r].user.email
        BY <1>0, <1>3, <2>2, SessionAppears
      <3>. QED BY <1>2, <3>1 DEF Linked
    <2>. QED BY <2>1, <2>2
  <1>4. ASSUME NEW r \in Slot, pc'[r] = "login_put"
        PROVE  Linked(req[r].name, loc[r].user.rev, loc[r].user.email)'
    <2>1. CASE pc[r] = "login_put" /\ req'[r] = req[r] /\ loc'[r] = loc[r]
      BY <1>2, <2>1 DEF Linked
    <2>2. CASE /\ users' = users /\ req'[r] = req[r]
               /\ loc'[r].user = users[req[r].name]
      BY <2>2 DEF Linked
    <2>. QED BY <1>0, <1>4, <2>1, <2>2, LoginPutNext DEF SInv
  <1>. QED BY <1>3, <1>4 DEF Links

\* A server that is refused has never been up: EmailsUnique lets every other start.
LEMMA UnstartedNext ==
    ASSUME NInv, [Next]_vars
    PROVE  Unstarted'
  <1> SUFFICES ASSUME status' \in {"new", "refused"} PROVE Unstarted'
    BY DEF Unstarted
  <1>0. sessions \in [SessionId -> SessionRecord \cup {NotFound}]
    BY DEF NInv, SInv, TypeOK
  <1>1. CASE Start
    <2>1. status = "down" => status' = "up"
      BY <1>1 DEF Start, CheckUserEmails, NInv, EInv, EmailsUnique
    <2>. QED BY <1>1, <2>1 DEF Start, NInv, Unstarted, storeVars
  <1>2. CASE status' = status
    <2>1. \A r \in Slot : pc[r] = "idle"
      BY <1>2 DEF NInv, Unstarted
    <2>2. \A r \in Slot : ~Step(r) /\ ~LockUsers(r) /\ ~Arrive(r)
      <3>1. status # "up"
        BY <1>2
      <3>2. \A r \in Slot : ~Arrive(r)
        BY <3>1, ArriveFrame
      <3>3. \A r \in Slot : ~Step(r) /\ ~LockUsers(r)
        BY <2>1 DEF Step, LockUsers, LoginGetUser, LoginPutSession, GetSession,
             GetSessionUser, EndSession, ListUsers, ScanUser, GetHash, PutUser,
             DeleteUser, ListSessions, EndUserSession, StoreError, Respond,
             BrowserPoint, AdminPoint, PutPoint
      <3>. QED BY <3>2, <3>3
    <2>3. UNCHANGED <<sessions, pc>>
      BY <1>2, <2>2 DEF Next, Start, Crash, Tick, DeleteSession, vars, storeVars
    <2>. QED BY <1>2, <2>3 DEF NInv, Unstarted
  <1>3. Start \/ status' = status
    <2>1. Crash => status' = "down"
      BY DEF Crash
    <2>2. \A r \in Slot : Arrive(r) => status' = status
      BY ArriveFrame
    <2>3. \A r \in Slot : Step(r) \/ LockUsers(r) => status' = status
      BY DEF Step, LockUsers, LoginGetUser, LoginPutSession, GetSession, GetSessionUser,
             EndSession, ListUsers, ScanUser, GetHash, PutUser, DeleteUser,
             ListSessions, EndUserSession, StoreError, Respond
    <2>. QED BY <2>1, <2>2, <2>3 DEF Next, Tick, DeleteSession, vars
  <1>. QED BY <1>1, <1>2, <1>3

\* The sessions existingSession accepts carry the current email of their users,
\* and two of them with one NameID are of one user, however an email has gone
\* from one user to another.
THEOREM NameIDsOfOneUser == Spec => []OneUserPerNameID
  <1>1. Init => NInv
    <2>1. Init => Links /\ Unstarted
      BY DEF Init, Links, Unstarted
    <2>. QED BY <2>1, EmailsInit, SessionsInit DEF NInv
  <1>2. NInv /\ [Next]_vars => NInv'
    BY EmailsNext, SessionsNext, LinksNext, UnstartedNext DEF NInv
  <1>3. ASSUME NInv PROVE OneUserPerNameID
    <2>1. ASSUME NEW s \in SessionId, Usable(s)
          PROVE  /\ sessions[s].nameID = users[sessions[s].user].email
                 /\ sessions[s].user \in User
                 /\ users[sessions[s].user] # NotFound
                 /\ status \in {"up", "down"}
      BY <1>3, <2>1 DEF NInv, Links, Linked, Unstarted, Usable, SInv, TypeOK, SessionRecord
    <2>2. ASSUME NEW s \in SessionId, NEW t \in SessionId, Usable(s), Usable(t),
                 SameEmail(sessions[s].nameID, sessions[t].nameID)
          PROVE  sessions[s].user = sessions[t].user
      <3>1. EmailsDistinct(users)
        BY <1>3, <2>1, <2>2 DEF NInv, EInv, EmailsUnique
      <3>. QED BY <2>1, <2>2, <3>1 DEF EmailsDistinct
    <2>. QED BY <2>1, <2>2 DEF OneUserPerNameID
  <1>. QED BY <1>1, <1>2, <1>3, PTL DEF Spec

=============================================================================
