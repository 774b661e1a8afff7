----------------------- MODULE ServiceRegistryProofs -----------------------
(***************************************************************************)
(* What ServiceRegistry guarantees for any number of concurrent requests,  *)
(* services, entity IDs and documents, proved with TLAPS.                  *)
(*                                                                         *)
(* TypeOK and Control say what a request holds at each control point;      *)
(* Mutex says what idpConfigMu excludes.  With them, Registry relates the  *)
(* maps to the Store at every point of a change, including between the     *)
(* Store operation and the maps, and Covered keeps the expiry of a group   *)
(* on each of its entities.                                                *)
(***************************************************************************)
EXTENDS ServiceRegistry, TLAPS, WellFoundedInduction

PutPoint == {"put_lock", "put_get", "put_put", "put_map"}
DeletePoint == {"delete_lock", "delete_get", "delete_delete", "delete_map"}

\* Between idpConfigMu.Lock and the deferred Unlock.
WritePoint == (PutPoint \cup DeletePoint) \ {"put_lock", "delete_lock"}

\* The Store holds the change and the maps do not yet.
MapPoint == {"put_map", "delete_map"}

\* The previous record of the service has been read.
StorePoint == {"put_put", "delete_delete"} \cup MapPoint

\* What a request holds at each control point.
Control ==
    \A r \in Slot :
       /\ pc[r] \in PutPoint \cup DeletePoint => arg[r].service \in Service
       /\ pc[r] \in PutPoint => arg[r].metadata # NotFound
       /\ pc[r] \in DeletePoint \cap StorePoint => arg[r].previous # NotFound
       /\ pc[r] \in {"rlock", "read"} => ask[r].entity \in Entity
       /\ status # "up" => pc[r] = "idle"

\* idpConfigMu: one writer, and no reader once it has got the mutex.
Mutex ==
    \A r \in Slot :
       /\ pc[r] \in WritePoint <=> writer = r
       /\ pc[r] = "read" => readers[r] # 0
       /\ pc[r] \in StorePoint => \A q \in Slot : readers[q] = 0

-----------------------------------------------------------------------------
\* Documents.

\* The expiry of metadata is not later than that of the group it came from.
Covers(m) == m.group # 0 => m.until # 0 /\ m.until <= m.group

\* A set of indices that is not empty has a first one.
LEMMA FirstExists ==
    ASSUME NEW S \in SUBSET Nat, S # {}
    PROVE  \E i \in S : \A j \in S : i <= j
  <1>1. PICK i \in S : \A j \in S : <<j, i>> \notin OpToRel(<, Nat)
    BY NatLessThanWellFounded, WFMin
  <1>2. ASSUME NEW j \in S PROVE i <= j
    <2>1. j < i => <<j, i>> \in OpToRel(<, Nat)
      BY DEF OpToRel
    <2>2. ~(j < i)
      BY <1>1, <2>1, Zenon
    <2>3. i \in Nat /\ j \in Nat
      OBVIOUS
    <2>. QED BY <2>2, <2>3
  <1>. QED BY <1>2

\* getSPMetadata returns metadata, or nothing, and never loses the expiry of the
\* EntitiesDescriptor.
LEMMA DocumentMetadata ==
    ASSUME NEW d \in Document, GetSPMetadata(d) # NotFound
    PROVE  GetSPMetadata(d) \in Metadata /\ Covers(GetSPMetadata(d))
  <1>1. /\ d \in [grouped: BOOLEAN, until: Time, entities: Seq(Metadata)]
        /\ ~d.grouped => Len(d.entities) = 1
        /\ \A i \in 1..Len(d.entities) : d.entities[i].group = 0
        /\ d.until \in Nat
    BY RegistryAssumption DEF Time
  <1>2. CASE ~d.grouped
    <2>1. GetSPMetadata(d) = d.entities[1]
      BY <1>2 DEF GetSPMetadata
    <2>. QED BY <1>1, <1>2, <2>1 DEF Covers
  <1>3. CASE d.grouped
    <2> DEFINE sps == {i \in 1..Len(d.entities) : d.entities[i].descriptors # {}}
               first == CHOOSE i \in sps : \A j \in sps : i <= j
               m == d.entities[first]
               u == GroupUntil(m, d.until)
    <2>1. sps # {}
      BY <1>3 DEF GetSPMetadata
    <2>2. sps \in SUBSET Nat
      BY <1>1
    <2>3. first \in sps
      <3> HIDE DEF sps
      <3>. QED BY <2>1, <2>2, FirstExists
    <2>4. m \in Metadata
      BY <1>1, <2>3
    <2>5. GetSPMetadata(d) = [m EXCEPT !.until = u, !.group = d.until]
      BY <1>3, <2>1 DEF GetSPMetadata
    <2> HIDE DEF first, sps, m
    <2>6. u \in Time /\ (d.until # 0 => u # 0 /\ u <= d.until)
      BY <1>1, <2>4, RegistryAssumption DEF Metadata, GroupUntil, Time
    <2> HIDE DEF u
    <2>. QED BY <1>1, <2>4, <2>5, <2>6 DEF Metadata, Covers
  <1>. QED BY <1>2, <1>3

\* currentMetadata removes descriptors only.
LEMMA CurrentMetadataType ==
    ASSUME NEW m \in Metadata, NEW t
    PROVE  CurrentMetadata(m, t) \in Metadata \cup {NotFound}
  BY DEF CurrentMetadata, Metadata

-----------------------------------------------------------------------------
\* Types.

\* Initially.
LEMMA TypeInit == Init => TypeOK /\ Control /\ Mutex
  <1> SUFFICES ASSUME Init PROVE TypeOK /\ Control /\ Mutex
    OBVIOUS
  <1>1. TypeOK
    BY RegistryAssumption DEF Init, TypeOK, NoArg, NoAsk, NoGot, RelayState, Time
  <1>2. Control /\ Mutex
    BY RegistryAssumption DEF Init, Control, Mutex, PutPoint, DeletePoint, WritePoint,
       StorePoint, MapPoint
  <1>. QED BY <1>1, <1>2

\* A request that is over leaves nothing behind.
LEMMA FinishType ==
    ASSUME TypeOK, Control, NEW r \in Slot, Finish(r), status' = status
    PROVE  /\ writer' \in Slot \cup {None}
           /\ pc' = [pc EXCEPT ![r] = "idle"]
           /\ pc' \in [Slot -> {"idle", "put_lock", "put_get", "put_put", "put_map",
                          "delete_lock", "delete_get", "delete_delete", "delete_map",
                          "rlock", "read", "done"}]
           /\ arg' \in [Slot -> [service: Service \cup {None},
                                 metadata: Metadata \cup {NotFound},
                                 previous: Metadata \cup {NotFound}]]
           /\ ask' \in [Slot -> [entity: Entity \cup {NotFound},
                                 shortcut: ShortcutRecord \cup {NotFound},
                                 suffix: Suffix \cup {None}, relay: RelayState]]
           /\ got' \in [Slot -> [metadata: Metadata \cup {NotFound}, time: Time]]
           /\ \A q \in Slot \ {r} : /\ pc'[q] = pc[q] /\ arg'[q] = arg[q]
                                    /\ ask'[q] = ask[q] /\ got'[q] = got[q]
           /\ got'[r] = NoGot
           /\ Control'
  <1>1. NoArg \in [service: Service \cup {None}, metadata: Metadata \cup {NotFound},
                   previous: Metadata \cup {NotFound}]
    BY DEF NoArg
  <1>2. NoAsk \in [entity: Entity \cup {NotFound}, shortcut: ShortcutRecord \cup {NotFound},
                   suffix: Suffix \cup {None}, relay: RelayState]
    BY DEF NoAsk, RelayState
  <1>3. NoGot \in [metadata: Metadata \cup {NotFound}, time: Time]
    BY RegistryAssumption DEF NoGot, Time
  <1>4. Control'
    BY DEF Finish, Goto, TypeOK, Control, PutPoint, DeletePoint
  <1>. QED BY <1>1, <1>2, <1>3, <1>4 DEF TypeOK, Finish, Goto

\* deregisterServiceProvider leaves maps of the same type.
LEMMA DeregisterType ==
    ASSUME TypeOK, NEW s, NEW e
    PROVE  /\ Deregister(s, e).providers \in [Entity -> Metadata \cup {NotFound}]
           /\ Deregister(s, e).owner \in [Entity -> Service \cup {None}]
  BY DEF Deregister, TypeOK

\* A request that arrives keeps types and control facts.
LEMMA ArriveType ==
    ASSUME TypeOK, Control, NEW r \in Slot, Arrive(r)
    PROVE  TypeOK' /\ Control'
  <1> USE DEF TypeOK, Goto, storeVars, mapVars, lockVars, PutPoint, DeletePoint,
              StorePoint, MapPoint
  <1>1. ASSUME NEW s \in Service, StartDeleteService(r, s) PROVE TypeOK' /\ Control'
    <2>1. TypeOK'
      <3>1. [arg[r] EXCEPT !.service = s] \in [service: Service \cup {None},
                metadata: Metadata \cup {NotFound}, previous: Metadata \cup {NotFound}]
        <4>1. arg[r] \in [service: Service \cup {None},
                 metadata: Metadata \cup {NotFound}, previous: Metadata \cup {NotFound}]
          OBVIOUS
        <4>. QED BY <4>1
      <3>. QED BY <1>1, <3>1 DEF StartDeleteService
    <2>2. Control'
      BY <1>1 DEF StartDeleteService, Control
    <2>. QED BY <2>1, <2>2
  <1>2. ASSUME NEW s \in Service, NEW d \in Document, StartPutService(r, s, d)
        PROVE  TypeOK' /\ Control'
    BY <1>2, DocumentMetadata DEF StartPutService, Control
  <1>3. ASSUME NEW e \in Entity, StartSSO(r, e) PROVE TypeOK' /\ Control'
    <2>1. TypeOK'
      BY <1>3 DEF StartSSO
    <2>2. Control'
      BY <1>3 DEF StartSSO, Control
    <2>. QED BY <2>1, <2>2
  <1>4. ASSUME NEW x \in Shortcut, NEW suffix \in Suffix \cup {None},
               StartShortcut(r, x, suffix)
        PROVE  TypeOK' /\ Control'
    BY <1>4 DEF StartShortcut, Control, AskShortcut, RelayStateOf, ShortcutRecord, RelayState
  <1>. QED BY <1>1, <1>2, <1>3, <1>4 DEF Arrive

\* So does every step of a handler.
LEMMA StepType ==
    ASSUME TypeOK, Control, NEW r \in Slot, Acquire(r) \/ Step(r)
    PROVE  TypeOK' /\ Control'
  <1> USE DEF TypeOK, Goto, storeVars, mapVars, lockVars, PutPoint, DeletePoint,
              StorePoint, MapPoint
  <1>1. CASE Acquire(r)
    <2>1. TypeOK'
      <3>1. CASE PutLock(r) \/ DeleteLock(r)
        BY <3>1 DEF PutLock, DeleteLock, LockAnnounce
      <3>2. CASE RLock(r)
        BY <3>2 DEF RLock
      <3>. QED BY <1>1, <3>1, <3>2 DEF Acquire
    <2>2. Control'
      BY <1>1 DEF Acquire, PutLock, DeleteLock, RLock, LockAnnounce, Control
    <2>. QED BY <2>1, <2>2
  <1>2. CASE PutGet(r)
    <2>1. CASE Finish(r)
      BY <1>2, <2>1, FinishType DEF PutGet
    <2>2. CASE /\ arg' = [arg EXCEPT ![r].previous = services[arg[r].service]]
               /\ Goto(r, "put_put")
               /\ UNCHANGED <<writer, ask, got>>
      BY <1>2, <2>2 DEF PutGet, Control
    <2>. QED BY <1>2, <2>1, <2>2 DEF PutGet
  <1>3. CASE PutPut(r)
    BY <1>3 DEF PutPut, Control
  <1>4. CASE PutMap(r)
    <2> DEFINE m == arg[r].metadata
               base == IF arg[r].previous # NotFound
                       THEN Deregister(arg[r].service, arg[r].previous.entity)
                       ELSE [providers |-> providers, owner |-> owner]
    <2>1. /\ base.providers \in [Entity -> Metadata \cup {NotFound}]
          /\ base.owner \in [Entity -> Service \cup {None}]
      BY DeregisterType
    <2>2. /\ providers' = [base.providers EXCEPT ![m.entity] = m]
          /\ owner' = [base.owner EXCEPT ![m.entity] = arg[r].service]
          /\ Finish(r)
          /\ UNCHANGED <<storeVars, readers, status, now>>
      BY <1>4 DEF PutMap
    <2> HIDE DEF base
    <2>. QED BY <2>1, <2>2, FinishType
  <1>5. CASE DeleteGet(r)
    <2>1. CASE Finish(r)
      BY <1>5, <2>1, FinishType DEF DeleteGet
    <2>2. CASE /\ services[arg[r].service] # NotFound
               /\ arg' = [arg EXCEPT ![r].previous = services[arg[r].service]]
               /\ Goto(r, "delete_delete")
               /\ UNCHANGED <<writer, ask, got>>
      <3>1. TypeOK'
        BY <1>5, <2>2 DEF DeleteGet, Control
      <3>2. Control'
        BY <1>5, <2>2 DEF DeleteGet, Control
      <3>. QED BY <3>1, <3>2
    <2>. QED BY <1>5, <2>1, <2>2 DEF DeleteGet
  <1>6. CASE DeleteDelete(r)
    BY <1>6 DEF DeleteDelete, Control
  <1>7. CASE DeleteMap(r)
    BY <1>7, FinishType, DeregisterType DEF DeleteMap
  <1>8. CASE StoreError(r)
    BY <1>8, FinishType DEF StoreError
  <1>9. CASE Read(r)
    <2>1. Lookup(ask[r].entity, now) \in Metadata \cup {NotFound}
      BY <1>9, CurrentMetadataType DEF Read, Control, Lookup
    <2>. QED BY <1>9, <2>1 DEF Read, Control
  <1>10. CASE Respond(r)
    BY <1>10, FinishType DEF Respond
  <1>. QED BY <1>1, <1>2, <1>3, <1>4, <1>5, <1>6, <1>7, <1>8, <1>9, <1>10 DEF Step

\* So does everything else: the clock, the shortcuts, a crash and a restart.
LEMMA NextType ==
    ASSUME TypeOK, Control, [Next]_vars
    PROVE  TypeOK' /\ Control'
  <1> USE DEF TypeOK, storeVars, mapVars, lockVars, localVars
  <1>1. CASE Crash
    BY <1>1, RegistryAssumption
       DEF Crash, Control, NoArg, NoAsk, NoGot, RelayState, Time, PutPoint, DeletePoint
  <1>2. CASE Start
    BY <1>2, RegistryAssumption DEF Start, Control
  <1>3. CASE Tick
    BY <1>3, RegistryAssumption DEF Tick, Control, Time
  <1>4. ASSUME NEW x \in Shortcut, DeleteShortcut(x) PROVE TypeOK' /\ Control'
    BY <1>4 DEF DeleteShortcut, Control
  <1>5. ASSUME NEW x \in Shortcut, NEW b \in Body, PutShortcut(x, b)
        PROVE  TypeOK' /\ Control'
    BY <1>5, RegistryAssumption DEF PutShortcut, Control
  <1>6. CASE UNCHANGED vars
    BY <1>6 DEF vars, Control
  <1>. QED BY <1>1, <1>2, <1>3, <1>4, <1>5, <1>6, ArriveType, StepType DEF Next

\* Every variable of ServiceRegistry keeps its type.
THEOREM TypeCorrect == Spec => []TypeOK
  <1>1. Init => TypeOK /\ Control
    BY TypeInit
  <1>2. TypeOK /\ Control /\ [Next]_vars => TypeOK' /\ Control'
    BY NextType
  <1>. QED BY <1>1, <1>2, PTL DEF Spec

-----------------------------------------------------------------------------
\* idpConfigMu.

\* The mutex keeps its promise whatever the interleaving, a crash included.
LEMMA NextMutex ==
    ASSUME TypeOK, Mutex, [Next]_vars
    PROVE  Mutex'
  <1> USE RegistryAssumption
      DEF TypeOK, Mutex, Goto, storeVars, mapVars, lockVars, localVars,
          PutPoint, DeletePoint, WritePoint, StorePoint, MapPoint
  <1>1. CASE Crash
    BY <1>1 DEF Crash
  <1>2. CASE Start
    BY <1>2 DEF Start
  <1>3. CASE Tick
    BY <1>3 DEF Tick
  <1>4. ASSUME NEW x \in Shortcut, DeleteShortcut(x) \/ \E b \in Body : PutShortcut(x, b)
        PROVE  Mutex'
    BY <1>4 DEF DeleteShortcut, PutShortcut
  <1>5. ASSUME NEW r \in Slot, Arrive(r) PROVE Mutex'
    <2>1. /\ pc[r] = "idle"
          /\ \E point \in {"put_lock", "delete_lock", "rlock"} : Goto(r, point)
          /\ UNCHANGED lockVars
      BY <1>5 DEF Arrive, StartDeleteService, StartPutService, StartSSO, StartShortcut
    <2>. QED BY <2>1
  <1>6. ASSUME NEW r \in Slot, Acquire(r) PROVE Mutex'
    <2>1. CASE PutLock(r) \/ DeleteLock(r)
      BY <2>1 DEF PutLock, DeleteLock, LockAnnounce
    <2>2. CASE RLock(r)
      BY <2>2 DEF RLock
    <2>. QED BY <1>6, <2>1, <2>2 DEF Acquire
  <1>7. ASSUME NEW r \in Slot, Finish(r), readers' = readers, pc[r] # "read" PROVE Mutex'
    BY <1>7 DEF Finish
  <1>8. ASSUME NEW r \in Slot, Step(r) PROVE Mutex'
    <2>1. CASE PutGet(r) \/ DeleteGet(r)
      BY <1>7, <2>1 DEF PutGet, DeleteGet, Locked
    <2>2. CASE PutPut(r) \/ DeleteDelete(r)
      BY <2>2 DEF PutPut, DeleteDelete
    <2>3. CASE PutMap(r) \/ DeleteMap(r) \/ StoreError(r) \/ Respond(r)
      BY <1>7, <2>3 DEF PutMap, DeleteMap, StoreError, Respond
    <2>4. CASE Read(r)
      BY <2>4 DEF Read
    <2>. QED BY <1>8, <2>1, <2>2, <2>3, <2>4 DEF Step
  <1>9. CASE UNCHANGED vars
    BY <1>9 DEF vars
  <1>. QED BY <1>1, <1>2, <1>3, <1>4, <1>5, <1>6, <1>8, <1>9 DEF Next

-----------------------------------------------------------------------------
\* The maps and the Store.

\* The maps p and o register exactly the services of f.
Matches(p, o, f) ==
    \A e \in Entity :
       /\ \A s \in Service : o[e] = s <=> f[s] # NotFound /\ f[s].entity = e
       /\ p[e] = IF o[e] = None THEN NotFound ELSE f[o[e]]

\* The Store as it was before the change r is about to register.
Before(r) == [services EXCEPT ![arg[r].service] = arg[r].previous]

\* The maps follow the Store.  A writer has read the previous record of its
\* service, and has seen that nobody else has the entity ID it registers.
SlotRegistry(r) ==
    /\ pc[r] \in StorePoint \ MapPoint => arg[r].previous = services[arg[r].service]
    /\ pc[r] \in MapPoint =>
          /\ Matches(providers, owner, Before(r))
          /\ services[arg[r].service] =
                IF pc[r] = "put_map" THEN arg[r].metadata ELSE NotFound
    /\ pc[r] \in {"put_put", "put_map"} =>
          owner[arg[r].metadata.entity] \in {None, arg[r].service}

Registry ==
    /\ EntitiesDistinct(services)
    /\ status # "refused"
    /\ status = "up" /\ (\A r \in Slot : pc[r] \notin MapPoint)
         => Matches(providers, owner, services)
    /\ \A r \in Slot : SlotRegistry(r)

\* Maps that match keep entity IDs distinct.
LEMMA MatchesDistinct ==
    ASSUME NEW p, NEW o, NEW f \in [Service -> Metadata \cup {NotFound}],
           Matches(p, o, f)
    PROVE  EntitiesDistinct(f)
  <1>1. \A s \in Service : f[s] # NotFound => f[s].entity \in Entity
    BY DEF Metadata
  <1>. QED BY <1>1 DEF EntitiesDistinct, Matches

\* An entity ID nobody else has can be stored under a service.
LEMMA PutDistinct ==
    ASSUME NEW p, NEW o, NEW f \in [Service -> Metadata \cup {NotFound}],
           Matches(p, o, f), NEW s \in Service, NEW m \in Metadata,
           o[m.entity] \in {None, s}
    PROVE  EntitiesDistinct([f EXCEPT ![s] = m])
  <1>1. \A t \in Service : f[t] # NotFound => f[t].entity \in Entity
    BY DEF Metadata
  <1>2. m.entity \in Entity
    BY DEF Metadata
  <1>3. \A t \in Service \ {s} : f[t] # NotFound => f[t].entity # m.entity
    BY <1>2, RegistryAssumption DEF Matches
  <1>4. EntitiesDistinct(f)
    BY MatchesDistinct
  <1>. QED BY <1>3, <1>4 DEF EntitiesDistinct

\* deregisterServiceProvider takes a service out of maps that match.
LEMMA DeregisterMatches ==
    ASSUME TypeOK, NEW f \in [Service -> Metadata \cup {NotFound}],
           Matches(providers, owner, f), NEW s \in Service, f[s] # NotFound
    PROVE  LET left == Deregister(s, f[s].entity) IN
           Matches(left.providers, left.owner, [f EXCEPT ![s] = NotFound])
  <1> DEFINE e == f[s].entity
  <1>1. e \in Entity /\ owner[e] = s
    BY DEF Metadata, Matches
  <1>2. Deregister(s, e) = [providers |-> [providers EXCEPT ![e] = NotFound],
                            owner |-> [owner EXCEPT ![e] = None]]
    BY <1>1 DEF Deregister
  <1>3. Matches([providers EXCEPT ![e] = NotFound], [owner EXCEPT ![e] = None],
                [f EXCEPT ![s] = NotFound])
    BY <1>1, RegistryAssumption DEF Matches, TypeOK
  <1>. QED BY <1>2, <1>3

\* Registering an entity ID nobody has, for a service that has none, keeps them
\* matching.
LEMMA RegisterMatches ==
    ASSUME NEW p \in [Entity -> Metadata \cup {NotFound}],
           NEW o \in [Entity -> Service \cup {None}],
           NEW f \in [Service -> Metadata \cup {NotFound}],
           Matches(p, o, f), NEW s \in Service, f[s] = NotFound,
           NEW m \in Metadata, o[m.entity] = None
    PROVE  Matches([p EXCEPT ![m.entity] = m], [o EXCEPT ![m.entity] = s],
                   [f EXCEPT ![s] = m])
  BY RegistryAssumption DEF Matches, Metadata

\* initializeServices fills maps that match the Store.
LEMMA StartMatches ==
    ASSUME TypeOK, EntitiesDistinct(services), Start
    PROVE  status' = "up" /\ Matches(providers', owner', services)
  <1>1. /\ status' = "up"
        /\ owner' = [e \in Entity |->
                       IF \E s \in Service : services[s] # NotFound
                                               /\ services[s].entity = e
                       THEN CHOOSE s \in Service : services[s] # NotFound
                                                     /\ services[s].entity = e
                       ELSE None]
        /\ providers' = [e \in Entity |->
                           IF owner'[e] = None THEN NotFound ELSE services[owner'[e]]]
    BY DEF Start
  <1>2. ASSUME NEW e \in Entity, NEW s \in Service
        PROVE  owner'[e] = s <=> services[s] # NotFound /\ services[s].entity = e
    <2>1. CASE \E t \in Service : services[t] # NotFound /\ services[t].entity = e
      <3> DEFINE t == CHOOSE t \in Service : services[t] # NotFound
                                               /\ services[t].entity = e
      <3>1. t \in Service /\ services[t] # NotFound /\ services[t].entity = e
        BY <2>1
      <3>2. owner'[e] = t
        BY <1>1, <2>1
      <3> HIDE DEF t
      <3>. QED BY <3>1, <3>2 DEF EntitiesDistinct
    <2>2. CASE ~\E t \in Service : services[t] # NotFound /\ services[t].entity = e
      BY <1>1, <2>2, RegistryAssumption
    <2>. QED BY <2>1, <2>2
  <1>. QED BY <1>1, <1>2 DEF Matches

\* A request that changes neither the Store nor the maps, and does not rely on what
\* it has read of them, disturbs nobody.
LEMMA RegistryFrame ==
    ASSUME TypeOK, Registry, NEW r \in Slot,
           services' = services, providers' = providers, owner' = owner,
           status' = status,
           \A q \in Slot \ {r} : pc'[q] = pc[q] /\ arg'[q] = arg[q],
           pc[r] \notin MapPoint, pc'[r] \notin StorePoint
    PROVE  Registry'
  <1>1. ASSUME NEW q \in Slot PROVE SlotRegistry(q)'
    <2>1. CASE q = r
      BY <2>1 DEF SlotRegistry, StorePoint, MapPoint
    <2>2. CASE q # r
      <3>1. Before(q)' = Before(q)
        BY <2>2 DEF Before
      <3>2. SlotRegistry(q)
        BY DEF Registry
      <3>. QED BY <2>2, <3>1, <3>2 DEF SlotRegistry, StorePoint, MapPoint
    <2>. QED BY <2>1, <2>2
  <1>2. EntitiesDistinct(services)' /\ (status # "refused")'
    BY DEF Registry, EntitiesDistinct
  <1>3. (\A q \in Slot : pc'[q] \notin MapPoint) => \A q \in Slot : pc[q] \notin MapPoint
    OBVIOUS
  <1>4. (status = "up" /\ (\A q \in Slot : pc[q] \notin MapPoint)
           => Matches(providers, owner, services))'
    BY <1>3 DEF Registry, Matches
  <1>. QED BY <1>1, <1>2, <1>4 DEF Registry

\* Only one request at a time is between its Lock and its Unlock.
LEMMA OneWriter ==
    ASSUME Mutex, NEW r \in Slot, NEW q \in Slot, pc[r] \in WritePoint, q # r
    PROVE  pc[q] \notin WritePoint
  BY DEF Mutex

\* While one request writes, the others hold nothing of the Store.
LEMMA OthersRegistry ==
    ASSUME Mutex, NEW r \in Slot, pc[r] \in WritePoint,
           \A q \in Slot \ {r} : pc'[q] = pc[q]
    PROVE  \A q \in Slot \ {r} : /\ SlotRegistry(q)' /\ pc'[q] \notin StorePoint
  BY OneWriter DEF SlotRegistry, WritePoint, StorePoint, MapPoint, PutPoint, DeletePoint

\* Once the mutex is held, what the handler reads is what the maps hold.
LEMMA GetRegistry ==
    ASSUME TypeOK, Control, Mutex, Registry, NEW r \in Slot, PutGet(r) \/ DeleteGet(r)
    PROVE  Registry'
  <1> USE DEF Goto, storeVars, mapVars
  <1>1. /\ pc[r] \in {"put_get", "delete_get"}
        /\ services' = services /\ providers' = providers /\ owner' = owner
        /\ status' = status
    BY DEF PutGet, DeleteGet
  <1>2. CASE Finish(r)
    BY <1>1, <1>2, RegistryFrame DEF Finish, TypeOK, StorePoint, MapPoint
  <1>3. CASE ~Finish(r)
    <2> DEFINE point == IF pc[r] = "put_get" THEN "put_put" ELSE "delete_delete"
    <2>1. /\ pc' = [pc EXCEPT ![r] = point]
          /\ arg' = [arg EXCEPT ![r].previous = services[arg[r].service]]
      BY <1>3 DEF PutGet, DeleteGet
    <2>2. arg[r].service \in Service /\ status = "up"
      BY <1>1 DEF Control, PutPoint, DeletePoint
    <2>3. \A q \in Slot : pc[q] \notin MapPoint
      BY <1>1, OneWriter DEF WritePoint, PutPoint, DeletePoint, MapPoint
    <2>4. Matches(providers, owner, services)
      BY <2>2, <2>3 DEF Registry
    <2>5. /\ arg'[r].previous = services[arg[r].service]
          /\ arg'[r].service = arg[r].service
          /\ arg'[r].metadata = arg[r].metadata
      BY <2>1 DEF TypeOK
    <2>6. pc'[r] = "put_put" => owner[arg[r].metadata.entity] \in {None, arg[r].service}
      <3> SUFFICES ASSUME pc'[r] = "put_put"
                   PROVE  owner[arg[r].metadata.entity] \in {None, arg[r].service}
        OBVIOUS
      <3>1. pc[r] = "put_get" /\ PutGet(r)
        BY <1>1, <2>1 DEF TypeOK, DeleteGet
      <3> DEFINE e == arg[r].metadata.entity
      <3>2. e \in Entity
        BY <3>1 DEF Control, TypeOK, Metadata, PutPoint
      <3>3. providers[e] = NotFound \/ owner[e] = arg[r].service
        BY <1>3, <3>1 DEF PutGet
      <3>4. owner[e] # None => services[owner[e]] # NotFound
        BY <2>4, <3>2 DEF Matches, TypeOK
      <3>. QED BY <2>4, <3>2, <3>3, <3>4 DEF Matches
    <2>7. SlotRegistry(r)'
      BY <1>1, <2>1, <2>5, <2>6 DEF SlotRegistry, TypeOK, StorePoint, MapPoint
    <2>8. \A q \in Slot \ {r} : SlotRegistry(q)'
      BY <1>1, <2>1, OthersRegistry DEF TypeOK, WritePoint, PutPoint, DeletePoint
    <2>9. Matches(providers, owner, services)' /\ EntitiesDistinct(services)'
      BY <1>1, <2>4 DEF Registry, Matches, EntitiesDistinct
    <2>. QED BY <1>1, <2>7, <2>8, <2>9 DEF Registry
  <1>. QED BY <1>2, <1>3

\* The Store takes the change; the maps are those of the Store before it.
LEMMA ChangeRegistry ==
    ASSUME TypeOK, Control, Mutex, Registry, NEW r \in Slot, PutPut(r) \/ DeleteDelete(r)
    PROVE  Registry'
  <1> USE DEF Goto, mapVars, lockVars
  <1> DEFINE s == arg[r].service
             m == IF pc[r] = "put_put" THEN arg[r].metadata ELSE NotFound
  <1>1. /\ pc[r] \in {"put_put", "delete_delete"}
        /\ services' = [services EXCEPT ![s] = m]
        /\ pc' = [pc EXCEPT ![r] = IF pc[r] = "put_put" THEN "put_map" ELSE "delete_map"]
        /\ providers' = providers /\ owner' = owner /\ arg' = arg
        /\ status' = status
    BY DEF PutPut, DeleteDelete
  <1>2. s \in Service /\ status = "up"
    BY <1>1 DEF Control, PutPoint, DeletePoint
  <1>3. \A q \in Slot : pc[q] \notin MapPoint
    BY <1>1, OneWriter DEF WritePoint, PutPoint, DeletePoint, MapPoint
  <1>4. Matches(providers, owner, services)
    BY <1>2, <1>3 DEF Registry
  <1>5. /\ arg[r].previous = services[s]
        /\ pc[r] = "put_put" => owner[arg[r].metadata.entity] \in {None, s}
    BY <1>1 DEF Registry, SlotRegistry, StorePoint, MapPoint
  <1>6. Before(r)' = services
    BY <1>1, <1>2, <1>5 DEF Before, TypeOK
  <1>7. EntitiesDistinct(services')
    <2>1. CASE pc[r] = "put_put"
      <3>1. arg[r].metadata \in Metadata
        BY <2>1 DEF Control, TypeOK, PutPoint
      <3>. QED BY <1>1, <1>2, <1>4, <1>5, <2>1, <3>1, PutDistinct DEF TypeOK
    <2>2. CASE pc[r] # "put_put"
      BY <1>1, <1>2, <2>2 DEF Registry, EntitiesDistinct, TypeOK
    <2>. QED BY <2>1, <2>2
  <1>8. SlotRegistry(r)'
    BY <1>1, <1>2, <1>4, <1>5, <1>6
       DEF SlotRegistry, TypeOK, StorePoint, MapPoint
  <1>9. \A q \in Slot \ {r} : SlotRegistry(q)'
    BY <1>1, OthersRegistry DEF TypeOK, WritePoint, PutPoint, DeletePoint
  <1>10. pc'[r] \in MapPoint
    BY <1>1 DEF TypeOK, MapPoint
  <1>11. EntitiesDistinct(services)'
    BY <1>7 DEF EntitiesDistinct
  <1>. QED BY <1>1, <1>2, <1>8, <1>9, <1>10, <1>11 DEF Registry

\* The maps follow, and the request is over.
LEMMA MapRegistry ==
    ASSUME TypeOK, Control, Mutex, Registry, NEW r \in Slot, PutMap(r) \/ DeleteMap(r)
    PROVE  Registry'
  <1> USE DEF Goto, storeVars
  <1> DEFINE s == arg[r].service
             m == arg[r].metadata
             f == Before(r)
  <1>1. /\ pc[r] \in MapPoint
        /\ pc' = [pc EXCEPT ![r] = "idle"]
        /\ services' = services /\ status' = status
    BY DEF PutMap, DeleteMap, Finish, MapPoint
  <1>2. s \in Service /\ status = "up"
    BY <1>1 DEF Control, PutPoint, DeletePoint, MapPoint
  <1>3. /\ Matches(providers, owner, f)
        /\ services[s] = IF pc[r] = "put_map" THEN m ELSE NotFound
        /\ pc[r] = "put_map" => owner[m.entity] \in {None, s}
    BY <1>1 DEF Registry, SlotRegistry
  <1>4. /\ f \in [Service -> Metadata \cup {NotFound}]
        /\ f[s] = arg[r].previous
        /\ services = [f EXCEPT ![s] = services[s]]
    BY <1>2 DEF Before, TypeOK
  <1> HIDE DEF f
  <1> DEFINE left == IF f[s] # NotFound THEN Deregister(s, f[s].entity)
                     ELSE [providers |-> providers, owner |-> owner]
             g == [f EXCEPT ![s] = NotFound]
  <1>5. /\ Matches(left.providers, left.owner, g)
        /\ left.providers \in [Entity -> Metadata \cup {NotFound}]
        /\ left.owner \in [Entity -> Service \cup {None}]
    <2>1. CASE f[s] # NotFound
      BY <1>2, <1>3, <1>4, <2>1, DeregisterMatches, DeregisterType
    <2>2. CASE f[s] = NotFound
      <3>1. g = f
        BY <1>2, <1>4, <2>2
      <3>. QED BY <1>3, <2>2, <3>1 DEF TypeOK
    <2>. QED BY <2>1, <2>2
  <1>6. Matches(providers', owner', services)
    <2>1. CASE DeleteMap(r)
      <3>1. f[s] # NotFound /\ services[s] = NotFound
        BY <1>3, <1>4, <2>1 DEF DeleteMap, Control, DeletePoint, StorePoint, MapPoint
      <3>2. providers' = left.providers /\ owner' = left.owner
        BY <1>4, <2>1, <3>1 DEF DeleteMap
      <3>. QED BY <1>4, <1>5, <3>1, <3>2
    <2>2. CASE PutMap(r)
      <3>1. pc[r] = "put_map"
        BY <2>2 DEF PutMap
      <3>2. m \in Metadata /\ m.entity \in Entity /\ services[s] = m
        BY <1>3, <3>1 DEF Control, TypeOK, PutPoint, Metadata
      <3>3. /\ providers' = [left.providers EXCEPT ![m.entity] = m]
            /\ owner' = [left.owner EXCEPT ![m.entity] = s]
        BY <1>4, <2>2 DEF PutMap
      <3>4. left.owner[m.entity] = None
        <4>1. owner[m.entity] \in {None, s}
          BY <1>3, <3>1
        <4>2. CASE owner[m.entity] = None
          BY <3>2, <4>2 DEF Deregister, TypeOK
        <4>3. CASE owner[m.entity] = s
          <5>1. f[s] # NotFound /\ f[s].entity = m.entity
            BY <1>2, <1>3, <3>2, <4>3 DEF Matches
          <5>. QED BY <3>2, <4>3, <5>1 DEF Deregister, TypeOK
        <4>. QED BY <4>1, <4>2, <4>3
      <3>5. /\ g \in [Service -> Metadata \cup {NotFound}]
            /\ g[s] = NotFound
            /\ services = [g EXCEPT ![s] = m]
        BY <1>2, <1>4, <3>2
      <3> DEFINE p == left.providers
                 o == left.owner
      <3>6. /\ p \in [Entity -> Metadata \cup {NotFound}]
            /\ o \in [Entity -> Service \cup {None}]
            /\ Matches(p, o, g)
            /\ o[m.entity] = None
        BY <1>5, <3>4
      <3>7. providers' = [p EXCEPT ![m.entity] = m] /\ owner' = [o EXCEPT ![m.entity] = s]
        BY <3>3
      <3> HIDE DEF left, g, m, s, p, o
      <3>8. Matches([p EXCEPT ![m.entity] = m], [o EXCEPT ![m.entity] = s],
                    [g EXCEPT ![s] = m])
        BY <1>2, <3>2, <3>5, <3>6, RegisterMatches, Zenon
      <3>. QED BY <3>5, <3>7, <3>8
    <2>. QED BY <2>1, <2>2
  <1>7. \A q \in Slot \ {r} : SlotRegistry(q)'
    BY <1>1, OthersRegistry DEF TypeOK, WritePoint, PutPoint, DeletePoint, MapPoint
  <1>8. SlotRegistry(r)'
    BY <1>1 DEF SlotRegistry, TypeOK, StorePoint, MapPoint
  <1>9. EntitiesDistinct(services)' /\ Matches(providers, owner, services)'
    BY <1>1, <1>6 DEF Registry, EntitiesDistinct, Matches
  <1>. QED BY <1>1, <1>7, <1>8, <1>9 DEF Registry

\* The relation between maps and Store is kept by every step.
LEMMA NextRegistry ==
    ASSUME TypeOK, Control, Mutex, Registry, [Next]_vars
    PROVE  Registry'
  <1> USE DEF Goto, storeVars, mapVars, lockVars, localVars
  <1>1. CASE Crash
    BY <1>1 DEF Crash, Registry, SlotRegistry, EntitiesDistinct, StorePoint, MapPoint
  <1>2. CASE Start
    <2>1. status' = "up" /\ Matches(providers', owner', services)
      BY <1>2, StartMatches DEF Registry
    <2>2. \A r \in Slot : pc'[r] = "idle"
      BY <1>2 DEF Start, Control
    <2>3. services' = services
      BY <1>2 DEF Start
    <2>4. Matches(providers, owner, services)' /\ EntitiesDistinct(services)'
      BY <2>1, <2>3 DEF Matches, Registry, EntitiesDistinct
    <2>. QED BY <2>1, <2>2, <2>4 DEF Registry, SlotRegistry, StorePoint, MapPoint
  <1>3. ASSUME UNCHANGED <<services, mapVars, status, pc, arg>> PROVE Registry'
    BY <1>3 DEF Registry, SlotRegistry, Before, EntitiesDistinct, Matches
  <1>4. CASE Tick
    BY <1>3, <1>4 DEF Tick
  <1>5. ASSUME NEW x \in Shortcut, DeleteShortcut(x) \/ \E b \in Body : PutShortcut(x, b)
        PROVE  Registry'
    BY <1>3, <1>5 DEF DeleteShortcut, PutShortcut
  <1>6. ASSUME NEW r \in Slot, Arrive(r) PROVE Registry'
    <2>1. /\ pc[r] = "idle"
          /\ \E point \in {"put_lock", "delete_lock", "rlock"} : Goto(r, point)
          /\ \A q \in Slot \ {r} : arg'[q] = arg[q]
          /\ UNCHANGED <<services, mapVars, status>>
      BY <1>6 DEF Arrive, StartDeleteService, StartPutService, StartSSO, StartShortcut, TypeOK
    <2>. QED BY <2>1, RegistryFrame DEF TypeOK, StorePoint, MapPoint
  <1>7. ASSUME NEW r \in Slot, Acquire(r) PROVE Registry'
    <2>1. /\ pc[r] \in {"put_lock", "delete_lock", "rlock"}
          /\ \E point \in {"put_get", "delete_get", "read"} : Goto(r, point)
          /\ UNCHANGED <<services, mapVars, status, arg>>
      BY <1>7 DEF Acquire, PutLock, DeleteLock, RLock, LockAnnounce
    <2>. QED BY <2>1, RegistryFrame DEF TypeOK, StorePoint, MapPoint
  <1>8. ASSUME NEW r \in Slot, StoreError(r) \/ Read(r) \/ Respond(r) PROVE Registry'
    <2>1. /\ pc[r] \notin MapPoint
          /\ \E point \in {"idle", "done"} : Goto(r, point)
          /\ arg' = arg \/ arg' = [arg EXCEPT ![r] = NoArg]
          /\ UNCHANGED <<services, mapVars, status>>
      BY <1>8 DEF StoreError, Read, Respond, Finish, MapPoint
    <2>. QED BY <2>1, RegistryFrame DEF TypeOK, StorePoint, MapPoint
  <1>9. ASSUME NEW r \in Slot, Step(r) PROVE Registry'
    BY <1>8, <1>9, GetRegistry, ChangeRegistry, MapRegistry DEF Step
  <1>10. CASE UNCHANGED vars
    BY <1>3, <1>10 DEF vars
  <1>. QED BY <1>1, <1>2, <1>4, <1>5, <1>6, <1>7, <1>9, <1>10 DEF Next

\* The invariant of idpConfigMu, the maps and the Store.
RInv == TypeOK /\ Control /\ Mutex /\ Registry

\* It is inductive, so it holds of every behaviour.
LEMMA RegistryInvariant == Spec => []RInv
  <1>1. Init => RInv
    BY TypeInit, RegistryAssumption DEF Init, RInv, Registry, SlotRegistry, Matches,
       EntitiesDistinct, StorePoint, MapPoint
  <1>2. RInv /\ [Next]_vars => RInv'
    BY NextType, NextMutex, NextRegistry DEF RInv
  <1>. QED BY <1>1, <1>2, PTL DEF Spec

\* serviceProviders and serviceIDs hold exactly the services of the Store whenever
\* no handler is between its Store operation and the maps: for any number of
\* concurrent puts and deletes, Store errors, crashes and restarts.
THEOREM MapsFollowStore == Spec => []RegistryMatchesStore
  <1>1. RInv => RegistryMatchesStore
    BY DEF RInv, Registry, Matches, RegistryMatchesStore, MapPoint
  <1>. QED BY <1>1, RegistryInvariant, PTL

\* initializeServices never refuses the Store: entity IDs stay distinct in it
\* whichever step a crash or a Store error follows.
THEOREM RestartSucceeds == Spec => []RestartAccepted
  <1>1. RInv => RestartAccepted
    BY DEF RInv, Registry, RestartAccepted
  <1>. QED BY <1>1, RegistryInvariant, PTL

-----------------------------------------------------------------------------
\* Expiry.

\* Wherever metadata is kept, its expiry is not later than its group's.
Covered ==
    /\ \A s \in Service : services[s] # NotFound => Covers(services[s])
    /\ \A e \in Entity : providers[e] # NotFound => Covers(providers[e])
    /\ \A r \in Slot : arg[r].metadata # NotFound => Covers(arg[r].metadata)

\* currentMetadata returns nothing that has expired.
LEMMA CurrentUnexpired ==
    ASSUME NEW m \in Metadata, NEW t \in Time, Covers(m), CurrentMetadata(m, t) # NotFound
    PROVE  LET c == CurrentMetadata(m, t) IN
           /\ ~Expired(c.until, t) /\ ~Expired(c.group, t)
           /\ c.descriptors # {} /\ \A d \in c.descriptors : ~Expired(d, t)
  <1> DEFINE left == {d \in m.descriptors : ~Expired(d, t)}
  <1>1. /\ CurrentMetadata(m, t) = [m EXCEPT !.descriptors = left]
        /\ ~Expired(m.until, t) /\ left # {}
    BY DEF CurrentMetadata
  <1>2. m.until \in Nat /\ m.group \in Nat /\ t \in Nat
    BY RegistryAssumption DEF Metadata, Time
  <1>3. ~Expired(m.group, t)
    BY <1>1, <1>2 DEF Expired, Covers
  <1>4. \A d \in left : ~Expired(d, t)
    OBVIOUS
  <1> HIDE DEF left
  <1>. QED BY <1>1, <1>3, <1>4 DEF Metadata

\* Registration, renaming, deregistration and restart keep every expiry covered.
LEMMA NextCovered ==
    ASSUME TypeOK, Control, Covered, [Next]_vars
    PROVE  Covered'
  <1> USE DEF TypeOK, Goto, storeVars, mapVars, lockVars, localVars
  <1>1. CASE Crash
    BY <1>1 DEF Crash, Covered, NoArg
  <1>2. CASE Start
    <2>1. \A e \in Entity : owner'[e] # None => owner'[e] \in Service
      BY <1>2, NextType DEF Next
    <2>2. \A e \in Entity : providers'[e] # NotFound =>
             providers'[e] = providers[e] \/ \E s \in Service : providers'[e] = services[s]
      BY <1>2, <2>1 DEF Start
    <2>. QED BY <1>2, <2>2 DEF Start, Covered
  <1>3. ASSUME UNCHANGED <<services, mapVars, arg>> PROVE Covered'
    BY <1>3 DEF Covered
  <1>4. CASE Tick
    BY <1>3, <1>4 DEF Tick
  <1>5. ASSUME NEW x \in Shortcut, DeleteShortcut(x) \/ \E b \in Body : PutShortcut(x, b)
        PROVE  Covered'
    BY <1>3, <1>5 DEF DeleteShortcut, PutShortcut
  <1>6. ASSUME NEW r \in Slot, Arrive(r) PROVE Covered'
    <2>1. ASSUME NEW s \in Service, StartDeleteService(r, s) PROVE Covered'
      BY <2>1 DEF StartDeleteService, Covered
    <2>2. ASSUME NEW s \in Service, NEW d \in Document, StartPutService(r, s, d)
          PROVE  Covered'
      <3>1. Covers(GetSPMetadata(d))
        BY <2>2, DocumentMetadata DEF StartPutService
      <3>. QED BY <2>2, <3>1 DEF StartPutService, Covered
    <2>. QED BY <1>3, <1>6, <2>1, <2>2 DEF Arrive, StartSSO, StartShortcut
  <1>7. ASSUME NEW r \in Slot, Acquire(r) PROVE Covered'
    BY <1>3, <1>7 DEF Acquire, PutLock, DeleteLock, RLock
  <1>8. ASSUME NEW r \in Slot, arg' = [arg EXCEPT ![r] = NoArg], UNCHANGED services,
               \A e \in Entity : providers'[e] \in {NotFound, providers[e], arg[r].metadata}
        PROVE  Covered'
    BY <1>8 DEF Covered, NoArg
  <1>9. ASSUME NEW r \in Slot, Step(r) PROVE Covered'
    <2>1. CASE PutGet(r) \/ DeleteGet(r)
      <3>1. CASE Finish(r)
        BY <1>8, <2>1, <3>1 DEF PutGet, DeleteGet, Finish
      <3>2. CASE ~Finish(r)
        <4>1. /\ arg' = [arg EXCEPT ![r].previous = services[arg[r].service]]
              /\ UNCHANGED <<services, providers>>
          BY <2>1, <3>2 DEF PutGet, DeleteGet
        <4>. QED BY <4>1 DEF Covered
      <3>. QED BY <3>1, <3>2
    <2>2. CASE PutPut(r)
      BY <2>2 DEF PutPut, Covered
    <2>3. CASE DeleteDelete(r)
      BY <2>3 DEF DeleteDelete, Covered
    <2>4. CASE PutMap(r)
      <3> DEFINE base == IF arg[r].previous # NotFound
                         THEN Deregister(arg[r].service, arg[r].previous.entity)
                         ELSE [providers |-> providers, owner |-> owner]
      <3>1. \A e \in Entity : base.providers[e] \in {NotFound, providers[e]}
        BY DEF Deregister
      <3>2. base.providers \in [Entity -> Metadata \cup {NotFound}]
        BY DeregisterType
      <3>3. /\ providers' = [base.providers EXCEPT ![arg[r].metadata.entity] = arg[r].metadata]
            /\ arg' = [arg EXCEPT ![r] = NoArg] /\ UNCHANGED services
        BY <2>4 DEF PutMap, Finish
      <3> HIDE DEF base
      <3>. QED BY <1>8, <3>1, <3>2, <3>3
    <2>5. CASE DeleteMap(r)
      <3>1. \A e \in Entity : providers'[e] \in {NotFound, providers[e]}
        BY <2>5 DEF DeleteMap, Deregister
      <3>. QED BY <1>8, <2>5, <3>1 DEF DeleteMap, Finish
    <2>6. CASE StoreError(r) \/ Respond(r)
      BY <1>8, <2>6 DEF StoreError, Respond, Finish
    <2>7. CASE Read(r)
      BY <1>3, <2>7 DEF Read
    <2>. QED BY <1>9, <2>1, <2>2, <2>3, <2>4, <2>5, <2>6, <2>7 DEF Step
  <1>10. CASE UNCHANGED vars
    BY <1>3, <1>10 DEF vars
  <1>. QED BY <1>1, <1>2, <1>4, <1>5, <1>6, <1>7, <1>9, <1>10 DEF Next

\* An answer is made from covered metadata at the time of the answer.
LEMMA NextUnexpired ==
    ASSUME TypeOK, Control, Covered, NoExpiredAnswer, [Next]_vars
    PROVE  NoExpiredAnswer'
  <1> USE DEF TypeOK, Goto, storeVars, mapVars, lockVars, localVars
  <1>1. ASSUME NEW r \in Slot, \A q \in Slot \ {r} : got'[q] = got[q],
               got'[r] = NoGot \/ got'[r] = got[r]
        PROVE  NoExpiredAnswer'
    BY <1>1 DEF NoExpiredAnswer, NoGot
  <1>2. CASE got' = got
    BY <1>2 DEF NoExpiredAnswer
  <1>3. CASE Crash
    BY <1>3 DEF Crash, NoExpiredAnswer, NoGot
  <1>4. ASSUME NEW r \in Slot, Read(r) PROVE NoExpiredAnswer'
    <2> DEFINE c == Lookup(ask[r].entity, now)
    <2>1. /\ got' = [got EXCEPT ![r] = [metadata |-> c, time |-> now]]
          /\ ask[r].entity \in Entity
      BY <1>4 DEF Read, Control
    <2>2. c # NotFound =>
             /\ ~Expired(c.until, now) /\ ~Expired(c.group, now)
             /\ c.descriptors # {} /\ \A d \in c.descriptors : ~Expired(d, now)
      BY <2>1, CurrentUnexpired DEF Lookup, Covered
    <2> HIDE DEF c
    <2>3. /\ got'[r].metadata = c /\ got'[r].time = now
          /\ \A q \in Slot \ {r} : got'[q] = got[q]
      BY <2>1
    <2>. QED BY <2>2, <2>3 DEF NoExpiredAnswer
  <1>5. CASE Start \/ Tick \/ \E x \in Shortcut :
                DeleteShortcut(x) \/ \E b \in Body : PutShortcut(x, b)
    BY <1>2, <1>5 DEF Start, Tick, DeleteShortcut, PutShortcut
  <1>6. ASSUME NEW r \in Slot, Arrive(r) \/ Acquire(r) PROVE NoExpiredAnswer'
    BY <1>2, <1>6 DEF Arrive, StartDeleteService, StartPutService, StartSSO,
       StartShortcut, Acquire, PutLock, DeleteLock, RLock
  <1>7. ASSUME NEW r \in Slot, Step(r) PROVE NoExpiredAnswer'
    <2>1. CASE ~Read(r)
      <3>1. /\ \A q \in Slot \ {r} : got'[q] = got[q]
            /\ got'[r] = NoGot \/ got'[r] = got[r]
        BY <1>7, <2>1 DEF Step, PutGet, PutPut, PutMap, DeleteGet, DeleteDelete, DeleteMap,
           StoreError, Respond, Finish
      <3>. QED BY <1>1, <3>1
    <2>. QED BY <1>4, <2>1
  <1>8. CASE UNCHANGED vars
    BY <1>2, <1>8 DEF vars
  <1>. QED BY <1>3, <1>5, <1>6, <1>7, <1>8 DEF Next

\* GetServiceProvider never answers with metadata, a descriptor or a group that has
\* expired, whenever the metadata was registered.
THEOREM AnswersUnexpired == Spec => []NoExpiredAnswer
  <1> DEFINE Inv == TypeOK /\ Control /\ Covered /\ NoExpiredAnswer
  <1>1. Init => Inv
    BY TypeInit DEF Init, Covered, NoExpiredAnswer, NoArg, NoGot
  <1>2. Inv /\ [Next]_vars => Inv'
    BY NextType, NextCovered, NextUnexpired
  <1>. QED BY <1>1, <1>2, PTL DEF Spec

-----------------------------------------------------------------------------
\* ServiceRegistry implements ServiceDirectory.

\* What the slots have under way, as the directory sees it.
Requests == [r \in Slot |-> RequestOf(r)]

\* A step of one handler changes one request of the directory.
LEMMA OneRequest ==
    ASSUME TypeOK, NEW r \in Slot,
           \A q \in Slot \ {r} : /\ pc'[q] = pc[q] /\ arg'[q] = arg[q]
                                 /\ ask'[q] = ask[q] /\ got'[q] = got[q]
    PROVE  Requests' = [Requests EXCEPT ![r] = RequestOf(r)']
  <1>1. \A q \in Slot \ {r} : RequestOf(q)' = RequestOf(q)
    BY DEF RequestOf
  <1>. QED BY <1>1 DEF Requests

\* The answer of the maps is the answer of the table.
LEMMA LookupIsAnswer ==
    ASSUME TypeOK, NEW e \in Entity, Matches(providers, owner, services)
    PROVE  Lookup(e, now) = Directory!Answer(e)
  <1> DEFINE having == {s \in Service : services[s] # NotFound /\ services[s].entity = e}
             found == CHOOSE s \in having : TRUE
  <1>1. CASE owner[e] = None
    <2>1. having = {} /\ providers[e] = NotFound
      BY <1>1, RegistryAssumption DEF Matches
    <2>. QED BY <2>1 DEF Lookup, Directory!Answer
  <1>2. CASE owner[e] # None
    <2>1. owner[e] \in Service
      BY <1>2 DEF TypeOK
    <2>2. /\ services[owner[e]] # NotFound /\ services[owner[e]].entity = e
          /\ providers[e] = services[owner[e]]
      BY <1>2, <2>1 DEF Matches
    <2>3. having = {owner[e]}
      BY <2>1, <2>2 DEF Matches
    <2>4. found = owner[e] /\ having # {}
      BY <2>3
    <2>. QED BY <2>2, <2>4 DEF Lookup, Directory!Answer
  <1>. QED BY <1>1, <1>2

\* Every step of the server is a step of the directory, or none.
LEMMA NextDirectory ==
    ASSUME RInv, [Next]_vars
    PROVE  [Directory!Next]_(Directory!vars)
  <1> USE DEF Goto, storeVars, mapVars, lockVars, localVars
  <1>t. TypeOK /\ Control /\ Mutex /\ Registry
    BY DEF RInv
  <1>r. Requests = [r \in Slot |-> RequestOf(r)] /\ Requests' = [r \in Slot |-> RequestOf(r)']
    BY DEF Requests
  <1>1. ASSUME UNCHANGED <<services, now, pc, arg, ask, got>>
        PROVE  UNCHANGED Directory!vars
    BY <1>1 DEF Directory!vars, RequestOf
  <1>2. CASE Crash
    <2>1. Requests' = [r \in Slot |-> Directory!Idle]
      BY <1>2, <1>r DEF Crash, RequestOf, Directory!Idle
    <2>2. Directory!Restart
      BY <1>2, <1>r, <2>1 DEF Directory!Restart, Crash
    <2>. QED BY <2>2 DEF Directory!Next
  <1>3. CASE Tick
    <2>1. Directory!Tick
      BY <1>3, <1>t, RegistryAssumption DEF Directory!Tick, Tick, TypeOK, Time, RequestOf
    <2>. QED BY <2>1 DEF Directory!Next
  <1>4. CASE Start
    BY <1>1, <1>4 DEF Start
  <1>5. ASSUME NEW x \in Shortcut, DeleteShortcut(x) \/ \E b \in Body : PutShortcut(x, b)
        PROVE  UNCHANGED Directory!vars
    BY <1>1, <1>5 DEF DeleteShortcut, PutShortcut
  <1>6. ASSUME NEW r \in Slot, Arrive(r) PROVE Directory!Ask(r)
    <2>1. /\ pc[r] = "idle" /\ UNCHANGED <<services, now>>
          /\ \A q \in Slot \ {r} : /\ pc'[q] = pc[q] /\ arg'[q] = arg[q]
                                   /\ ask'[q] = ask[q] /\ got'[q] = got[q]
      BY <1>6, <1>t DEF Arrive, StartDeleteService, StartPutService, StartSSO, StartShortcut, TypeOK
    <2>2. Requests' = [Requests EXCEPT ![r] = RequestOf(r)']
      BY <1>t, <2>1, OneRequest
    <2>3. Requests[r] = Directory!Idle
      BY <2>1 DEF Requests, RequestOf, Directory!Idle
    <2>4. RequestOf(r)' \in Directory!New
      <3>1. ASSUME NEW s \in Service, StartDeleteService(r, s)
            PROVE  RequestOf(r)' = [kind |-> "delete", service |-> s]
        BY <1>t, <3>1 DEF StartDeleteService, RequestOf, TypeOK
      <3>2. ASSUME NEW s \in Service, NEW d \in Document, StartPutService(r, s, d)
            PROVE  /\ GetSPMetadata(d) # NotFound
                   /\ RequestOf(r)' =
                        [kind |-> "put", service |-> s, metadata |-> GetSPMetadata(d)]
        BY <1>t, <3>2 DEF StartPutService, RequestOf, TypeOK
      <3>3. ASSUME NEW e \in Entity, StartSSO(r, e)
            PROVE  RequestOf(r)' = [kind |-> "lookup", entity |-> e]
        BY <1>t, <3>3 DEF StartSSO, RequestOf, TypeOK
      <3>4. ASSUME NEW x \in Shortcut, NEW suffix \in Suffix \cup {None},
                   StartShortcut(r, x, suffix)
            PROVE  \E e \in Entity : RequestOf(r)' = [kind |-> "lookup", entity |-> e]
        BY <1>t, <3>4 DEF StartShortcut, AskShortcut, RequestOf, TypeOK, ShortcutRecord
      <3>. QED BY <1>6, <3>1, <3>2, <3>3, <3>4 DEF Arrive, Directory!New
    <2>. QED BY <1>r, <2>1, <2>2, <2>3, <2>4 DEF Directory!Ask, Directory!Becomes
  <1>7. ASSUME NEW r \in Slot, Acquire(r) PROVE UNCHANGED Directory!vars
    <2>1. /\ UNCHANGED <<services, now, arg, ask, got>>
          /\ \/ pc[r] = "put_lock" /\ Goto(r, "put_get")
             \/ pc[r] = "delete_lock" /\ Goto(r, "delete_get")
             \/ pc[r] = "rlock" /\ Goto(r, "read")
      BY <1>7 DEF Acquire, PutLock, DeleteLock, RLock, LockAnnounce
    <2>2. Requests' = [Requests EXCEPT ![r] = RequestOf(r)']
      BY <1>t, <2>1, OneRequest DEF TypeOK
    <2>3. RequestOf(r)' = RequestOf(r)
      BY <1>t, <2>1 DEF RequestOf, TypeOK
    <2>4. Requests' = Requests
      BY <2>2, <2>3 DEF Requests
    <2>. QED BY <1>r, <2>1, <2>4 DEF Directory!vars
  <1>8. ASSUME NEW r \in Slot, Finish(r), UNCHANGED <<services, now>>, pc[r] # "idle",
               pc[r] \notin {"rlock", "read"}
        PROVE  Directory!End(r)
    <2>1. Requests' = [Requests EXCEPT ![r] = RequestOf(r)']
      BY <1>t, <1>8, OneRequest DEF Finish, TypeOK
    <2>2. RequestOf(r)' = Directory!Idle
      BY <1>t, <1>8 DEF Finish, RequestOf, Directory!Idle, TypeOK
    <2>3. Requests[r].kind \in {"put", "delete", "found", "changed"}
      BY <1>t, <1>8 DEF Requests, RequestOf, TypeOK
    <2>. QED BY <1>r, <1>8, <2>1, <2>2, <2>3 DEF Directory!End, Directory!Becomes
  <1>9. ASSUME NEW r \in Slot, PutGet(r) \/ DeleteGet(r)
        PROVE  Directory!End(r) \/ UNCHANGED Directory!vars
    <2>1. CASE Finish(r)
      BY <1>8, <1>9, <2>1 DEF PutGet, DeleteGet
    <2>2. CASE ~Finish(r)
      <3>1. /\ UNCHANGED <<services, now, ask, got>>
            /\ arg' = [arg EXCEPT ![r].previous = services[arg[r].service]]
            /\ \/ pc[r] = "put_get" /\ Goto(r, "put_put")
               \/ pc[r] = "delete_get" /\ Goto(r, "delete_delete")
        BY <1>9, <2>2 DEF PutGet, DeleteGet
      <3>2. Requests' = [Requests EXCEPT ![r] = RequestOf(r)']
        BY <1>t, <3>1, OneRequest DEF TypeOK
      <3>3. arg'[r].service = arg[r].service /\ arg'[r].metadata = arg[r].metadata
        BY <1>t, <3>1 DEF TypeOK
      <3>4. RequestOf(r)' = RequestOf(r)
        BY <1>t, <3>1, <3>3 DEF RequestOf, TypeOK
      <3>5. Requests' = Requests
        BY <3>2, <3>4 DEF Requests
      <3>. QED BY <1>r, <3>1, <3>5 DEF Directory!vars
    <2>. QED BY <2>1, <2>2
  <1>10. ASSUME NEW r \in Slot, PutPut(r) PROVE Directory!Put(r)
    <2> DEFINE s == arg[r].service
               m == arg[r].metadata
    <2>1. /\ pc[r] = "put_put" /\ pc' = [pc EXCEPT ![r] = "put_map"]
          /\ services' = [services EXCEPT ![s] = m]
          /\ UNCHANGED <<now, arg, ask, got>>
      BY <1>10 DEF PutPut
    <2>2. Requests[r] = [kind |-> "put", service |-> s, metadata |-> m]
      BY <2>1 DEF Requests, RequestOf
    <2>3. Requests' = [Requests EXCEPT ![r] = [kind |-> "changed"]]
      <3>1. Requests' = [Requests EXCEPT ![r] = RequestOf(r)']
        BY <1>t, <2>1, OneRequest DEF TypeOK
      <3>2. RequestOf(r)' = [kind |-> "changed"]
        BY <1>t, <2>1 DEF RequestOf, TypeOK
      <3>. QED BY <3>1, <3>2
    <2>4. s \in Service /\ m \in Metadata
      BY <1>t, <2>1 DEF Control, TypeOK, PutPoint
    <2>5. \A t \in Service \ {s} : services[t] # NotFound => services[t].entity # m.entity
      <3>1. \A t \in Service : services'[t] = IF t = s THEN m ELSE services[t]
        BY <1>t, <2>1 DEF TypeOK
      <3>2. EntitiesDistinct(services)'
        BY <1>t, <1>10, ChangeRegistry DEF Registry
      <3>3. m # NotFound
        BY <2>4, RegistryAssumption
      <3>. QED BY <2>4, <3>1, <3>2, <3>3 DEF EntitiesDistinct
    <2>6. /\ RequestOf(r).kind = "put"
          /\ RequestOf(r).service = s
          /\ RequestOf(r).metadata = m
      BY <2>2 DEF Requests
    <2> HIDE DEF s, m
    <2>. QED BY <1>r, <2>1, <2>3, <2>5, <2>6 DEF Directory!Put, Directory!Becomes
  <1>11. ASSUME NEW r \in Slot, DeleteDelete(r) PROVE Directory!Delete(r)
    <2>1. /\ pc[r] = "delete_delete" /\ pc' = [pc EXCEPT ![r] = "delete_map"]
          /\ services' = [services EXCEPT ![arg[r].service] = NotFound]
          /\ UNCHANGED <<now, arg, ask, got>>
      BY <1>11 DEF DeleteDelete
    <2>2. Requests[r] = [kind |-> "delete", service |-> arg[r].service]
      BY <2>1 DEF Requests, RequestOf
    <2>3. Requests' = [Requests EXCEPT ![r] = [kind |-> "changed"]]
      <3>1. Requests' = [Requests EXCEPT ![r] = RequestOf(r)']
        BY <1>t, <2>1, OneRequest DEF TypeOK
      <3>2. RequestOf(r)' = [kind |-> "changed"]
        BY <1>t, <2>1 DEF RequestOf, TypeOK
      <3>. QED BY <3>1, <3>2
    <2>4. RequestOf(r).kind = "delete" /\ RequestOf(r).service = arg[r].service
      BY <2>2 DEF Requests
    <2>. QED BY <1>r, <2>1, <2>3, <2>4 DEF Directory!Delete, Directory!Becomes
  <1>12. ASSUME NEW r \in Slot, Read(r) PROVE Directory!Lookup(r)
    <2> DEFINE e == ask[r].entity
    <2>1. /\ pc[r] = "read" /\ pc' = [pc EXCEPT ![r] = "done"]
          /\ got' = [got EXCEPT ![r] = [metadata |-> Lookup(e, now), time |-> now]]
          /\ UNCHANGED <<services, now, arg, ask>>
      BY <1>12 DEF Read
    <2>2. e \in Entity /\ status = "up"
      BY <1>t, <2>1 DEF Control
    <2>3. \A q \in Slot : pc[q] \notin MapPoint
      BY <1>t, <2>1 DEF Mutex, StorePoint, MapPoint
    <2>4. Lookup(e, now) = Directory!Answer(e)
      BY <1>t, <2>2, <2>3, LookupIsAnswer DEF Registry
    <2>5. Requests[r] = [kind |-> "lookup", entity |-> e]
      BY <2>1 DEF Requests, RequestOf
    <2>6. Requests' = [Requests EXCEPT ![r] = RequestOf(r)']
      BY <1>t, <2>1, OneRequest DEF TypeOK
    <2>7. RequestOf(r)' = [kind |-> "found", metadata |-> Lookup(e, now)]
      BY <1>t, <2>1 DEF RequestOf, TypeOK
    <2> HIDE DEF e
    <2>. QED BY <1>r, <2>1, <2>4, <2>5, <2>6, <2>7 DEF Directory!Lookup, Directory!Becomes
  <1>13. ASSUME NEW r \in Slot, Step(r)
         PROVE  \/ Directory!Put(r) \/ Directory!Delete(r) \/ Directory!Lookup(r)
                \/ Directory!End(r) \/ UNCHANGED Directory!vars
    <2>1. CASE PutMap(r) \/ DeleteMap(r) \/ StoreError(r) \/ Respond(r)
      BY <1>8, <2>1 DEF PutMap, DeleteMap, StoreError, Respond
    <2>. QED BY <1>9, <1>10, <1>11, <1>12, <1>13, <2>1 DEF Step
  <1>14. CASE UNCHANGED vars
    BY <1>1, <1>14 DEF vars
  <1>. QED
    BY <1>2, <1>3, <1>4, <1>5, <1>6, <1>7, <1>13, <1>14 DEF Next, Directory!Next

\* The server with its Store, maps, mutex, failures and restarts behaves as one
\* table with atomic changes and lookups: HandlePutService and HandleDeleteService
\* take effect in their Store operation, GetServiceProvider where it reads the maps.
THEOREM RegistryImplementsDirectory == Spec => ImplementsDirectory
  <1>1. Init => Directory!Init
    BY DEF Init, Directory!Init, Directory!Idle, RequestOf
  <1>2. RInv /\ [Next]_vars => [Directory!Next]_(Directory!vars)
    BY NextDirectory
  <1>. QED BY <1>1, <1>2, RegistryInvariant, PTL DEF Spec, ImplementsDirectory, Directory!Spec

=============================================================================
