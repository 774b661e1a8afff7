--------------------------- MODULE ServiceRegistry ---------------------------
(***************************************************************************)
(* The service providers a samlidp server knows: samlidp/service.go,       *)
(* samlidp/shortcut.go and getSPMetadata of samlidp/util.go.               *)
(*                                                                         *)
(* A service is kept twice: in the Store, under its service ID, and in the *)
(* maps serviceProviders and serviceIDs, under the entity ID of its        *)
(* metadata, which GetServiceProvider answers from.  idpConfigMu, a        *)
(* sync.RWMutex, guards the maps.  As in Go, a writer that waits for the   *)
(* readers to leave keeps new readers out.                                 *)
(*                                                                         *)
(* Metadata is abstracted to its entity ID, its validUntil (0 when it has  *)
(* none or the zero time), the validUntil of each SPSSODescriptor, and     *)
(* whether every key descriptor has a known use.                           *)
(***************************************************************************)
EXTENDS Naturals, Sequences, FiniteSets

CONSTANTS
    Slot,       \* request goroutines that may run at the same time
    Service,    \* service IDs, the keys below /services/
    Entity,     \* entity IDs
    Shortcut,   \* names of shortcuts
    Document,   \* what the PUT of a service may carry in its body
    Suffix,     \* what may follow the shortcut's name in a /login/ URL
    Body,       \* what the PUT of a shortcut may carry in its body
    NotFound,   \* what the Store or a map answers for a missing key
    None,       \* no slot, no service
    MaxTime     \* bound on the clock

Time == 0..MaxTime

\* saml.EntityDescriptor.  group is the validUntil of the EntitiesDescriptor it
\* was taken from, kept for the properties only.
Metadata == [entity: Entity, until: Time, descriptors: SUBSET Time,
             keysOK: BOOLEAN, group: Time]

\* A RelayState is the sequence of its parts: <<>> when it is empty.
RelayState == {<<>>} \cup {<<x>> : x \in Suffix} \cup {<<"/", x>> : x \in Suffix}

\* Shortcut: the entity ID of its service, its fixed relay state or None, and
\* URISuffixAsRelayState.
ShortcutRecord == [sp: Entity, fixed: RelayState \cup {None}, suffix: BOOLEAN]

\* The body of a service's PUT: one EntityDescriptor, or an EntitiesDescriptor with its own
\* validUntil and some of them.
ASSUME RegistryAssumption ==
    /\ None \notin Slot \cup Service
    /\ NotFound \notin Metadata \cup Entity \cup ShortcutRecord
    /\ None \notin RelayState \cup Suffix
    /\ Body \subseteq ShortcutRecord
    /\ MaxTime \in Nat \ {0}
    /\ Document \subseteq [grouped: BOOLEAN, until: Time, entities: Seq(Metadata)]
    /\ \A d \in Document :
          /\ ~d.grouped => Len(d.entities) = 1
          /\ \A i \in 1..Len(d.entities) : d.entities[i].group = 0

VARIABLES
    services,   \* Store, /services/: Service -> Metadata or NotFound
    shortcuts,  \* Store, /shortcuts/: Shortcut -> ShortcutRecord or NotFound
    providers,  \* serviceProviders: Entity -> Metadata or NotFound
    owner,      \* serviceIDs: Entity -> Service or None
    readers,    \* read locks on idpConfigMu held by each slot
    writer,     \* the slot that has called idpConfigMu.Lock, or None
    status,     \* "up", "down" or "refused"
    now,        \* saml.TimeNow
    pc,         \* where each request is
    arg,        \* the service and metadata a request writes
    ask,        \* the entity ID a request looks up, and where it came from
    got         \* the metadata GetServiceProvider returned, and when

vars == <<services, shortcuts, providers, owner, readers, writer, status, now,
          pc, arg, ask, got>>

-----------------------------------------------------------------------------
\* Metadata.

\* !validUntil.IsZero() && !now.Before(validUntil)
Expired(until, t) == until # 0 /\ until <= t

\* currentMetadata: metadata without its expired descriptors, or NotFound.
CurrentMetadata(m, t) ==
    LET left == {d \in m.descriptors : ~Expired(d, t)} IN
    IF Expired(m.until, t) \/ left = {} THEN NotFound
    ELSE [m EXCEPT !.descriptors = left]

\* Mutant of GroupUntil: a group's validUntil only fills in a missing one.
MutantGroupUntil(m, until) == IF m.until = 0 THEN until ELSE m.until

\* The expiry of a group covers the entities it contains.
GroupUntil(m, until) ==
    IF until # 0 /\ (m.until = 0 \/ until < m.until) THEN until ELSE m.until

\* getSPMetadata: the entity itself, or the first of a group that has an
\* SPSSODescriptor, or NotFound.
GetSPMetadata(d) ==
    LET sps == {i \in 1..Len(d.entities) : d.entities[i].descriptors # {}}
        first == CHOOSE i \in sps : \A j \in sps : i <= j
    IN
    IF ~d.grouped THEN d.entities[1]
    ELSE IF sps = {} THEN NotFound
    ELSE [d.entities[first] EXCEPT !.until = GroupUntil(d.entities[first], d.until),
                                   !.group = d.until]

-----------------------------------------------------------------------------
\* Two services of the Store never register the same entity ID.
EntitiesDistinct(f) ==
    \A s, t \in Service :
       s # t /\ f[s] # NotFound /\ f[t] # NotFound => f[s].entity # f[t].entity

NoArg == [service |-> None, metadata |-> NotFound, previous |-> NotFound]
NoAsk == [entity |-> NotFound, shortcut |-> NotFound, suffix |-> None,
          relay |-> <<>>]
NoGot == [metadata |-> NotFound, time |-> 0]

Init ==
    /\ services = [s \in Service |-> NotFound]
    /\ shortcuts = [x \in Shortcut |-> NotFound]
    /\ providers = [e \in Entity |-> NotFound]
    /\ owner = [e \in Entity |-> None]
    /\ readers = [r \in Slot |-> 0]
    /\ writer = None
    /\ status = "up"
    /\ now = 1
    /\ pc = [r \in Slot |-> "idle"]
    /\ arg = [r \in Slot |-> NoArg]
    /\ ask = [r \in Slot |-> NoAsk]
    /\ got = [r \in Slot |-> NoGot]

storeVars == <<services, shortcuts>>
mapVars == <<providers, owner>>
lockVars == <<readers, writer>>
localVars == <<pc, arg, ask, got>>

\* The process dies, and with it the maps, the mutex and every request.
Crash ==
    /\ status = "up"
    /\ status' = "down"
    /\ providers' = [e \in Entity |-> NotFound]
    /\ owner' = [e \in Entity |-> None]
    /\ readers' = [r \in Slot |-> 0]
    /\ writer' = None
    /\ pc' = [r \in Slot |-> "idle"]
    /\ arg' = [r \in Slot |-> NoArg]
    /\ ask' = [r \in Slot |-> NoAsk]
    /\ got' = [r \in Slot |-> NoGot]
    /\ UNCHANGED <<storeVars, now>>

\* initializeServices: the maps are filled from the Store before requests are
\* served; an entity ID registered twice is an error.
Start ==
    /\ status = "down"
    /\ \/ /\ EntitiesDistinct(services)
          /\ status' = "up"
          /\ owner' = [e \in Entity |->
                         IF \E s \in Service : services[s] # NotFound
                                                 /\ services[s].entity = e
                         THEN CHOOSE s \in Service : services[s] # NotFound
                                                       /\ services[s].entity = e
                         ELSE None]
          /\ providers' = [e \in Entity |->
                             IF owner'[e] = None THEN NotFound
                             ELSE services[owner'[e]]]
       \/ /\ ~EntitiesDistinct(services)
          /\ status' = "refused"
          /\ UNCHANGED mapVars
    /\ UNCHANGED <<storeVars, lockVars, now, localVars>>

Tick ==
    /\ now < MaxTime
    /\ now' = now + 1
    /\ UNCHANGED <<storeVars, mapVars, lockVars, status, localVars>>

-----------------------------------------------------------------------------
\* idpConfigMu.

Goto(r, point) == pc' = [pc EXCEPT ![r] = point]

\* Lock, first part: the writer announces itself, which stops new readers.
LockAnnounce(r, point) ==
    /\ writer = None
    /\ writer' = r
    /\ Goto(r, point)

\* Lock, second part: the readers that hold the mutex have left.
Locked(r) == writer = r /\ \A q \in Slot : readers[q] = 0

\* The request is over; a deferred Unlock runs.
Finish(r) ==
    /\ Goto(r, "idle")
    /\ arg' = [arg EXCEPT ![r] = NoArg]
    /\ ask' = [ask EXCEPT ![r] = NoAsk]
    /\ got' = [got EXCEPT ![r] = NoGot]
    /\ writer' = IF writer = r THEN None ELSE writer

\* deregisterServiceProvider: only the service that registered the entity ID.
Deregister(s, e) ==
    IF owner[e] = s THEN [providers |-> [providers EXCEPT ![e] = NotFound],
                          owner |-> [owner EXCEPT ![e] = None]]
    ELSE [providers |-> providers, owner |-> owner]

-----------------------------------------------------------------------------
\* HandlePutService.

\* The body is read and checked before the mutex is taken.
StartPutService(r, s, d) ==
    LET m == GetSPMetadata(d) IN
    /\ status = "up"
    /\ pc[r] = "idle"
    /\ m # NotFound
    /\ m.keysOK
    /\ CurrentMetadata(m, now) # NotFound
    /\ arg' = [arg EXCEPT ![r] = [service |-> s, metadata |-> m,
                                  previous |-> NotFound]]
    /\ Goto(r, "put_lock")
    /\ UNCHANGED <<storeVars, mapVars, lockVars, status, now, ask, got>>

PutLock(r) ==
    /\ pc[r] = "put_lock"
    /\ LockAnnounce(r, "put_get")
    /\ UNCHANGED <<storeVars, mapVars, readers, status, now, arg, ask, got>>

\* Mutant of PutGet: whether the entity ID is registered by another service is
\* not looked at.
MutantPutGet(r) ==
    /\ pc[r] = "put_get"
    /\ Locked(r)
    /\ arg' = [arg EXCEPT ![r].previous = services[arg[r].service]]
    /\ Goto(r, "put_put")
    /\ UNCHANGED <<storeVars, mapVars, readers, status, now, writer, ask, got>>

\* The entity ID may be registered by this service only; the previous record of
\* the service is read.
PutGet(r) ==
    LET e == arg[r].metadata.entity
        taken == providers[e] # NotFound /\ owner[e] # arg[r].service
    IN
    /\ pc[r] = "put_get"
    /\ Locked(r)
    /\ \/ /\ taken
          /\ Finish(r)
       \/ /\ ~taken
          /\ arg' = [arg EXCEPT ![r].previous = services[arg[r].service]]
          /\ Goto(r, "put_put")
          /\ UNCHANGED <<writer, ask, got>>
    /\ UNCHANGED <<storeVars, mapVars, readers, status, now>>

PutPut(r) ==
    /\ pc[r] = "put_put"
    /\ services' = [services EXCEPT ![arg[r].service] = arg[r].metadata]
    /\ Goto(r, "put_map")
    /\ UNCHANGED <<shortcuts, mapVars, lockVars, status, now, arg, ask, got>>

\* Mutant of PutMap: the previous entity ID stays registered.
MutantPutMap(r) ==
    LET m == arg[r].metadata IN
    /\ pc[r] = "put_map"
    /\ providers' = [providers EXCEPT ![m.entity] = m]
    /\ owner' = [owner EXCEPT ![m.entity] = arg[r].service]
    /\ Finish(r)
    /\ UNCHANGED <<storeVars, readers, status, now>>

\* The previous entity ID is deregistered and the new one registered.
PutMap(r) ==
    LET m == arg[r].metadata
        base == IF arg[r].previous # NotFound
                THEN Deregister(arg[r].service, arg[r].previous.entity)
                ELSE [providers |-> providers, owner |-> owner]
    IN
    /\ pc[r] = "put_map"
    /\ providers' = [base.providers EXCEPT ![m.entity] = m]
    /\ owner' = [base.owner EXCEPT ![m.entity] = arg[r].service]
    /\ Finish(r)
    /\ UNCHANGED <<storeVars, readers, status, now>>

-----------------------------------------------------------------------------
\* HandleDeleteService.

StartDeleteService(r, s) ==
    /\ status = "up"
    /\ pc[r] = "idle"
    /\ arg' = [arg EXCEPT ![r].service = s]
    /\ Goto(r, "delete_lock")
    /\ UNCHANGED <<storeVars, mapVars, lockVars, status, now, ask, got>>

DeleteLock(r) ==
    /\ pc[r] = "delete_lock"
    /\ LockAnnounce(r, "delete_get")
    /\ UNCHANGED <<storeVars, mapVars, readers, status, now, arg, ask, got>>

DeleteGet(r) ==
    LET previous == services[arg[r].service] IN
    /\ pc[r] = "delete_get"
    /\ Locked(r)
    /\ \/ /\ previous = NotFound
          /\ Finish(r)
       \/ /\ previous # NotFound
          /\ arg' = [arg EXCEPT ![r].previous = previous]
          /\ Goto(r, "delete_delete")
          /\ UNCHANGED <<writer, ask, got>>
    /\ UNCHANGED <<storeVars, mapVars, readers, status, now>>

DeleteDelete(r) ==
    /\ pc[r] = "delete_delete"
    /\ services' = [services EXCEPT ![arg[r].service] = NotFound]
    /\ Goto(r, "delete_map")
    /\ UNCHANGED <<shortcuts, mapVars, lockVars, status, now, arg, ask, got>>

DeleteMap(r) ==
    LET left == Deregister(arg[r].service, arg[r].previous.entity) IN
    /\ pc[r] = "delete_map"
    /\ providers' = left.providers
    /\ owner' = left.owner
    /\ Finish(r)
    /\ UNCHANGED <<storeVars, readers, status, now>>

\* A Store operation of a writer fails: the handler answers 500 and the maps are
\* left as they are.
StoreError(r) ==
    /\ \/ pc[r] \in {"put_get", "delete_get"} /\ Locked(r)
       \/ pc[r] \in {"put_put", "delete_delete"}
    /\ Finish(r)
    /\ UNCHANGED <<storeVars, mapVars, readers, status, now>>

-----------------------------------------------------------------------------
\* GetServiceProvider, called by ServeSSO for the issuer of the request and by
\* HandleIDPInitiated, through ServeIDPInitiated, for the service of a shortcut.

StartSSO(r, e) ==
    /\ status = "up"
    /\ pc[r] = "idle"
    /\ ask' = [ask EXCEPT ![r].entity = e]
    /\ Goto(r, "rlock")
    /\ UNCHANGED <<storeVars, mapVars, lockVars, status, now, arg, got>>

\* HandleIDPInitiated's relay state: the fixed one of the shortcut, or the URL's
\* suffix (None if the URL has none) after a slash, or none.
RelayStateOf(shortcut, suffix) ==
    CASE shortcut.fixed # None -> shortcut.fixed
      [] shortcut.fixed = None /\ shortcut.suffix /\ suffix # None -> <<"/", suffix>>
      [] OTHER -> <<>>

AskShortcut(x, suffix) ==
    [entity |-> shortcuts[x].sp, shortcut |-> shortcuts[x], suffix |-> suffix,
     relay |-> RelayStateOf(shortcuts[x], suffix)]

\* Mutant of StartShortcut: the handler holds idpConfigMu itself.
MutantStartShortcut(r, x, suffix) ==
    /\ status = "up"
    /\ pc[r] = "idle"
    /\ shortcuts[x] # NotFound
    /\ writer = None
    /\ readers' = [readers EXCEPT ![r] = @ + 1]
    /\ ask' = [ask EXCEPT ![r] = AskShortcut(x, suffix)]
    /\ Goto(r, "rlock")
    /\ UNCHANGED <<storeVars, mapVars, writer, status, now, arg, got>>

\* HandleIDPInitiated: Store.Get of the shortcut.  A missing one is an error.
StartShortcut(r, x, suffix) ==
    /\ status = "up"
    /\ pc[r] = "idle"
    /\ shortcuts[x] # NotFound
    /\ ask' = [ask EXCEPT ![r] = AskShortcut(x, suffix)]
    /\ Goto(r, "rlock")
    /\ UNCHANGED <<storeVars, mapVars, lockVars, status, now, arg, got>>

\* Mutant of RLock: the mutex is not taken.
MutantRLock(r) ==
    /\ pc[r] = "rlock"
    /\ Goto(r, "read")
    /\ UNCHANGED <<storeVars, mapVars, lockVars, status, now, arg, ask, got>>

RLock(r) ==
    /\ pc[r] = "rlock"
    /\ writer = None
    /\ readers' = [readers EXCEPT ![r] = @ + 1]
    /\ Goto(r, "read")
    /\ UNCHANGED <<storeVars, mapVars, writer, status, now, arg, ask, got>>

\* The registered metadata of the entity ID, unless it has expired since.
Lookup(e, t) ==
    IF providers[e] = NotFound THEN NotFound ELSE CurrentMetadata(providers[e], t)

\* The maps are read and the read locks released.
Read(r) ==
    /\ pc[r] = "read"
    /\ got' = [got EXCEPT ![r] = [metadata |-> Lookup(ask[r].entity, now), time |-> now]]
    /\ readers' = [readers EXCEPT ![r] = 0]
    /\ Goto(r, "done")
    /\ UNCHANGED <<storeVars, mapVars, writer, status, now, arg, ask>>

\* The response is written; the request is over.
Respond(r) ==
    /\ pc[r] = "done"
    /\ Finish(r)
    /\ UNCHANGED <<storeVars, mapVars, readers, status, now>>

\* HandlePutShortcut and HandleDeleteShortcut: one Store operation each.
PutShortcut(x, shortcut) ==
    /\ status = "up"
    /\ shortcuts[x] # shortcut
    /\ shortcuts' = [shortcuts EXCEPT ![x] = shortcut]
    /\ UNCHANGED <<services, mapVars, lockVars, status, now, localVars>>

DeleteShortcut(x) ==
    /\ status = "up"
    /\ shortcuts[x] # NotFound
    /\ shortcuts' = [shortcuts EXCEPT ![x] = NotFound]
    /\ UNCHANGED <<services, mapVars, lockVars, status, now, localVars>>

-----------------------------------------------------------------------------
Arrive(r) ==
    \/ \E s \in Service :
          StartDeleteService(r, s) \/ \E d \in Document : StartPutService(r, s, d)
    \/ \E e \in Entity : StartSSO(r, e)
    \/ \E x \in Shortcut, suffix \in Suffix \cup {None} : StartShortcut(r, x, suffix)

Acquire(r) == PutLock(r) \/ DeleteLock(r) \/ RLock(r)

Step(r) ==
    \/ PutGet(r) \/ PutPut(r) \/ PutMap(r)
    \/ DeleteGet(r) \/ DeleteDelete(r) \/ DeleteMap(r)
    \/ StoreError(r)
    \/ Read(r)
    \/ Respond(r)

Next ==
    \/ Crash
    \/ Start
    \/ Tick
    \/ \E x \in Shortcut : DeleteShortcut(x) \/ \E b \in Body : PutShortcut(x, b)
    \/ \E r \in Slot : Arrive(r) \/ Acquire(r) \/ Step(r)

Spec == Init /\ [][Next]_vars

\* Goroutines keep running.  A sync.RWMutex starves neither side: a waiting
\* writer stops new readers, and its Unlock lets the waiting readers in first.
Fairness ==
    /\ WF_vars(Start)
    /\ \A r \in Slot : WF_vars(Step(r)) /\ SF_vars(Acquire(r))

FairSpec == Spec /\ Fairness

-----------------------------------------------------------------------------
\* Properties.

\* Every variable keeps its shape.
TypeOK ==
    /\ services \in [Service -> Metadata \cup {NotFound}]
    /\ shortcuts \in [Shortcut -> ShortcutRecord \cup {NotFound}]
    /\ providers \in [Entity -> Metadata \cup {NotFound}]
    /\ owner \in [Entity -> Service \cup {None}]
    /\ readers \in [Slot -> Nat]
    /\ writer \in Slot \cup {None}
    /\ status \in {"up", "down", "refused"}
    /\ now \in Time
    /\ pc \in [Slot -> {"idle", "put_lock", "put_get", "put_put", "put_map",
                        "delete_lock", "delete_get", "delete_delete", "delete_map",
                        "rlock", "read", "done"}]
    /\ arg \in [Slot -> [service: Service \cup {None},
                         metadata: Metadata \cup {NotFound},
                         previous: Metadata \cup {NotFound}]]
    /\ ask \in [Slot -> [entity: Entity \cup {NotFound},
                         shortcut: ShortcutRecord \cup {NotFound},
                         suffix: Suffix \cup {None}, relay: RelayState]]
    /\ got \in [Slot -> [metadata: Metadata \cup {NotFound}, time: Time]]

\* Whenever no writer is between its Store operation and the maps, the maps hold
\* exactly the services of the Store: what a restart would register is what is
\* registered now, and a deleted or renamed service is not answered for.
RegistryMatchesStore ==
    status = "up" /\ (\A r \in Slot : pc[r] \notin {"put_map", "delete_map"}) =>
       \A e \in Entity :
          /\ \A s \in Service :
                owner[e] = s <=> services[s] # NotFound /\ services[s].entity = e
          /\ providers[e] = IF owner[e] = None THEN NotFound ELSE services[owner[e]]

\* No two services of the Store register one entity ID, wherever the server dies
\* and whichever Store operation fails, so initializeServices never refuses it.
RestartAccepted ==
    status # "refused" /\ EntitiesDistinct(services)

\* GetServiceProvider never answers with metadata past its validUntil, past that
\* of the EntitiesDescriptor it was registered from, or with an expired
\* SPSSODescriptor, however long ago it was registered and even if it expired
\* while its registration waited for idpConfigMu.
NoExpiredAnswer ==
    \A r \in Slot : got[r].metadata # NotFound =>
       LET m == got[r].metadata IN
       /\ ~Expired(m.until, got[r].time) /\ ~Expired(m.group, got[r].time)
       /\ m.descriptors # {} /\ \A d \in m.descriptors : ~Expired(d, got[r].time)

\* Every request is answered: readers and writers of idpConfigMu never wait for
\* each other for ever.
RequestsFinish == \A r \in Slot : pc[r] # "idle" ~> pc[r] = "idle"

-----------------------------------------------------------------------------
\* Refinement: the Store is the table.  A change takes effect when the Store does
\* it, and until the maps follow idpConfigMu keeps the lookups out.
RequestOf(r) ==
    CASE pc[r] \in {"put_lock", "put_get", "put_put"} ->
            [kind |-> "put", service |-> arg[r].service, metadata |-> arg[r].metadata]
      [] pc[r] \in {"delete_lock", "delete_get", "delete_delete"} ->
            [kind |-> "delete", service |-> arg[r].service]
      [] pc[r] \in {"put_map", "delete_map"} -> [kind |-> "changed"]
      [] pc[r] \in {"rlock", "read"} -> [kind |-> "lookup", entity |-> ask[r].entity]
      [] pc[r] = "done" -> [kind |-> "found", metadata |-> got[r].metadata]
      [] OTHER -> [kind |-> "idle"]

Directory == INSTANCE ServiceDirectory WITH
    table <- services,
    request <- [r \in Slot |-> RequestOf(r)],
    Offered <- {GetSPMetadata(d) : d \in Document} \ {NotFound},
    Current <- CurrentMetadata

\* The server with its Store, maps, mutex, failures and restarts behaves as one
\* table with atomic changes and lookups.
ImplementsDirectory == Directory!Spec

=============================================================================
