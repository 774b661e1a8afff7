-------------------------- MODULE ServiceDirectory --------------------------
(***************************************************************************)
(* What samlidp promises about its service providers, without its Store,   *)
(* its maps and its mutex: one table, in which every accepted change takes *)
(* effect at one instant between its request and its answer, and every     *)
(* lookup answers with what the table held at one such instant.  A change  *)
(* that fails leaves the table as it is.  A restart forgets the requests   *)
(* under way and nothing else.                                             *)
(*                                                                         *)
(* ServiceRegistry implements this specification.                          *)
(***************************************************************************)
EXTENDS Naturals

CONSTANTS
    Slot,           \* requests that may be under way at the same time
    Service,        \* service IDs
    Entity,         \* entity IDs
    Offered,        \* the metadata a service may be put with
    NotFound,       \* no metadata
    Time,           \* instants
    Current(_, _)   \* Current(m, t): what is left of metadata m at time t

VARIABLES
    table,      \* table[s]: the metadata of service s
    request,    \* request[r]: what slot r has under way
    now

vars == <<table, request, now>>

Idle == [kind |-> "idle"]

New ==
    [kind: {"put"}, service: Service, metadata: Offered]
    \cup [kind: {"delete"}, service: Service]
    \cup [kind: {"lookup"}, entity: Entity]

Init ==
    /\ table = [s \in Service |-> NotFound]
    /\ request = [r \in Slot |-> Idle]
    /\ now = 1

Becomes(r, state) == request' = [request EXCEPT ![r] = state]

Ask(r) ==
    /\ request[r] = Idle
    /\ \E state \in New : Becomes(r, state)
    /\ UNCHANGED <<table, now>>

\* No other service has the entity ID.
Put(r) ==
    LET s == request[r].service
        m == request[r].metadata
    IN
    /\ request[r].kind = "put"
    /\ \A t \in Service \ {s} : table[t] # NotFound => table[t].entity # m.entity
    /\ table' = [table EXCEPT ![s] = m]
    /\ Becomes(r, [kind |-> "changed"])
    /\ UNCHANGED now

Delete(r) ==
    /\ request[r].kind = "delete"
    /\ table' = [table EXCEPT ![request[r].service] = NotFound]
    /\ Becomes(r, [kind |-> "changed"])
    /\ UNCHANGED now

\* The metadata of the one service that has the entity ID, as it is now.
Answer(e) ==
    LET having == {s \in Service : table[s] # NotFound /\ table[s].entity = e} IN
    IF having = {} THEN NotFound
    ELSE Current(table[CHOOSE s \in having : TRUE], now)

Lookup(r) ==
    /\ request[r].kind = "lookup"
    /\ Becomes(r, [kind |-> "found", metadata |-> Answer(request[r].entity)])
    /\ UNCHANGED <<table, now>>

\* The answer is sent: of a lookup or a change, or that a change was refused.
End(r) ==
    /\ request[r].kind \in {"put", "delete", "found", "changed"}
    /\ Becomes(r, Idle)
    /\ UNCHANGED <<table, now>>

Restart ==
    /\ request' = [r \in Slot |-> Idle]
    /\ UNCHANGED <<table, now>>

Tick ==
    /\ now' \in Time
    /\ now' > now
    /\ UNCHANGED <<table, request>>

Next ==
    \/ Restart
    \/ Tick
    \/ \E r \in Slot : Ask(r) \/ Put(r) \/ Delete(r) \/ Lookup(r) \/ End(r)

Spec == Init /\ [][Next]_vars
=============================================================================
