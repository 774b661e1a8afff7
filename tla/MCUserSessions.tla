--------------------------- MODULE MCUserSessions ---------------------------
(* Small instances of UserSessions for TLC.                                *)
EXTENDS UserSessions, TLC

CONSTANTS r1, r2, alice, bob, a, A, b, pw1

\* One address; one which may also be written with a capital letter; two.
MCFold0 == a :> a
MCFold1 == (a :> a) @@ (A :> a)
MCFold2 == (a :> a) @@ (b :> b)

Stored(email, pw) == [email |-> email, hash |-> pw, rev |-> 0]
Put(u, email, pw, hash) ==
    [name |-> u, email |-> email, password |-> pw, hash |-> hash]

\* The stores found at the first start: an empty one; two users with the same
\* email, which is refused; one user.
MCInitialUsers ==
    { (alice :> NotFound) @@ (bob :> NotFound),
      (alice :> Stored(a, pw1)) @@ (bob :> Stored(A, pw1)) }
MCAlice == { [u \in User |-> IF u = alice THEN Stored(a, pw1) ELSE NotFound] }

\* Alice changes her address; bob takes the old one.
MCHandedOver == {Put(alice, b, pw1, NoPassword), Put(bob, a, pw1, NoPassword)}

\* A logout of the holder of an address from the first session.
MCLogouts == {<<a, {1}>>}

Symmetry == Permutations(Slot)
=============================================================================
