--------------------------- MODULE MCSpMiddleware ---------------------------
(* Small instances of SpMiddleware for TLC.                                *)
EXTENDS SpMiddleware, TLC

CONSTANTS t1, t2, b1, b2, p1, p2

\* One tab in each of two browsers; two tabs of one.
MCTwoBrowsers == t1 :> b1 @@ t2 :> b2
MCOneBrowser == t1 :> b1 @@ t2 :> b1

\* Any page in any tab; a page of its own in each.
MCAsksAny == [t \in Tab |-> Page]
MCAsksOwn == t1 :> {p1} @@ t2 :> {p2}

\* The two browsers, each with its tab, are interchangeable.
Symmetry ==
    {p \in Permutations({t1, t2, b1, b2}) : \A t \in Tab : p[t] \in Tab /\ p[Owner[t]] = Owner[p[t]]}
=============================================================================
