------------------------- MODULE MCServiceRegistry -------------------------
(* Small instances of ServiceRegistry for TLC.                             *)
EXTENDS ServiceRegistry

CONSTANTS e1, e2, foo

Entry(e, until, descriptors) ==
    [entity |-> e, until |-> until, descriptors |-> descriptors, keysOK |-> TRUE,
     group |-> 0]
Single(m) == [grouped |-> FALSE, until |-> 0, entities |-> <<m>>]
Group(until, ms) == [grouped |-> TRUE, until |-> until, entities |-> ms]

\* A shortcut that takes the relay state from the URL.
MCBody == {[sp |-> e1, fixed |-> None, suffix |-> TRUE]}

\* Metadata of two entities, of which one never expires.  The other expires by a
\* descriptor or by its group, or is refused for its keys; a group may hold no
\* service provider.
MCDocument ==
    { Single(Entry(e2, 0, {0})), Single(Entry(e1, 0, {0, 2})),
      Single([Entry(e1, 0, {0}) EXCEPT !.keysOK = FALSE]),
      Group(2, <<Entry(e2, 0, {}), Entry(e1, 3, {0})>>),
      Group(2, <<Entry(e2, 0, {})>>) }
=============================================================================
