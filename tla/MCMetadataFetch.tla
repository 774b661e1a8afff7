-------------------------- MODULE MCMetadataFetch --------------------------
(* A small instance of MetadataFetch for TLC: sizes below, at and above each *)
(* limit and a buffer that reaches over both; small units, such that a few   *)
(* years do not fit into a duration.                                         *)
EXTENDS MetadataFetch

MCSizes == {0, MaxSize - 1, MaxSize, MaxSize + 1, Limit - 1, Limit, Limit + 1, Limit + 3}

NoText == [negative |-> FALSE, y |-> None, mo |-> None, d |-> None, time |-> TRUE,
           h |-> None, m |-> None, s |-> None, ns |-> 0]

TextOf(negative, y, d, h, s, ns) ==
    [negative |-> negative, y |-> y, mo |-> None, d |-> d,
     time |-> h # None \/ s # None, h |-> h, m |-> None, s |-> s,
     ns |-> IF s = None THEN 0 ELSE ns]

\* Texts of durations, and some that are none.
MCTexts(parts) ==
    {TextOf(negative, y, d, h, s, ns) :
       negative \in BOOLEAN, y \in parts, d \in parts, h \in parts, s \in (parts \cup {20, 30, 51, 60}),
       ns \in {0, 7}}
    \cup {[NoText EXCEPT !.d = 1], [NoText EXCEPT !.mo = 1, !.time = FALSE, !.m = 2],
          [NoText EXCEPT !.mo = 1, !.m = 2]}

MCHeld ==
    {[group |-> FALSE, until |-> t, cache |-> d, role |-> r] :
       t \in {0, 104}, d \in -(2^(Width - 1))..2^(Width - 1) - 1, r \in {None, TextOf(FALSE, 1, None, None, 1, 7)}}
    \cup
    {[group |-> TRUE, until |-> t, cache |-> d, role |-> None] :
       t \in {None, 0, 100, 104, 105, 109}, d \in {None, -1, 0, 25}}

Xml(cache, role, until) ==
    [format |-> "xml", group |-> FALSE, until |-> until, cache |-> cache, role |-> role]

Texts == MCTexts({None, 0, 1, 3, 2000})

\* Numbers that are exact as a float64 or not, whose durations fit, overflow in a sum or by themselves; times in several zones; nanoseconds of older files.
MCFetched ==
    {Xml(t, None, None) : t \in Texts}
    \cup {Xml(None, t, None) : t \in Texts}
    \cup {Xml(Empty, None, None)}
    \cup {Xml(None, None, [wall |-> 125, zone |-> z]) : z \in {None, 0, 20, -20}}
MCStored ==
    {[format |-> "json", role |-> [number |-> d],
      entity |-> [group |-> FALSE, until |-> 0, cache |-> 0, role |-> None]] :
       d \in {0, 33, -33}}
=============================================================================
