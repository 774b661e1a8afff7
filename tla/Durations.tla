----------------------------- MODULE Durations -----------------------------
(***************************************************************************)
(* Durations and times in XML: duration.go, time.go, and the attributes    *)
(* cacheDuration and validUntil of metadata.go that are written with them. *)
(*                                                                         *)
(* A text is abstracted to its parts, the numbers before its designators.  *)
(* The units are parameters, so that a duration of Width bits overflows as *)
(* an int64 of nanoseconds does; Instants and texts of instants count the  *)
(* nanoseconds from the zero time.Time.                                    *)
(***************************************************************************)
EXTENDS Integers

CONSTANTS
    Width,          \* bits of a time.Duration and of an int
    Second,         \* time.Second in nanoseconds
    Minute,         \* time.Minute in seconds
    Hour,           \* time.Hour in minutes
    Day,            \* day in hours
    Month,          \* month in days
    Year,           \* year in days
    Millisecond,    \* time.Millisecond in nanoseconds
    Precise,        \* nanoseconds from which a float64 of seconds may be off by one: 2^52
    PreciseWhole,   \* the same for whole seconds: 2^62
    MaxFloat,       \* the most seconds that are a float64
    Held,           \* metadata in memory
    Stored,         \* metadata in the Store
    MaxRounds,      \* bound on how often metadata is written and read
    Empty,          \* an attribute whose text is empty
    None,           \* a part, a text or an attribute that is not there
    Error           \* an error

MaxInt == 2^(Width - 1) - 1
MinInt == -(2^(Width - 1))
Duration == MinInt..MaxInt

\* Integer arithmetic wraps around.
Wrap(x) == ((x - MinInt) % 2^Width) + MinInt

MinuteNs == Minute * Second
HourNs == Hour * MinuteNs
DayNs == Day * HourNs

\* A text: negative or not, years, months and days, and after a T (time) hours,
\* minutes and seconds, of which ns is the fraction.  This one has no parts.
NoParts == [negative |-> FALSE, y |-> None, mo |-> None, d |-> None, time |-> TRUE,
            h |-> None, m |-> None, s |-> None, ns |-> 0]

-----------------------------------------------------------------------------
\* Duration.

\* Duration.MarshalText: None for zero.  The negation of the least duration is
\* itself, and then no part is above zero.
MarshalText(d) ==
    LET a == IF d < 0 THEN Wrap(-d) ELSE d
        h == a \div HourNs
        m == (a % HourNs) \div MinuteNs
        s == (a % MinuteNs) \div Second
        ns == a % Second
    IN
    CASE d = 0 -> None
      [] a < 0 -> [NoParts EXCEPT !.negative = TRUE]
      [] OTHER -> [NoParts EXCEPT !.negative = d < 0,
                                  !.h = IF h > 0 THEN h ELSE None,
                                  !.m = IF m > 0 THEN m ELSE None,
                                  !.s = IF s > 0 \/ ns > 0 THEN s ELSE None, !.ns = ns]

\* The two regular expressions: a part at least, and one after a T.
Matches(t) ==
    LET date == {t.y, t.mo, t.d}
        clock == {t.h, t.m, t.s}
    IN
    /\ (date \cup clock) # {None}
    /\ t.time = (clock # {None})

\* strconv.Atoi of a part.
Atoi(n) == IF n = None THEN 0 ELSE IF n > MaxInt THEN Error ELSE n

\* strconv.ParseFloat of the seconds: the number is out of range, or not.
ParseFloat(s) == IF s = None THEN 0 ELSE IF s > MaxFloat THEN Error ELSE s

\* The integers that s * float64(time.Second) may be cut to.  The seconds and then the
\* product are rounded to 53 bits, together by less than one part in Precise; whole
\* seconds and their products have fewer bits below PreciseWhole, and one nanosecond
\* comes out as one.
FloatProduct(s, ns) ==
    LET exact == s * Second + ns
        off == exact \div Precise
    IN  IF exact <= 1 \/ (ns = 0 /\ exact < PreciseWhole) THEN {exact}
        ELSE (exact - off - 1)..(exact + off)

\* Its conversion: what is out of range becomes either end, depending on the machine.
ToDuration(x) == IF x > MaxInt THEN {MinInt, MaxInt} ELSE {x}

Seconds(s, ns) ==
    IF s = None THEN {0} ELSE UNION {ToDuration(x) : x \in FloatProduct(s, ns)}

\* Mutant of UnmarshalText: a year is no longer than a month.
MutantUnmarshalText(t) ==
    IF t = None THEN {0}
    ELSE IF ~Matches(t) \/ Error \in {Atoi(t.y), Atoi(t.mo), Atoi(t.d), Atoi(t.h), Atoi(t.m),
                                  ParseFloat(t.s)}
    THEN {Error}
    ELSE {LET out == (Atoi(t.y) + Atoi(t.mo)) * Month * DayNs
                       + Atoi(t.d) * DayNs + Atoi(t.h) * HourNs + Atoi(t.m) * MinuteNs + s
          IN Wrap(IF t.negative THEN -out ELSE out) : s \in Seconds(t.s, t.ns)}

\* Duration.UnmarshalText: what it may return.  None is a nil text.
UnmarshalText(t) ==
    IF t = None THEN {0}
    ELSE IF ~Matches(t) \/ Error \in {Atoi(t.y), Atoi(t.mo), Atoi(t.d), Atoi(t.h), Atoi(t.m),
                                  ParseFloat(t.s)}
    THEN {Error}
    ELSE {LET out == Atoi(t.y) * Year * DayNs + Atoi(t.mo) * Month * DayNs
                       + Atoi(t.d) * DayNs + Atoi(t.h) * HourNs + Atoi(t.m) * MinuteNs + s
          IN Wrap(IF t.negative THEN -out ELSE out) : s \in Seconds(t.s, t.ns)}

-----------------------------------------------------------------------------
\* XSDDuration, whose value is a text or None for the empty one.

\* UnmarshalText keeps the text, if it is a duration; an empty text is none.
XsdUnmarshalText(t) == IF t = None \/ UnmarshalText(t) = {Error} THEN Error ELSE t

\* Mutant of XsdUnmarshalJSON: the text is written again from its value.
MutantXsdUnmarshalJSON(json) ==
    CASE "number" \in DOMAIN json -> MarshalText(json.number)
      [] json = [text |-> None] -> None
      [] OTHER -> IF UnmarshalText(json.text) = {Error} THEN Error
                  ELSE MarshalText(CHOOSE d \in UnmarshalText(json.text) : TRUE)

\* UnmarshalJSON: a text, or the nanoseconds of older files.
XsdUnmarshalJSON(json) ==
    CASE "number" \in DOMAIN json -> MarshalText(json.number)
      [] json = [text |-> None] -> None
      [] OTHER -> XsdUnmarshalText(json.text)

-----------------------------------------------------------------------------
\* RelaxedTime.

\* Round(time.Millisecond): halves go up.
Round(t) == ((t + Millisecond \div 2) \div Millisecond) * Millisecond

\* RelaxedTime.String: the wall clock in UTC, in milliseconds.
MarshalTime(t) == [wall |-> Round(t), zone |-> 0]

\* RelaxedTime.UnmarshalText: without a zone (None) it is UTC.  An empty text is the
\* zero time.
UnmarshalTime(text) ==
    IF text = None THEN 0
    ELSE Round(text.wall - (IF text.zone = None THEN 0 ELSE text.zone))

-----------------------------------------------------------------------------
\* Metadata: an EntityDescriptor or, with the group set, an EntitiesDescriptor, where
\* until and cache are pointers and may be None; role is the XSDDuration of a role of
\* it.  A file holds them as XML or as the JSON of the Store.

\* MarshalXML: a zero duration is left out, but not behind a pointer, where its text
\* is empty; a zero time is written in any case.
MarshalXML(m) ==
    [format |-> "xml", group |-> m.group, role |-> m.role,
     until |-> IF m.until = None THEN None ELSE MarshalTime(m.until),
     cache |-> CASE m.cache = None -> None
                 [] m.cache = 0 -> IF m.group THEN Empty ELSE None
                 [] OTHER -> MarshalText(m.cache)]

\* UnmarshalXML: what may be read.  An empty text is not nil.
UnmarshalXML(f) ==
    LET missing == IF f.group THEN None ELSE 0
        cache == CASE f.cache = Empty -> {Error}
                   [] f.cache = None -> {missing}
                   [] OTHER -> UnmarshalText(f.cache)
        role == IF f.role = None THEN None ELSE XsdUnmarshalText(f.role)
        until == IF f.until = None THEN missing ELSE UnmarshalTime(f.until)
    IN {IF Error \in {c, role} THEN Error
        ELSE [group |-> f.group, until |-> until, cache |-> c, role |-> role] : c \in cache}

\* encoding/json, of an entity: times and durations are kept, a text is a string.
MarshalJSON(m) == [format |-> "json", entity |-> m, role |-> [text |-> m.role]]

UnmarshalJSON(f) ==
    LET role == XsdUnmarshalJSON(f.role) IN
    {IF role = Error THEN Error ELSE [f.entity EXCEPT !.role = role]}

-----------------------------------------------------------------------------
\* Texts as the regular expressions leave them, where a fraction is one of seconds; the
\* texts of an XSDDuration; metadata and files of it.  Older files have durations with a
\* text: all but the least.

Part == Nat \cup {None}
Text ==
    {t \in [negative : BOOLEAN, y : Part, mo : Part, d : Part, time : BOOLEAN,
            h : Part, m : Part, s : Part, ns : 0..(Second - 1)] : t.s = None => t.ns = 0}
Role == {t \in Text : UnmarshalText(t) # {Error}} \cup {None}

Entity == [group : {FALSE}, until : Int, cache : Duration, role : Role]
Group == [group : {TRUE}, until : Int \cup {None}, cache : Duration \cup {None}, role : Role]

XmlFile ==
    [format : {"xml"}, group : BOOLEAN, role : Text \cup {None},
     until : [wall : Int, zone : Int \cup {None}] \cup {None},
     cache : Text \cup {Empty, None}]
JsonFile ==
    [format : {"json"}, entity : Entity,
     role : [text : Text \cup {None}] \cup [number : Duration \ {MinInt}]]

-----------------------------------------------------------------------------
VARIABLES
    held,       \* the metadata in memory, Error, or None
    file,       \* the metadata on disk or on the wire, or None
    origin,     \* what held was at first, or None
    rounds      \* how often it was written as XML and read again

vars == <<held, file, origin, rounds>>

Init ==
    /\ \/ held \in Held /\ file = None
       \/ held = None /\ file \in Stored
    /\ origin = held
    /\ rounds = 0

Write ==
    /\ held \notin {None, Error}
    /\ rounds < MaxRounds
    /\ file' \in {MarshalXML(held)} \cup (IF held.group THEN {} ELSE {MarshalJSON(held)})
    /\ held' = None
    /\ rounds' = IF file'.format = "xml" THEN rounds + 1 ELSE rounds
    /\ UNCHANGED origin

Read ==
    /\ file # None
    /\ held' \in IF file.format = "xml" THEN UnmarshalXML(file) ELSE UnmarshalJSON(file)
    /\ file' = None
    /\ origin' = IF origin = None THEN held' ELSE origin
    /\ UNCHANGED rounds

Next == Write \/ Read

Spec == Init /\ [][Next]_vars

-----------------------------------------------------------------------------
\* Properties.

Comparable == held \notin {None, Error} /\ origin \notin {None, Error}

\* An expiry moves by half a millisecond at most, however often the metadata is
\* written and read, and an expiry that is not there does not appear.
TimesSettle ==
    Comparable =>
       IF origin.until = None THEN held.until = None
       ELSE /\ held.until \in {origin.until, Round(origin.until)}
            /\ 2 * held.until \in (2 * origin.until - Millisecond)..(2 * origin.until + Millisecond)

\* The least duration has no text, nor has a zero behind a pointer.
HasText(m) == m.cache # MinInt /\ ~(m.group /\ m.cache = 0)

\* Metadata that is written can be read again, and a cacheDuration with its sign and
\* size comes back, but for a nanosecond each time.
CacheNear ==
    origin \notin {None, Error} /\ HasText(origin) =>
       /\ held # Error
       /\ held # None => IF origin.cache = None THEN held.cache = None
                          ELSE held.cache - origin.cache \in -rounds..rounds

\* The text of an XSDDuration survives as it was written, through the Store too.
RolesKept == Comparable => held.role = origin.role

\* Metadata survives being written and read, as XML and in the Store, any number of times.
Survives == TimesSettle /\ CacheNear /\ RolesKept

\* The duration that a text denotes.
Denoted(t) ==
    LET n(part) == IF part = None THEN 0 ELSE part
        out == n(t.y) * Year * DayNs + n(t.mo) * Month * DayNs + n(t.d) * DayNs
                 + n(t.h) * HourNs + n(t.m) * MinuteNs + n(t.s) * Second + t.ns
    IN IF t.negative THEN -out ELSE out

\* The seconds of a text in nanoseconds, and what they may be off by.
SecondsOf(t) == (IF t.s = None THEN 0 ELSE t.s * Second) + t.ns
Loss(t) == (SecondsOf(t) \div Precise) + 1

\* A cacheDuration in XML is read as what it denotes, but for what a float64 loses of
\* its seconds: a nanosecond below 52 days of them.  One that does not fit is not
\* refused but wraps around, and nothing else is added or lost, unless its seconds
\* alone are out of range.
ReadAsDenoted ==
    [][Read /\ file.format = "xml" /\ file.cache \notin {None, Empty} /\ held' # Error =>
         LET loss == Loss(file.cache)
             denoted == Denoted(file.cache)
             off == held'.cache - denoted
         IN  /\ denoted \in (MinInt + loss)..(MaxInt - loss) => off \in -loss..loss
             /\ SecondsOf(file.cache) + loss <= MaxInt =>
                   (off + loss) % 2^Width <= 2 * loss]_vars
=============================================================================
