------------------------ MODULE MetadataFetchProofs ------------------------
(***************************************************************************)
(* What MetadataFetch guarantees, proved with TLAPS: its reads             *)
(* (LimitedRead) for messages of any size, buffers of any size and any     *)
(* limits, and the durations and times of its documents (Durations) for    *)
(* any units, any width of integers and any number of rounds.              *)
(***************************************************************************)
EXTENDS MetadataFetch, TLAPS

\* Shapes of the variables of LimitedRead.
ReadType ==
    /\ reader \in Readers
    /\ message \in [size: Nat, broken: BOOLEAN, status: Nat, timeout: BOOLEAN]
    /\ state \in {"waiting", "reading", "ended", "accepted", "error"}
    /\ got \in Nat /\ count \in Nat

\* What has been read so far, and why a read has ended: the message did, or
\* io.LimitReader has let one byte more than MaxSize pass.
ReadSoFar ==
    /\ got <= message.size
    /\ Inflates(reader) => count = got
    /\ Capped(reader) => got <= MaxSize + 1
    /\ reader = "logout" => got <= Limit
    /\ state = "ended" => \/ got = message.size /\ ~message.broken
                          \/ Capped(reader) /\ got = MaxSize + 1

LInv == ReadType /\ ReadSoFar /\ WholeOrRefused

\* What io.LimitReader leaves of a buffer.
LEMMA RemainingBound ==
    ASSUME ReadType, ReadSoFar, NEW p \in Nat
    PROVE  /\ Remaining(p) \in Nat /\ Remaining(p) <= p
           /\ Capped(reader) => got + Remaining(p) <= MaxSize + 1
  BY LimitAssumption DEF ReadType, ReadSoFar, Remaining

\* Initially nothing has been read.
LEMMA ReadInit == Init => LInv
  <1> SUFFICES ASSUME Init PROVE LInv
    OBVIOUS
  <1>1. message \in [size: Nat, broken: BOOLEAN, status: Nat, timeout: BOOLEAN]
    <2>1. message \in [size: Sizes, broken: BOOLEAN, status: Statuses, timeout: BOOLEAN]
      BY DEF Init
    <2>2. Sizes \subseteq Nat /\ Statuses \subseteq Nat
      BY LimitAssumption DEF Statuses, NoAnswer
    <2>. QED BY <2>1, <2>2
  <1>2. /\ reader \in Readers /\ state \in {"waiting", "reading"}
        /\ got = 0 /\ count = 0
    BY DEF Init
  <1>. QED
    BY <1>1, <1>2, LimitAssumption
       DEF LInv, ReadType, ReadSoFar, WholeOrRefused, MemoryBounded, RefusedForCause,
           Readers, Inflates, Capped

\* Every step of a reader keeps the invariant.
LEMMA ReadNext ==
    ASSUME LInv, [Next]_vars PROVE LInv'
  <1> USE LimitAssumption
      DEF LInv, ReadType, ReadSoFar, WholeOrRefused, MemoryBounded, RefusedForCause,
          Readers, Inflates, OverHTTP, Capped
  <1>1. CASE Do
    BY <1>1 DEF Do, NoAnswer
  <1>2. CASE Timeout
    BY <1>2 DEF Timeout
  <1>3. CASE ReadEnd
    <2>1. Capped(reader) /\ got = MaxSize + 1
      BY <1>3 DEF ReadEnd, Remaining
    <2>. QED BY <1>3, <2>1 DEF ReadEnd
  <1>4. ASSUME NEW p \in Buffers, ReadExceeded(p) PROVE LInv'
    <2>1. p \in Nat
      OBVIOUS
    <2>2. ~Capped(reader)
      BY <1>4, <2>1, RemainingBound DEF ReadExceeded, Exceeds
    <2>. QED BY <1>4, <2>2 DEF ReadExceeded
  <1>5. ASSUME NEW p \in Buffers, NEW n \in 0..p, NEW end \in BOOLEAN, ReadSome(p, n, end)
        PROVE  LInv'
    <2>1. p \in Nat /\ n \in Nat
      OBVIOUS
    <2>2. /\ got + n <= message.size /\ (end => got + n = message.size)
          /\ n <= Remaining(p) /\ ~Exceeds(Remaining(p))
          /\ state = "reading" /\ got' = got + n
          /\ count' = IF Inflates(reader) THEN count + n ELSE count
          /\ state' = IF ~end THEN "reading" ELSE IF message.broken THEN "error" ELSE "ended"
          /\ UNCHANGED <<reader, message>>
      BY <1>5 DEF ReadSome
    <2>3. Capped(reader) => got + n <= MaxSize + 1
      BY <2>1, <2>2, RemainingBound
    <2>4. reader = "logout" => got + n <= Limit
      BY <2>1, <2>2, RemainingBound DEF Exceeds
    <2>. QED BY <2>1, <2>2, <2>3, <2>4
  <1>6. CASE Check
    BY <1>6 DEF Check
  <1>7. CASE UNCHANGED vars
    BY <1>7 DEF vars
  <1>. QED BY <1>1, <1>2, <1>3, <1>4, <1>5, <1>6, <1>7 DEF Next, Read, Done

\* A message is passed on to a parser whole or not at all, memory stays bounded, and
\* nothing is refused without a cause: for any limits with MaxSize below the limit of
\* flate.go, any sizes and any way the bytes arrive.
THEOREM ReadsWholeOrRefuses == FetchSpec => []WholeOrRefused
  <1>1. FetchInit => LInv
    <2>1. CASE Init
      BY <2>1, ReadInit
    <2>2. ASSUME reader = AtRest.reader, message = AtRest.message, state = AtRest.state,
                 got = AtRest.got, count = AtRest.count
          PROVE  LInv
      BY <2>2, LimitAssumption
         DEF AtRest, LInv, ReadType, ReadSoFar, WholeOrRefused, MemoryBounded,
             RefusedForCause, Readers, Inflates, Capped
    <2>. QED BY <2>1, <2>2 DEF FetchInit
  <1>2. LInv /\ [FetchNext]_<<vars, document>> => LInv'
    <2> SUFFICES ASSUME LInv, [FetchNext]_<<vars, document>> PROVE LInv'
      OBVIOUS
    <2>1. CASE [Next]_vars
      BY <2>1, ReadNext
    <2>2. CASE Arrive
      BY <2>2, LimitAssumption
         DEF Arrive, AtRest, LInv, ReadType, ReadSoFar, WholeOrRefused, MemoryBounded,
             RefusedForCause, Readers, Inflates, Capped
    <2>. QED BY <2>1, <2>2 DEF FetchNext
  <1>3. LInv => WholeOrRefused
    BY DEF LInv
  <1>. QED BY <1>1, <1>2, <1>3, PTL DEF FetchSpec

-----------------------------------------------------------------------------
\* Arithmetic of \div and %, for any units.

\* Quotient and remainder.
LEMMA Divided ==
    ASSUME NEW a \in Int, NEW n \in Nat \ {0}
    PROVE  /\ a \div n \in Int /\ a % n \in 0..(n - 1)
           /\ a = (a \div n) * n + (a % n)
  OBVIOUS

\* There is one quotient and one remainder.
LEMMA DividedOnce ==
    ASSUME NEW n \in Nat \ {0}, NEW q \in Int, NEW r \in 0..(n - 1)
    PROVE  (q * n + r) \div n = q /\ (q * n + r) % n = r
  OBVIOUS

\* A product of naturals is one, and at least as large as each factor that is not
\* multiplied by zero.
LEMMA Product ==
    ASSUME NEW p \in Nat, NEW q \in Nat
    PROVE  p * q \in Nat /\ (q # 0 => p * q >= p)
  OBVIOUS

\* Laws of products.
LEMMA Laws ==
    ASSUME NEW p \in Int, NEW q \in Int, NEW n \in Int
    PROVE  p * (q * n) = (p * q) * n /\ p * n + q * n = (p + q) * n /\ p * q \in Int
  OBVIOUS

\* A smaller unit measures the rest that a multiple of it leaves.
LEMMA RestOfRest ==
    ASSUME NEW a \in Nat, NEW n \in Nat \ {0}, NEW k \in Nat \ {0}
    PROVE  (a % (k * n)) % n = a % n
  <1> DEFINE h == k * n
             r == a % h
             q == a \div h
             r2 == r % n
             q2 == r \div n
  <1>1. h \in Nat \ {0}
    BY Product
  <1> HIDE DEF h
  <1>2. q \in Int /\ r \in Nat /\ a = q * h + r
    BY <1>1, Divided
  <1> HIDE DEF r, q
  <1>3. q2 \in Int /\ r2 \in 0..(n - 1) /\ r = q2 * n + r2
    BY <1>2, Divided
  <1> HIDE DEF r2, q2
  <1>4. q * h = (q * k) * n /\ q * k \in Int
    BY <1>2, Laws DEF h
  <1>5. a = (q * k) * n + q2 * n + r2
    BY <1>2, <1>3, <1>4
  <1> DEFINE p == q * k
  <1>6. p \in Int
    BY <1>4
  <1> HIDE DEF p
  <1>7. p * n + q2 * n = (p + q2) * n
    BY <1>3, <1>6, Laws
  <1>8. a = (p + q2) * n + r2 /\ p + q2 \in Int
    BY <1>3, <1>5, <1>6, <1>7 DEF p
  <1>9. a % n = r2
    BY <1>3, <1>8, DividedOnce
  <1>. QED BY <1>9 DEF r, r2, h

\* A number of nanoseconds in hours, minutes, seconds and the rest.
LEMMA InUnits ==
    ASSUME NEW a \in Nat, NEW s \in Nat \ {0}, NEW k \in Nat \ {0}, NEW l \in Nat \ {0}
    PROVE  a = (a \div (l * (k * s))) * (l * (k * s))
                 + ((a % (l * (k * s))) \div (k * s)) * (k * s)
                 + ((a % (k * s)) \div s) * s + (a % s)
  <1> DEFINE n == k * s
             h == l * n
  <1>1. n \in Nat \ {0} /\ h \in Nat \ {0}
    BY Product
  <1>2. (a % h) % n = a % n /\ (a % n) % s = a % s
    BY <1>1, RestOfRest
  <1> HIDE DEF n, h
  <1>3. a = (a \div h) * h + (a % h) /\ (a % h) \in Nat /\ a \div h \in Int
    BY <1>1, Divided
  <1>4. a % h = ((a % h) \div n) * n + (a % n) /\ (a % n) \in Nat /\ (a % h) \div n \in Int
    <2> DEFINE r == a % h
    <2> HIDE DEF r
    <2>1. r \in Nat /\ r % n = a % n
      BY <1>2, <1>3 DEF r
    <2>2. r = (r \div n) * n + (r % n) /\ r \div n \in Int /\ r % n \in Nat
      BY <1>1, <2>1, Divided
    <2>. QED BY <2>1, <2>2 DEF r
  <1>5. a % n = ((a % n) \div s) * s + (a % s) /\ (a % s) \in Nat /\ (a % n) \div s \in Int
    BY <1>1, <1>2, <1>4, Divided
  <1>6. a = (a \div h) * h + ((a % h) \div n) * n + ((a % n) \div s) * s + (a % s)
    <2> DEFINE x == (a \div h) * h
               y == ((a % h) \div n) * n
               z == ((a % n) \div s) * s
    <2>1. x \in Int /\ y \in Int /\ z \in Int
      BY <1>1, <1>3, <1>4, <1>5
    <2> HIDE DEF x, y, z
    <2>2. a = x + (a % h) /\ a % h = y + (a % n) /\ a % n = z + (a % s)
      BY <1>3, <1>4, <1>5 DEF x, y, z
    <2>. QED BY <2>1, <2>2, <1>3, <1>4, <1>5 DEF x, y, z
  <1>. QED BY <1>6 DEF n, h

\* The quotient of a natural number is one that is no larger.
LEMMA QuotientBelow ==
    ASSUME NEW a \in Nat, NEW n \in Nat \ {0}
    PROVE  a \div n \in Nat /\ a \div n <= a
  OBVIOUS

-----------------------------------------------------------------------------
\* Durations.

\* The range of a duration.
LEMMA Range ==
    /\ DUR!MaxInt \in Nat /\ DUR!MinInt = -DUR!MaxInt - 1
    /\ 2^Width = DUR!MaxInt - DUR!MinInt + 1
  BY DurationAssumption DEF DUR!MaxInt, DUR!MinInt

\* The units.
LEMMA Units ==
    /\ Second \in Nat \ {0} /\ DUR!MinuteNs \in Nat \ {0}
    /\ DUR!HourNs \in Nat \ {0} /\ DUR!DayNs \in Nat \ {0}
    /\ Month \in Nat /\ Year \in Nat
  <1>1. /\ Second \in Nat \ {0} /\ Minute \in Nat \ {0} /\ Hour \in Nat \ {0}
        /\ Day \in Nat \ {0} /\ Month \in Nat /\ Year \in Nat
    BY DurationAssumption
  <1>2. DUR!MinuteNs \in Nat \ {0}
    BY <1>1, Product DEF DUR!MinuteNs
  <1>3. DUR!HourNs \in Nat \ {0}
    BY <1>1, <1>2, Product DEF DUR!HourNs
  <1>4. DUR!DayNs \in Nat \ {0}
    BY <1>1, <1>3, Product DEF DUR!DayNs
  <1>. QED BY <1>1, <1>2, <1>3, <1>4

\* Arithmetic that wraps around stays in range, and does nothing to what is in range.
LEMMA Wraps ==
    ASSUME NEW x \in Int
    PROVE  /\ DUR!Wrap(x) \in DUR!Duration
           /\ x \in DUR!Duration => DUR!Wrap(x) = x
  <1> DEFINE w == 2^Width
             lo == DUR!MinInt
             hi == DUR!MaxInt
  <1> HIDE DEF w, lo, hi
  <1>1. w \in Nat \ {0} /\ hi \in Nat /\ lo = -hi - 1 /\ w = hi - lo + 1
    BY Range DEF w, lo, hi
  <1>2. (x - lo) % w \in 0..(w - 1)
    BY <1>1, Divided
  <1>3. x \in lo..hi => (x - lo) % w = x - lo
    <2> SUFFICES ASSUME x \in lo..hi PROVE (x - lo) % w = x - lo
      OBVIOUS
    <2>1. x - lo \in 0..(w - 1) /\ x - lo = 0 * w + (x - lo)
      BY <1>1
    <2>. QED BY <1>1, <2>1, DividedOnce
  <1>4. DUR!Wrap(x) = ((x - lo) % w) + lo /\ DUR!Duration = lo..hi
    BY DEF DUR!Wrap, DUR!Duration, w, lo, hi
  <1> DEFINE r == (x - lo) % w
  <1> HIDE DEF r
  <1>5. r \in 0..(w - 1) /\ (x \in lo..hi => r = x - lo) /\ DUR!Wrap(x) = r + lo
    BY <1>2, <1>3, <1>4 DEF r
  <1>6. r + lo \in lo..hi /\ (r = x - lo => r + lo = x)
    BY <1>1, <1>5
  <1>. QED BY <1>4, <1>5, <1>6

\* The values that stand for something missing or wrong are none of the others.
LEMMA Special ==
    /\ None \notin Int /\ Error \notin Int /\ Empty \notin Int
    /\ None # Error /\ None # Empty /\ Error # Empty
    /\ None \notin DUR!Text /\ Error \notin DUR!Text /\ Empty \notin DUR!Text
  BY DocumentAssumption

\* What the parts of a text sum up to, but for the seconds.
Rest(t) ==
    DUR!Atoi(t.y) * Year * DUR!DayNs + DUR!Atoi(t.mo) * Month * DUR!DayNs
      + DUR!Atoi(t.d) * DUR!DayNs + DUR!Atoi(t.h) * DUR!HourNs
      + DUR!Atoi(t.m) * DUR!MinuteNs

\* A text whose parts fit.
Fits(t) ==
    DUR!Matches(t) /\ Error \notin {DUR!Atoi(t.y), DUR!Atoi(t.mo), DUR!Atoi(t.d),
                                    DUR!Atoi(t.h), DUR!Atoi(t.m), DUR!ParseFloat(t.s)}

\* A part that fits is a number: itself, or zero when it is not there.
LEMMA PartFits ==
    ASSUME NEW n \in DUR!Part
    PROVE  /\ DUR!Atoi(n) # Error => DUR!Atoi(n) = (IF n = None THEN 0 ELSE n)
           /\ DUR!Atoi(n) # Error => DUR!Atoi(n) \in Nat
           /\ (n = None \/ n <= DUR!MaxInt) => DUR!Atoi(n) # Error
  <1>1. CASE n = None
    BY <1>1, Special DEF DUR!Atoi
  <1>2. CASE n # None
    <2>1. n \in Nat /\ DUR!MaxInt \in Nat
      BY <1>2, Range DEF DUR!Part
    <2>. QED BY <1>2, <2>1, Special DEF DUR!Atoi
  <1>. QED BY <1>1, <1>2

\* UnmarshalText of a text: an error, or that sum and the seconds.
LEMMA UnmarshalSum ==
    ASSUME NEW t \in DUR!Text
    PROVE  IF Fits(t)
           THEN /\ Rest(t) \in Nat
                /\ DUR!UnmarshalText(t) =
                     {DUR!Wrap(IF t.negative THEN -(Rest(t) + x) ELSE Rest(t) + x)
                        : x \in DUR!Seconds(t.s, t.ns)}
           ELSE DUR!UnmarshalText(t) = {Error}
  <1>1. t # None
    BY DocumentAssumption
  <1>2. CASE ~Fits(t)
    BY <1>1, <1>2 DEF Fits, DUR!UnmarshalText
  <1>3. CASE Fits(t)
    <2>1. t.y \in DUR!Part /\ t.mo \in DUR!Part /\ t.d \in DUR!Part /\ t.h \in DUR!Part
          /\ t.m \in DUR!Part
      BY DEF DUR!Text
    <2>2. DUR!Atoi(t.y) \in Nat /\ DUR!Atoi(t.mo) \in Nat /\ DUR!Atoi(t.d) \in Nat
          /\ DUR!Atoi(t.h) \in Nat /\ DUR!Atoi(t.m) \in Nat
      BY <1>3, <2>1, PartFits DEF Fits
    <2>3. /\ DUR!Atoi(t.y) * Year * DUR!DayNs \in Nat
          /\ DUR!Atoi(t.mo) * Month * DUR!DayNs \in Nat
          /\ DUR!Atoi(t.d) * DUR!DayNs \in Nat
          /\ DUR!Atoi(t.h) * DUR!HourNs \in Nat
          /\ DUR!Atoi(t.m) * DUR!MinuteNs \in Nat
      BY <2>2, Units, Product
    <2>4. Rest(t) \in Nat
      BY <2>3 DEF Rest
    <2>5. DUR!UnmarshalText(t) =
             {DUR!Wrap(IF t.negative THEN -(Rest(t) + x) ELSE Rest(t) + x)
                : x \in DUR!Seconds(t.s, t.ns)}
      BY <1>1, <1>3 DEF Fits, Rest, DUR!UnmarshalText
    <2>. QED BY <1>3, <2>4, <2>5
  <1>. QED BY <1>2, <1>3

\* The nanoseconds of the seconds of a text.
Exact(s, ns) == (IF s = None THEN 0 ELSE s * Second) + ns

\* The seconds of a text come out as they are, or off by what a float64 loses: a
\* nanosecond at most, and not the last one, where they are few.
LEMMA SecondsNear ==
    ASSUME NEW s \in DUR!Part, NEW ns \in 0..(Second - 1), s = None => ns = 0
    PROVE  /\ Exact(s, ns) \in Nat /\ Exact(s, ns) \div Precise \in Nat
           /\ DUR!Seconds(s, ns) # {}
           /\ \A x \in DUR!Seconds(s, ns) :
                 /\ x \in Int
                 /\ Exact(s, ns) + (Exact(s, ns) \div Precise) <= DUR!MaxInt =>
                       x \in (Exact(s, ns) - (Exact(s, ns) \div Precise) - 1)
                               ..(Exact(s, ns) + (Exact(s, ns) \div Precise))
                 /\ Exact(s, ns) < Precise /\ Exact(s, ns) <= DUR!MaxInt =>
                       x = Exact(s, ns) \/ (x = Exact(s, ns) - 1 /\ x >= 1)
  <1> DEFINE e == Exact(s, ns)
             k == e \div Precise
             lo == DUR!MinInt
             hi == DUR!MaxInt
  <1>1. ns \in Nat /\ Second \in Nat
    BY Units
  <1>2. hi \in Nat /\ lo = -hi - 1
    BY Range
  <1>3. Precise \in Nat \ {0} /\ PreciseWhole \in Nat \ {0}
    BY DurationAssumption
  <1>4. e \in Nat
    <2>1. CASE s = None
      BY <1>1, <2>1 DEF Exact
    <2>2. CASE s # None
      <3>1. s \in Nat
        BY <2>2 DEF DUR!Part
      <3>2. s * Second \in Nat
        BY <1>1, <3>1, Product
      <3>. QED BY <1>1, <2>2, <3>2 DEF Exact
    <2>. QED BY <2>1, <2>2
  <1>5. k \in Nat /\ (e < Precise => k = 0)
    <2> HIDE DEF e
    <2>1. e \div Precise \in Nat
      BY <1>3, <1>4, QuotientBelow
    <2>2. e < Precise => e \div Precise = 0
      <3> SUFFICES ASSUME e < Precise PROVE e \div Precise = 0
        OBVIOUS
      <3>1. e \in 0..(Precise - 1) /\ e = 0 * Precise + e
        BY <1>3, <1>4
      <3>. QED BY <1>3, <3>1, DividedOnce
    <2>. QED BY <2>1, <2>2
  <1>6. CASE s = None
    <2>1. e = 0 /\ DUR!Seconds(s, ns) = {0}
      BY <1>6 DEF Exact, DUR!Seconds
    <2> HIDE DEF e, k, hi
    <2>2. 0 \in (e - k - 1)..(e + k)
      BY <1>5, <2>1
    <2>. QED BY <1>4, <1>5, <2>1, <2>2 DEF e, k, hi
  <1>7. CASE s # None
    <2> DEFINE F == DUR!FloatProduct(s, ns)
    <2>1. F = IF e <= 1 \/ (ns = 0 /\ e < PreciseWhole) THEN {e} ELSE (e - k - 1)..(e + k)
      BY <1>7 DEF DUR!FloatProduct, Exact
    <2>2. DUR!Seconds(s, ns) = UNION {DUR!ToDuration(y) : y \in F}
      BY <1>7 DEF DUR!Seconds
    <2>3. \A y : DUR!ToDuration(y) = IF y > hi THEN {lo, hi} ELSE {y}
      BY DEF DUR!ToDuration
    <2> HIDE DEF F, e, k, lo, hi
    <2>4. e \in F /\ \A y \in F : y \in (e - k - 1)..(e + k)
      BY <1>4, <1>5, <2>1
    <2>5. \A y \in F : e < Precise => y = e \/ (y = e - 1 /\ y >= 1)
      <3> SUFFICES ASSUME NEW y \in F, e < Precise PROVE y = e \/ (y = e - 1 /\ y >= 1)
        OBVIOUS
      <3>1. CASE e <= 1 \/ (ns = 0 /\ e < PreciseWhole)
        BY <2>1, <3>1
      <3>2. CASE ~(e <= 1) /\ ~(ns = 0 /\ e < PreciseWhole)
        <4>1. k = 0 /\ y \in (e - k - 1)..(e + k)
          BY <1>5, <2>1, <3>2
        <4>. QED BY <1>4, <3>2, <4>1
      <3>. QED BY <3>1, <3>2
    <2>6. DUR!Seconds(s, ns) # {}
      <3>1. DUR!ToDuration(e) # {}
        BY <2>3
      <3>. QED BY <2>2, <2>4, <3>1
    <2>7. ASSUME NEW x \in DUR!Seconds(s, ns)
          PROVE  /\ x \in Int
                 /\ e + k <= hi => x \in (e - k - 1)..(e + k)
                 /\ e < Precise /\ e <= hi => x = e \/ (x = e - 1 /\ x >= 1)
      <3>1. PICK y \in F : x \in DUR!ToDuration(y)
        BY <2>2
      <3>2. y \in (e - k - 1)..(e + k) /\ (e < Precise => y = e \/ (y = e - 1 /\ y >= 1))
        BY <2>4, <2>5
      <3>3. x = y \/ (y > hi /\ x \in {lo, hi})
        BY <2>3, <3>1
      <3>. QED BY <1>2, <1>4, <1>5, <3>2, <3>3
    <2>. QED BY <1>4, <1>5, <2>6, <2>7 DEF e, k, hi
  <1>. QED BY <1>6, <1>7

\* Wrapping around adds a multiple of 2^Width.
LEMMA WrapsWhole ==
    ASSUME NEW y \in Int
    PROVE  \E q \in Int : DUR!Wrap(y) = y - q * 2^Width
  <1> DEFINE w == 2^Width
             lo == DUR!MinInt
             q == (y - lo) \div w
  <1>1. w \in Nat \ {0} /\ lo \in Int
    BY Range
  <1>2. DUR!Wrap(y) = ((y - lo) % w) + lo
    BY DEF DUR!Wrap
  <1> HIDE DEF w, lo
  <1>3. q \in Int /\ (y - lo) % w \in Int /\ y - lo = q * w + ((y - lo) % w)
    BY <1>1, Divided
  <1> DEFINE r == (y - lo) % w
             p == q * w
  <1>4. p \in Int
    BY <1>1, <1>3, Laws
  <1> HIDE DEF q, r
  <1>5. DUR!Wrap(y) = r + lo /\ r \in Int /\ y - lo = p + r
    BY <1>2, <1>3 DEF r
  <1> HIDE DEF p
  <1>6. DUR!Wrap(y) = y - p
    BY <1>1, <1>4, <1>5
  <1>. QED BY <1>3, <1>6 DEF p, w

\* The rest of a small number is no larger, with any multiple taken off.
LEMMA RestBelow ==
    ASSUME NEW z \in Nat, NEW q \in Int, NEW w \in Nat \ {0}
    PROVE  (z - q * w) % w <= z
  <1> DEFINE r == z % w
             d == z \div w
  <1>1. d \in Int /\ r \in 0..(w - 1) /\ z = d * w + r
    BY Divided
  <1>2. d \in Nat
    BY QuotientBelow
  <1> HIDE DEF r, d
  <1>3. d * w - q * w = (d - q) * w /\ d - q \in Int /\ d * w \in Nat /\ q * w \in Int
    <2>1. d * w \in Nat /\ q * w \in Int
      BY <1>2, Product, Laws
    <2>2. (d - q) * w + q * w = ((d - q) + q) * w /\ (d - q) * w \in Int
      BY <1>2, Laws
    <2>3. (d - q) + q = d /\ d - q \in Int
      BY <1>2
    <2>4. (d - q) * w + q * w = d * w
      BY <2>2, <2>3
    <2> DEFINE a == (d - q) * w
               b == q * w
               c == d * w
    <2> HIDE DEF a, b, c
    <2>5. a \in Int /\ b \in Int /\ c \in Int /\ a + b = c
      BY <2>1, <2>2, <2>4 DEF a, b, c
    <2>6. c - b = a
      BY <2>5
    <2>. QED BY <2>1, <2>3, <2>6 DEF a, b, c
  <1>4. z - q * w = (d - q) * w + r
    <2> DEFINE a == (d - q) * w
               b == q * w
               c == d * w
    <2> HIDE DEF a, b, c
    <2>1. b \in Int /\ c \in Nat /\ a = c - b /\ z = c + r
      BY <1>1, <1>3 DEF a, b, c
    <2>2. z - b = a + r
      BY <1>1, <2>1
    <2>. QED BY <2>2 DEF a, b
  <1>5. ((d - q) * w + r) % w = r
    BY <1>1, <1>3, DividedOnce
  <1>6. r <= z
    <2> DEFINE c == d * w
    <2> HIDE DEF c
    <2>1. c \in Nat /\ z = c + r
      BY <1>1, <1>3 DEF c
    <2>. QED BY <1>1, <2>1
  <1>. QED BY <1>4, <1>5, <1>6

\* A sum whose second part may be off, with a sign and wrapped around: it is off by as
\* much, if the whole fits with room for that, and by a multiple of 2^Width more else.
LEMMA SumNear ==
    ASSUME NEW r \in Nat, NEW e \in Nat, NEW k \in Nat, NEW x \in Int, NEW neg \in BOOLEAN,
           e + k <= DUR!MaxInt => x \in (e - k - 1)..(e + k)
    PROVE  LET y == IF neg THEN -(r + x) ELSE r + x
               d == IF neg THEN -(r + e) ELSE r + e
           IN  /\ d \in (DUR!MinInt + (k + 1))..(DUR!MaxInt - (k + 1)) =>
                     DUR!Wrap(y) - d \in -(k + 1)..(k + 1)
               /\ e + (k + 1) <= DUR!MaxInt =>
                     (DUR!Wrap(y) - d + (k + 1)) % 2^Width <= 2 * (k + 1)
  <1> DEFINE lo == DUR!MinInt
             hi == DUR!MaxInt
             y == IF neg THEN -(r + x) ELSE r + x
             d == IF neg THEN -(r + e) ELSE r + e
  <1>1. hi \in Nat /\ lo = -hi - 1 /\ DUR!Duration = lo..hi
    BY Range DEF DUR!Duration
  <1>2. e + k <= hi => x \in (e - k - 1)..(e + k)
    OBVIOUS
  <1> HIDE DEF lo, hi
  <1>3. y \in Int /\ d \in Int
    OBVIOUS
  <1>4. e + k <= hi => y - d \in -(k + 1)..(k + 1)
    <2>1. CASE neg
      BY <1>1, <1>2, <2>1
    <2>2. CASE ~neg
      BY <1>1, <1>2, <2>2
    <2>. QED BY <2>1, <2>2
  <1>5. ASSUME d \in (lo + (k + 1))..(hi - (k + 1))
        PROVE  DUR!Wrap(y) - d \in -(k + 1)..(k + 1)
    <2>1. e + k <= hi
      <3>1. CASE neg
        BY <1>1, <1>5, <3>1
      <3>2. CASE ~neg
        BY <1>1, <1>5, <3>2
      <3>. QED BY <3>1, <3>2
    <2> HIDE DEF y, d
    <2>2. y - d \in -(k + 1)..(k + 1)
      BY <1>4, <2>1
    <2>3. y \in lo..hi
      BY <1>1, <1>3, <1>5, <2>2
    <2>4. DUR!Wrap(y) = y
      BY <1>1, <1>3, <2>3, Wraps
    <2>. QED BY <2>2, <2>4
  <1>6. ASSUME e + (k + 1) <= hi
        PROVE  (DUR!Wrap(y) - d + (k + 1)) % 2^Width <= 2 * (k + 1)
    <2> HIDE DEF y, d
    <2>1. y - d \in -(k + 1)..(k + 1)
      BY <1>1, <1>4, <1>6
    <2> DEFINE z == y - d + (k + 1)
               w == 2^Width
    <2>2. z \in Nat /\ z <= 2 * (k + 1)
      BY <1>3, <2>1
    <2>3. w \in Nat \ {0}
      BY Range
    <2>4. PICK q \in Int : DUR!Wrap(y) = y - q * w
      BY <1>3, WrapsWhole
    <2> HIDE DEF w
    <2>5. DUR!Wrap(y) - d + (k + 1) = z - q * w
      <3> DEFINE p == q * w
      <3>1. p \in Int
        BY <2>3, <2>4, Laws
      <3> HIDE DEF p
      <3>2. DUR!Wrap(y) = y - p
        BY <2>4 DEF p
      <3>3. DUR!Wrap(y) - d + (k + 1) = z - p
        BY <1>3, <3>1, <3>2
      <3>. QED BY <3>3 DEF p
    <2> HIDE DEF z
    <2>6. (z - q * w) % w <= z /\ (z - q * w) % w \in Int
      <3>1. q * w \in Int
        BY <2>3, Laws
      <3>2. z - q * w \in Int
        BY <2>2, <3>1
      <3>3. (z - q * w) % w <= z
        BY <2>2, <2>3, <2>4, RestBelow
      <3>4. (z - q * w) % w \in Int
        <4> DEFINE v == z - q * w
        <4> HIDE DEF v
        <4>1. v \in Int
          BY <3>2 DEF v
        <4>2. v % w \in Int
          BY <2>3, <4>1, Divided
        <4>. QED BY <4>2 DEF v
      <3>. QED BY <3>3, <3>4
    <2>7. (z - q * w) % w <= 2 * (k + 1)
      <3> DEFINE u == (z - q * w) % w
      <3> HIDE DEF u
      <3>1. u <= z /\ u \in Int
        BY <2>6 DEF u
      <3>2. u <= 2 * (k + 1)
        BY <2>2, <3>1
      <3>. QED BY <3>2 DEF u
    <2>. QED BY <2>5, <2>7 DEF w
  <1>. QED BY <1>5, <1>6 DEF lo, hi

\* What a text denotes is the sum of its parts, if these fit.
LEMMA DenotedSum ==
    ASSUME NEW t \in DUR!Text, Fits(t)
    PROVE  DUR!Denoted(t) = IF t.negative THEN -(Rest(t) + Exact(t.s, t.ns))
                            ELSE Rest(t) + Exact(t.s, t.ns)
  <1> DEFINE n(part) == IF part = None THEN 0 ELSE part
  <1>1. /\ t.y \in DUR!Part /\ t.mo \in DUR!Part /\ t.d \in DUR!Part /\ t.h \in DUR!Part
        /\ t.m \in DUR!Part /\ t.s \in DUR!Part /\ t.ns \in 0..(Second - 1)
        /\ t.s = None => t.ns = 0
    BY DEF DUR!Text
  <1>2. /\ DUR!Atoi(t.y) = n(t.y) /\ DUR!Atoi(t.mo) = n(t.mo) /\ DUR!Atoi(t.d) = n(t.d)
        /\ DUR!Atoi(t.h) = n(t.h) /\ DUR!Atoi(t.m) = n(t.m)
    BY <1>1, PartFits DEF Fits
  <1>3. Rest(t) \in Nat
    BY UnmarshalSum
  <1>4. Rest(t) = n(t.y) * Year * DUR!DayNs + n(t.mo) * Month * DUR!DayNs
                    + n(t.d) * DUR!DayNs + n(t.h) * DUR!HourNs + n(t.m) * DUR!MinuteNs
    BY <1>2 DEF Rest
  <1>5. n(t.s) * Second \in Nat /\ t.ns \in Nat
        /\ Exact(t.s, t.ns) = n(t.s) * Second + t.ns
    <2>1. Second \in Nat /\ t.ns \in Nat
      BY <1>1, Units
    <2>2. n(t.s) \in Nat
      BY <1>1 DEF DUR!Part
    <2>3. CASE t.s = None
      BY <2>1, <2>3 DEF Exact
    <2>4. CASE t.s # None
      BY <2>1, <2>2, <2>4, Product DEF Exact
    <2>. QED BY <2>3, <2>4
  <1> DEFINE x == n(t.s) * Second
  <1> HIDE DEF x
  <1>6. DUR!Denoted(t) = IF t.negative THEN -(Rest(t) + x + t.ns) ELSE Rest(t) + x + t.ns
    BY <1>4 DEF DUR!Denoted, x
  <1>7. x \in Nat /\ t.ns \in Nat /\ Exact(t.s, t.ns) = x + t.ns
    BY <1>5 DEF x
  <1>8. Rest(t) + x + t.ns = Rest(t) + Exact(t.s, t.ns)
    BY <1>3, <1>7
  <1>. QED BY <1>6, <1>8

\* UnmarshalText: an error, or durations that are as near to what the text denotes as a
\* float64 of the seconds allows, but for a multiple of 2^Width.
LEMMA UnmarshalNear ==
    ASSUME NEW t \in DUR!Text, NEW c \in DUR!UnmarshalText(t), c # Error
    PROVE  /\ Fits(t) /\ c \in DUR!Duration
           /\ DUR!Denoted(t) \in (DUR!MinInt + DUR!Loss(t))..(DUR!MaxInt - DUR!Loss(t)) =>
                c - DUR!Denoted(t) \in -DUR!Loss(t)..DUR!Loss(t)
           /\ DUR!SecondsOf(t) + DUR!Loss(t) <= DUR!MaxInt =>
                (c - DUR!Denoted(t) + DUR!Loss(t)) % 2^Width <= 2 * DUR!Loss(t)
  <1>1. Fits(t) /\ Rest(t) \in Nat
    BY UnmarshalSum
  <1>2. PICK x \in DUR!Seconds(t.s, t.ns) :
           c = DUR!Wrap(IF t.negative THEN -(Rest(t) + x) ELSE Rest(t) + x)
    BY <1>1, UnmarshalSum
  <1>3. /\ t.s \in DUR!Part /\ t.ns \in 0..(Second - 1) /\ t.negative \in BOOLEAN
        /\ t.s = None => t.ns = 0
    BY DEF DUR!Text
  <1> DEFINE e == Exact(t.s, t.ns)
             k == e \div Precise
             r == Rest(t)
             neg == t.negative
  <1>4. /\ e \in Nat /\ k \in Nat /\ x \in Int
        /\ e + k <= DUR!MaxInt => x \in (e - k - 1)..(e + k)
    BY <1>3, SecondsNear
  <1>5. DUR!Denoted(t) = IF neg THEN -(r + e) ELSE r + e
    BY <1>1, DenotedSum
  <1>6. DUR!SecondsOf(t) = e /\ DUR!Loss(t) = k + 1
    BY DEF DUR!SecondsOf, DUR!Loss, Exact
  <1> HIDE DEF e, k, r, neg
  <1>7. r \in Nat /\ neg \in BOOLEAN /\ c = DUR!Wrap(IF neg THEN -(r + x) ELSE r + x)
    BY <1>1, <1>2, <1>3 DEF r, neg
  <1>8. c \in DUR!Duration
    <2>1. (IF neg THEN -(r + x) ELSE r + x) \in Int
      BY <1>4, <1>7
    <2>. QED BY <1>7, <2>1, Wraps
  <1>9. LET y == IF neg THEN -(r + x) ELSE r + x
            d == IF neg THEN -(r + e) ELSE r + e
        IN  /\ d \in (DUR!MinInt + (k + 1))..(DUR!MaxInt - (k + 1)) =>
                  DUR!Wrap(y) - d \in -(k + 1)..(k + 1)
            /\ e + (k + 1) <= DUR!MaxInt =>
                  (DUR!Wrap(y) - d + (k + 1)) % 2^Width <= 2 * (k + 1)
    BY <1>4, <1>7, SumNear
  <1>. QED BY <1>1, <1>5, <1>6, <1>7, <1>8, <1>9, Zenon

\* Such a sum, of which few nanoseconds are seconds, and that is neither zero nor of the
\* size of the least duration, is neither afterwards, and off by one at most.
LEMMA SumWithText ==
    ASSUME NEW r \in Nat, NEW e \in Nat, NEW x \in Int, NEW neg \in BOOLEAN,
           x = e \/ (x = e - 1 /\ x >= 1),
           r + e \in 1..DUR!MaxInt
    PROVE  LET c == DUR!Wrap(IF neg THEN -(r + x) ELSE r + x)
           IN  /\ c \in DUR!Duration \ {0, DUR!MinInt}
               /\ c - (IF neg THEN -(r + e) ELSE r + e) \in -1..1
  <1> DEFINE lo == DUR!MinInt
             hi == DUR!MaxInt
  <1>1. hi \in Nat /\ lo = -hi - 1 /\ DUR!Duration = lo..hi
    BY Range DEF DUR!Duration
  <1> HIDE DEF lo, hi
  <1>2. r + x \in 1..hi
    BY <1>1 DEF hi
  <1>3. (IF neg THEN -(r + x) ELSE r + x) \in (lo..hi) \ {0, lo}
    BY <1>1, <1>2
  <1>4. DUR!Wrap(IF neg THEN -(r + x) ELSE r + x) = (IF neg THEN -(r + x) ELSE r + x)
    BY <1>1, <1>3, Wraps
  <1>5. (IF neg THEN -(r + x) ELSE r + x) - (IF neg THEN -(r + e) ELSE r + e) \in -1..1
    OBVIOUS
  <1>. QED BY <1>1, <1>3, <1>4, <1>5 DEF lo, hi

\* What MarshalText writes: a text that fits, and denotes the duration.
LEMMA MarshalDenotes ==
    ASSUME NEW d \in DUR!Duration \ {0, DUR!MinInt}
    PROVE  LET t == DUR!MarshalText(d) IN
           /\ t \in DUR!Text /\ Fits(t) /\ DUR!Denoted(t) = d
           /\ Rest(t) + Exact(t.s, t.ns) \in 1..DUR!MaxInt
           /\ Exact(t.s, t.ns) < Precise
  <1> DEFINE lo == DUR!MinInt
             hi == DUR!MaxInt
             a == IF d < 0 THEN DUR!Wrap(-d) ELSE d
             h == a \div DUR!HourNs
             m == (a % DUR!HourNs) \div DUR!MinuteNs
             s == (a % DUR!MinuteNs) \div Second
             ns == a % Second
             t == DUR!MarshalText(d)
             hp == IF h > 0 THEN h ELSE None
             mp == IF m > 0 THEN m ELSE None
             sp == IF s > 0 \/ ns > 0 THEN s ELSE None
  <1>1. hi \in Nat /\ lo = -hi - 1 /\ DUR!Duration = lo..hi
    BY Range DEF DUR!Duration
  <1>2. d \in Int /\ a \in 1..hi /\ d = (IF d < 0 THEN -a ELSE a)
    <2>1. d \in Int /\ (d < 0 => -d \in 1..hi /\ -d \in DUR!Duration) /\ (~(d < 0) => d \in 1..hi)
      BY <1>1
    <2>2. d < 0 => DUR!Wrap(-d) = -d
      BY <2>1, Wraps
    <2>. QED BY <2>1, <2>2
  <1>3. t = [negative |-> d < 0, y |-> None, mo |-> None, d |-> None, time |-> TRUE,
             h |-> hp, m |-> mp, s |-> sp, ns |-> ns]
    <2>1. d # 0 /\ ~(a < 0)
      BY <1>1, <1>2
    <2>2. DUR!MarshalText(d) =
             [DUR!NoParts EXCEPT !.negative = d < 0, !.h = hp, !.m = mp, !.s = sp, !.ns = ns]
      BY <2>1 DEF DUR!MarshalText
    <2>. QED BY <2>2 DEF DUR!NoParts
  <1>4. /\ h \in Nat /\ h <= a /\ m \in Nat /\ m <= a /\ s \in Nat
        /\ ns \in 0..(Second - 1) /\ s <= a
        /\ a = h * DUR!HourNs + m * DUR!MinuteNs + s * Second + ns
        /\ s * Second + ns < DUR!MinuteNs
    <2> HIDE DEF a
    <2>1. /\ Second \in Nat \ {0} /\ Minute \in Nat \ {0} /\ Hour \in Nat \ {0}
          /\ DUR!MinuteNs \in Nat \ {0} /\ DUR!HourNs \in Nat \ {0} /\ a \in Nat
      BY <1>2, DurationAssumption, Units
    <2>2. DUR!MinuteNs = Minute * Second /\ DUR!HourNs = Hour * (Minute * Second)
      BY DEF DUR!MinuteNs, DUR!HourNs
    <2>3. a = h * DUR!HourNs + m * DUR!MinuteNs + s * Second + ns
      <3>1. a = (a \div (Hour * (Minute * Second))) * (Hour * (Minute * Second))
                  + ((a % (Hour * (Minute * Second))) \div (Minute * Second)) * (Minute * Second)
                  + ((a % (Minute * Second)) \div Second) * Second + (a % Second)
        BY <2>1, InUnits
      <3>. QED BY <2>2, <3>1, Zenon
    <2>4. a % DUR!HourNs \in Nat /\ a % DUR!MinuteNs \in Nat /\ ns \in 0..(Second - 1)
      BY <2>1, Divided
    <2>5. h \in Nat /\ h <= a /\ s \in Nat /\ m \in Nat /\ m <= a % DUR!HourNs
      BY <2>1, <2>4, QuotientBelow
    <2>6. a % DUR!HourNs <= a
      <3>1. a = h * DUR!HourNs + (a % DUR!HourNs) /\ h * DUR!HourNs \in Nat
        BY <2>1, <2>5, Divided, Product
      <3> DEFINE x == h * DUR!HourNs
                 y == a % DUR!HourNs
      <3> HIDE DEF x, y
      <3>2. a = x + y /\ x \in Nat /\ y \in Nat
        BY <2>4, <3>1 DEF x, y
      <3>. QED BY <2>1, <3>2 DEF y
    <2> HIDE DEF m
    <2>7. m <= a
      <3> DEFINE y == a % DUR!HourNs
      <3> HIDE DEF y
      <3>1. y \in Nat /\ m <= y /\ y <= a
        BY <2>4, <2>5, <2>6 DEF y
      <3>. QED BY <2>1, <2>5, <3>1
    <2>8. s * Second + ns = a % DUR!MinuteNs
      <3> DEFINE y == a % DUR!MinuteNs
      <3>0. y \in Nat
        BY <2>4
      <3>1. y % Second = ns
        BY <2>1, <2>2, RestOfRest
      <3> HIDE DEF y
      <3>2. y = (y \div Second) * Second + (y % Second)
        BY <2>1, <3>0, Divided
      <3>. QED BY <3>1, <3>2 DEF y
    <2>9. a % DUR!MinuteNs < DUR!MinuteNs /\ a % DUR!MinuteNs <= a
      <3> DEFINE n == DUR!MinuteNs
                 q == a \div n
                 y == a % n
      <3> HIDE DEF n
      <3>1. n \in Nat \ {0}
        BY <2>1 DEF n
      <3>2. q \in Nat /\ y \in 0..(n - 1) /\ a = q * n + y
        <4>1. q \in Nat
          BY <2>1, <3>1, QuotientBelow
        <4>2. y \in 0..(n - 1) /\ a = q * n + y
          BY <2>1, <3>1, Divided
        <4>. QED BY <4>1, <4>2
      <3>3. q * n \in Nat
        BY <3>1, <3>2, Product
      <3> DEFINE p == q * n
      <3> HIDE DEF p, q, y
      <3>4. p \in Nat /\ y \in 0..(n - 1) /\ a = p + y
        BY <3>2, <3>3 DEF p
      <3>5. y < n /\ y <= a
        BY <2>1, <3>1, <3>4
      <3>. QED BY <3>5 DEF y, n
    <2>10. s <= a
      <3> DEFINE y == a % DUR!MinuteNs
      <3>1. s <= y
        BY <2>1, <2>4, QuotientBelow
      <3> HIDE DEF y, s
      <3>. QED BY <2>1, <2>4, <2>5, <2>9, <3>1 DEF y
    <2>11. s * Second + ns < DUR!MinuteNs
      BY <2>8, <2>9
    <2>. QED BY <2>3, <2>4, <2>5, <2>7, <2>10, <2>11
  <1> HIDE DEF a, h, m, s, ns, t, lo, hi
  <1>5. /\ h * DUR!HourNs \in Nat /\ m * DUR!MinuteNs \in Nat /\ s * Second \in Nat
        /\ (h > 0 => h <= hi) /\ (m > 0 => m <= hi)
    BY <1>1, <1>2, <1>4, Units, Product
  <1>6. /\ hp \in DUR!Part /\ mp \in DUR!Part /\ sp \in DUR!Part /\ None \in DUR!Part
        /\ sp = None => ns = 0
    BY <1>4, Special, Units DEF DUR!Part
  <1>7. t \in DUR!Text
    BY <1>3, <1>4, <1>6, Units DEF DUR!Text
  <1>8. \E p \in {hp, mp, sp} : p # None
    <2> SUFFICES ASSUME hp = None, mp = None, sp = None PROVE FALSE
      OBVIOUS
    <2>1. h = 0 /\ m = 0 /\ s = 0 /\ ns = 0
      BY <1>4, Special, Units
    <2>. QED BY <1>2, <1>4, <2>1, Units
  <1>9. DUR!Matches(t)
    <2>1. /\ t.y = None /\ t.mo = None /\ t.d = None /\ t.time = TRUE
          /\ t.h = hp /\ t.m = mp /\ t.s = sp
      BY <1>3
    <2>2. {t.h, t.m, t.s} # {None} /\ ({t.y, t.mo, t.d} \cup {t.h, t.m, t.s}) # {None}
      BY <1>8, <2>1
    <2>. QED BY <2>1, <2>2, Zenon DEF DUR!Matches
  <1>10. /\ DUR!Atoi(None) = 0 /\ DUR!Atoi(None) # Error
         /\ DUR!Atoi(hp) = h /\ DUR!Atoi(hp) # Error
         /\ DUR!Atoi(mp) = m /\ DUR!Atoi(mp) # Error
    BY <1>4, <1>5, <1>6, PartFits, Special DEF hi
  <1>11. Fits(t)
    <2>1. DUR!ParseFloat(sp) # Error
      <3>1. s <= hi /\ hi < MaxFloat /\ MaxFloat \in Nat
        <4>1. hi < MaxFloat /\ MaxFloat \in Nat
          BY DurationAssumption DEF hi, DUR!MaxInt
        <4>. QED BY <1>1, <1>2, <1>4, <4>1
      <3>2. ~(s > MaxFloat)
        BY <1>1, <1>4, <3>1
      <3>3. CASE sp = None
        BY <3>3, Special DEF DUR!ParseFloat
      <3>4. CASE sp # None
        <4>1. sp = s /\ s # Error
          BY <1>4, <3>4, Special
        <4>. QED BY <3>2, <3>4, <4>1 DEF DUR!ParseFloat
      <3>. QED BY <3>3, <3>4
    <2>. QED BY <1>3, <1>9, <1>10, <2>1 DEF Fits
  <1>12. Rest(t) = h * DUR!HourNs + m * DUR!MinuteNs
    <2>1. 0 * Year * DUR!DayNs = 0 /\ 0 * Month * DUR!DayNs = 0 /\ 0 * DUR!DayNs = 0
      BY Units
    <2>2. Rest(t) = 0 * Year * DUR!DayNs + 0 * Month * DUR!DayNs + 0 * DUR!DayNs
                      + h * DUR!HourNs + m * DUR!MinuteNs
      BY <1>3, <1>10 DEF Rest
    <2>. QED BY <1>5, <2>1, <2>2
  <1>13. Exact(t.s, t.ns) = s * Second + ns
    <2>1. CASE sp = None
      <3>1. s = 0 /\ ns = 0 /\ 0 * Second = 0
        BY <1>4, <2>1, Special, Units
      <3>. QED BY <1>3, <2>1, <3>1 DEF Exact
    <2>2. CASE sp # None
      BY <1>3, <2>2 DEF Exact
    <2>. QED BY <2>1, <2>2
  <1>14. Rest(t) + Exact(t.s, t.ns) = a
    <2> DEFINE x == h * DUR!HourNs
               y == m * DUR!MinuteNs
               z == s * Second
    <2> HIDE DEF x, y, z
    <2>1. x \in Nat /\ y \in Nat /\ z \in Nat /\ ns \in Nat /\ a = x + y + z + ns
      BY <1>4, <1>5, Units DEF x, y, z
    <2>2. Rest(t) = x + y /\ Exact(t.s, t.ns) = z + ns
      BY <1>12, <1>13 DEF x, y, z
    <2>. QED BY <2>1, <2>2
  <1>15. DUR!Denoted(t) = IF d < 0 THEN -a ELSE a
    BY <1>3, <1>7, <1>11, <1>14, DenotedSum
  <1>16. Exact(t.s, t.ns) < Precise
    <2>1. DUR!MinuteNs <= Precise /\ Precise \in Nat /\ DUR!MinuteNs \in Nat
      BY DurationAssumption, Units DEF DUR!MinuteNs
    <2> DEFINE z == s * Second
    <2> HIDE DEF z
    <2>2. z \in Nat /\ ns \in Nat /\ z + ns < DUR!MinuteNs /\ Exact(t.s, t.ns) = z + ns
      BY <1>4, <1>5, <1>13, Units DEF z
    <2>. QED BY <2>1, <2>2
  <1>. QED BY <1>2, <1>7, <1>11, <1>14, <1>15, <1>16 DEF t, hi

\* A duration with a text that is neither zero nor the least comes back, but for a
\* nanosecond, and still is neither.
LEMMA RoundTrip ==
    ASSUME NEW d \in DUR!Duration \ {0, DUR!MinInt},
           NEW c \in DUR!UnmarshalText(DUR!MarshalText(d))
    PROVE  /\ c # Error /\ c \in DUR!Duration \ {0, DUR!MinInt}
           /\ c - d \in -1..1
  <1> DEFINE t == DUR!MarshalText(d)
  <1>1. /\ t \in DUR!Text /\ Fits(t) /\ DUR!Denoted(t) = d
        /\ Rest(t) + Exact(t.s, t.ns) \in 1..DUR!MaxInt
        /\ Exact(t.s, t.ns) < Precise
    BY MarshalDenotes
  <1> HIDE DEF t
  <1>2. c \in DUR!UnmarshalText(t)
    BY DEF t
  <1>3. PICK x \in DUR!Seconds(t.s, t.ns) :
           c = DUR!Wrap(IF t.negative THEN -(Rest(t) + x) ELSE Rest(t) + x)
    BY <1>1, <1>2, UnmarshalSum
  <1>4. /\ t.s \in DUR!Part /\ t.ns \in 0..(Second - 1) /\ t.negative \in BOOLEAN
        /\ t.s = None => t.ns = 0
    BY <1>1 DEF DUR!Text
  <1> DEFINE e == Exact(t.s, t.ns)
             r == Rest(t)
             neg == t.negative
  <1>5. /\ e \in Nat /\ x \in Int /\ r \in Nat
        /\ e < Precise /\ e <= DUR!MaxInt => x = e \/ (x = e - 1 /\ x >= 1)
    BY <1>1, <1>4, SecondsNear, UnmarshalSum
  <1>6. r + e \in 1..DUR!MaxInt /\ neg \in BOOLEAN /\ e < Precise
        /\ c = DUR!Wrap(IF neg THEN -(r + x) ELSE r + x)
        /\ d = IF neg THEN -(r + e) ELSE r + e
    BY <1>1, <1>3, <1>4, DenotedSum
  <1> HIDE DEF e, r, neg
  <1>7. x = e \/ (x = e - 1 /\ x >= 1)
    BY <1>5, <1>6, Range
  <1>8. c \in DUR!Duration \ {0, DUR!MinInt} /\ c - d \in -1..1
    BY <1>5, <1>6, <1>7, SumWithText
  <1>9. c # Error
    BY <1>8, Range, Special DEF DUR!Duration
  <1>. QED BY <1>8, <1>9

-----------------------------------------------------------------------------
\* Times.

\* Rounding moves a time by half a unit at most, and once.
LEMMA RoundNear ==
    ASSUME NEW t \in Int
    PROVE  /\ DUR!Round(t) \in Int /\ DUR!Round(DUR!Round(t)) = DUR!Round(t)
           /\ 2 * DUR!Round(t) \in (2 * t - Millisecond)..(2 * t + Millisecond)
  <1> DEFINE n == Millisecond
             half == n \div 2
             q == (t + half) \div n
             r == (t + half) % n
             u == q * n
  <1>1. n \in Nat \ {0} /\ half \in 0..(n - 1) /\ 2 * half \in {n, n - 1}
    <2>1. n \in Nat \ {0}
      BY DurationAssumption
    <2> HIDE DEF n
    <2>2. half \in 0..(n - 1) /\ 2 * half \in {n, n - 1}
      BY <2>1
    <2>. QED BY <2>1, <2>2
  <1>2. DUR!Round(t) = u
    BY DEF DUR!Round
  <1> HIDE DEF n, half
  <1>3. q \in Int /\ r \in 0..(n - 1) /\ t + half = u + r /\ u \in Int
    <2>1. t + half \in Int
      BY <1>1
    <2>2. q \in Int /\ r \in 0..(n - 1) /\ t + half = q * n + r
      BY <1>1, <2>1, Divided
    <2>3. q * n \in Int
      BY <1>1, <2>2, Laws
    <2>. QED BY <2>2, <2>3
  <1>4. (u + half) \div n = q
    BY <1>1, <1>3, DividedOnce
  <1>5. DUR!Round(u) = ((u + half) \div n) * n
    BY Zenon DEF DUR!Round, n, half
  <1>6. DUR!Round(u) = u
    BY <1>4, <1>5
  <1> HIDE DEF q, r, u
  <1>7. 2 * u \in (2 * t - n)..(2 * t + n)
    BY <1>1, <1>3
  <1>. QED BY <1>2, <1>3, <1>6, <1>7 DEF n

-----------------------------------------------------------------------------
\* Metadata.

Metadata == DUR!Entity \cup DUR!Group

\* m is what o has become after k times.
Near(m, o, k) ==
    /\ m \in Metadata /\ m.group = o.group /\ m.role = o.role
    /\ IF o.until = None THEN m.until = None ELSE m.until \in {o.until, DUR!Round(o.until)}
    /\ DUR!HasText(o) =>
          /\ DUR!HasText(m)
          /\ IF o.cache = None THEN m.cache = None
             ELSE m.cache # None /\ m.cache - o.cache \in -k..k

\* The metadata that is held is near to what it was, and so is that which a file was
\* written from; an error is due to metadata without a text.
DocumentInv ==
    /\ rounds \in Nat
    /\ held \in Metadata \cup {None, Error} /\ origin \in Metadata \cup {None, Error}
    /\ file \in DUR!XmlFile \cup DUR!JsonFile \cup {None}
    /\ held # None => file = None
    /\ NoDocument => origin = None
    /\ origin \in {None, Error} => held = origin
    /\ origin \in Metadata =>
          /\ held = Error => ~DUR!HasText(origin)
          /\ held \in Metadata => Near(held, origin, rounds)
          /\ file \in DUR!XmlFile =>
                /\ rounds >= 1
                /\ \E m \in Metadata : Near(m, origin, rounds - 1) /\ file = DUR!MarshalXML(m)
          /\ file \in DUR!JsonFile =>
                \E m \in DUR!Entity : Near(m, origin, rounds) /\ file = DUR!MarshalJSON(m)

\* Metadata and files are none of the special values, and of one kind.
LEMMA Kinds ==
    /\ \A x \in {None, Error, Empty} :
          x \notin Metadata /\ x \notin DUR!XmlFile /\ x \notin DUR!JsonFile
    /\ \A f \in DUR!XmlFile : f.format = "xml" /\ f \notin DUR!JsonFile
    /\ \A f \in DUR!JsonFile : f.format = "json" /\ f \notin DUR!XmlFile
    /\ \A m \in Metadata :
          /\ m.group \in BOOLEAN /\ m.role \in DUR!Role
          /\ m.group => m \in DUR!Group
          /\ ~m.group => m \in DUR!Entity
          /\ m.until \in Int \cup {None} /\ (~m.group => m.until \in Int)
          /\ m.cache \in DUR!Duration \cup {None} /\ (~m.group => m.cache \in DUR!Duration)
  <1>1. \A x \in {None, Error, Empty} :
           x \notin Metadata /\ x \notin DUR!XmlFile /\ x \notin DUR!JsonFile
    BY DocumentAssumption DEF Metadata
  <1>2. /\ \A f \in DUR!XmlFile : f.format = "xml"
        /\ \A f \in DUR!JsonFile : f.format = "json"
    BY DEF DUR!XmlFile, DUR!JsonFile
  <1>3. /\ \A f \in DUR!XmlFile : f \notin DUR!JsonFile
        /\ \A f \in DUR!JsonFile : f \notin DUR!XmlFile
    BY <1>2
  <1>4. \A m \in Metadata :
          /\ m.group \in BOOLEAN /\ m.role \in DUR!Role
          /\ m.group => m \in DUR!Group
          /\ ~m.group => m \in DUR!Entity
          /\ m.until \in Int \cup {None} /\ (~m.group => m.until \in Int)
          /\ m.cache \in DUR!Duration \cup {None} /\ (~m.group => m.cache \in DUR!Duration)
    BY DEF Metadata, DUR!Entity, DUR!Group
  <1>. QED BY <1>1, <1>2, <1>3, <1>4

\* Metadata is near to itself.
LEMMA NearItself ==
    ASSUME NEW m \in Metadata, NEW k \in Nat PROVE Near(m, m, k)
  <1>1. m.cache \in DUR!Duration \cup {None}
    BY Kinds
  <1>2. m.cache # None => m.cache - m.cache \in -k..k
    BY <1>1, Range DEF DUR!Duration
  <1>. QED BY <1>2 DEF Near

\* The least duration has no text: none of its parts is written.
LEMMA LeastWritten ==
    DUR!MarshalText(DUR!MinInt) = [DUR!NoParts EXCEPT !.negative = TRUE]
  <1> DEFINE lo == DUR!MinInt
             hi == DUR!MaxInt
             w == 2^Width
  <1>1. hi \in Nat /\ lo = -hi - 1 /\ w = hi - lo + 1
    BY Range
  <1> HIDE DEF lo, hi, w
  <1>2. \A y \in Int : DUR!Wrap(y) = ((y - lo) % w) + lo
    BY DEF DUR!Wrap, w, lo
  <1>3. (1 * w + 0) % w = 0
    BY <1>1, DividedOnce
  <1> DEFINE top == -lo
  <1>4. top \in Int /\ top - lo = 1 * w + 0
    BY <1>1
  <1>5. (top - lo) % w = 0
    BY <1>3, <1>4
  <1> HIDE DEF top
  <1>6. DUR!Wrap(top) = lo
    BY <1>1, <1>2, <1>4, <1>5
  <1>7. lo < 0 /\ lo # 0 /\ DUR!Wrap(-lo) = lo
    BY <1>1, <1>6 DEF top
  <1>8. DUR!MarshalText(lo) = [DUR!NoParts EXCEPT !.negative = TRUE]
    BY <1>7 DEF DUR!MarshalText
  <1>. QED BY <1>8 DEF lo

\* A text that fits can be read, and one that was read is a text of an XSDDuration.
LEMMA RoleRead ==
    ASSUME NEW t \in DUR!Text
    PROVE  /\ Fits(t) => t \in DUR!Role
           /\ DUR!XsdUnmarshalText(t) \in {t, Error}
           /\ DUR!XsdUnmarshalText(t) = t => t \in DUR!Role
           /\ t \in DUR!Role => DUR!XsdUnmarshalText(t) = t
  <1>1. t # None /\ t # Error
    BY Special
  <1>2. Fits(t) => DUR!UnmarshalText(t) # {Error}
    <2> SUFFICES ASSUME Fits(t), DUR!UnmarshalText(t) = {Error} PROVE FALSE
      OBVIOUS
    <2>1. /\ t.s \in DUR!Part /\ t.ns \in 0..(Second - 1) /\ (t.s = None => t.ns = 0)
      BY DEF DUR!Text
    <2>2. PICK x \in DUR!Seconds(t.s, t.ns) : x \in Int
      BY <2>1, SecondsNear
    <2>3. (IF t.negative THEN -(Rest(t) + x) ELSE Rest(t) + x) \in Int
      BY <2>2, UnmarshalSum
    <2>4. DUR!Wrap(IF t.negative THEN -(Rest(t) + x) ELSE Rest(t) + x) \in DUR!Duration
      BY <2>3, Wraps
    <2>5. DUR!Wrap(IF t.negative THEN -(Rest(t) + x) ELSE Rest(t) + x) = Error
      BY <2>2, UnmarshalSum
    <2>. QED BY <2>4, <2>5, Special, Range DEF DUR!Duration
  <1>3. t \in DUR!Role <=> DUR!UnmarshalText(t) # {Error}
    BY <1>1 DEF DUR!Role
  <1>. QED BY <1>1, <1>2, <1>3 DEF DUR!XsdUnmarshalText

\* The role of metadata: its text is read as it was written, in XML and in JSON.
LEMMA RoleKept ==
    ASSUME NEW r \in DUR!Role
    PROVE  /\ (IF r = None THEN None ELSE DUR!XsdUnmarshalText(r)) = r
           /\ DUR!XsdUnmarshalJSON([text |-> r]) = r
           /\ r # Error /\ r \in DUR!Text \cup {None}
  <1>1. r \in DUR!Text \cup {None}
    BY DEF DUR!Role
  <1>2. r # Error
    BY <1>1, Special
  <1>3. r # None => DUR!XsdUnmarshalText(r) = r
    BY <1>1, RoleRead
  <1>4. DUR!XsdUnmarshalJSON([text |-> r]) = r
    <2>1. ~("number" \in DOMAIN [text |-> r])
      OBVIOUS
    <2>2. CASE r = None
      BY <2>1, <2>2 DEF DUR!XsdUnmarshalJSON
    <2>3. CASE r # None
      <3>1. [text |-> r] # [text |-> None] /\ [text |-> r].text = r
        BY <2>3
      <3>. QED BY <1>3, <2>1, <2>3, <3>1 DEF DUR!XsdUnmarshalJSON
    <2>. QED BY <2>2, <2>3
  <1>. QED BY <1>1, <1>2, <1>3, <1>4

\* What UnmarshalXML makes of the attributes of a file.
Missing(f) == IF f.group THEN None ELSE 0
CachesOf(f) ==
    IF f.cache = Empty THEN {Error}
    ELSE IF f.cache = None THEN {Missing(f)} ELSE DUR!UnmarshalText(f.cache)
RoleOf(f) == IF f.role = None THEN None ELSE DUR!XsdUnmarshalText(f.role)
UntilOf(f) == IF f.until = None THEN Missing(f) ELSE DUR!UnmarshalTime(f.until)

\* UnmarshalXML in these terms.
LEMMA XmlRead ==
    ASSUME NEW f, NEW x \in DUR!UnmarshalXML(f)
    PROVE  \E c \in CachesOf(f) :
              x = IF Error \in {c, RoleOf(f)} THEN Error
                  ELSE [group |-> f.group, until |-> UntilOf(f), cache |-> c, role |-> RoleOf(f)]
  <1>1. CASE f.cache = Empty
    BY <1>1, Special DEF DUR!UnmarshalXML, CachesOf, RoleOf, UntilOf, Missing
  <1>2. CASE f.cache # Empty /\ f.cache = None
    BY <1>2 DEF DUR!UnmarshalXML, CachesOf, RoleOf, UntilOf, Missing
  <1>3. CASE f.cache # Empty /\ f.cache # None
    BY <1>3 DEF DUR!UnmarshalXML, CachesOf, RoleOf, UntilOf, Missing
  <1>. QED BY <1>1, <1>2, <1>3

\* What can be read of a file is metadata.
LEMMA XmlRecord ==
    ASSUME NEW f \in DUR!XmlFile, NEW c \in CachesOf(f), c # Error, RoleOf(f) # Error
    PROVE  [group |-> f.group, until |-> UntilOf(f), cache |-> c, role |-> RoleOf(f)]
              \in Metadata
  <1>2. /\ f.group \in BOOLEAN /\ f.role \in DUR!Text \cup {None}
        /\ f.cache \in DUR!Text \cup {Empty, None}
        /\ f.until \in [wall : Int, zone : Int \cup {None}] \cup {None}
    BY DEF DUR!XmlFile
  <1>3. c \in DUR!Duration \/ (f.group /\ c = None)
    <2>1. 0 \in DUR!Duration
      BY Range DEF DUR!Duration
    <2>2. CASE f.cache \in {Empty, None}
      BY <1>2, <2>1, <2>2 DEF CachesOf, Missing
    <2>3. CASE f.cache \notin {Empty, None}
      <3>1. f.cache \in DUR!Text /\ c \in DUR!UnmarshalText(f.cache)
        BY <1>2, <2>3 DEF CachesOf
      <3>. QED BY <3>1, UnmarshalNear
    <2>. QED BY <2>2, <2>3
  <1>4. RoleOf(f) \in DUR!Role
    <2>1. CASE f.role = None
      BY <2>1 DEF RoleOf, DUR!Role
    <2>2. CASE f.role # None
      <3>1. f.role \in DUR!Text /\ RoleOf(f) = DUR!XsdUnmarshalText(f.role)
        BY <1>2, <2>2 DEF RoleOf
      <3>. QED BY <3>1, RoleRead
    <2>. QED BY <2>1, <2>2
  <1>5. UntilOf(f) \in Int \/ (f.group /\ UntilOf(f) = None)
    <2>1. CASE f.until = None
      BY <1>2, <2>1 DEF UntilOf, Missing
    <2>2. CASE f.until # None
      <3>1. f.until.wall - (IF f.until.zone = None THEN 0 ELSE f.until.zone) \in Int
        BY <1>2, <2>2
      <3>2. UntilOf(f) = DUR!Round(f.until.wall
                                    - (IF f.until.zone = None THEN 0 ELSE f.until.zone))
        BY <2>2 DEF UntilOf, DUR!UnmarshalTime
      <3>. QED BY <3>1, <3>2, RoundNear
    <2>. QED BY <2>1, <2>2
  <1>6. CASE f.group
    BY <1>3, <1>4, <1>5, <1>6 DEF Metadata, DUR!Group
  <1>7. CASE ~f.group
    BY <1>2, <1>3, <1>4, <1>5, <1>7 DEF Metadata, DUR!Entity
  <1>. QED BY <1>6, <1>7

\* What is read from a file is metadata, or an error.
LEMMA XmlReadType ==
    ASSUME NEW f \in DUR!XmlFile, NEW x \in DUR!UnmarshalXML(f)
    PROVE  x \in Metadata \cup {Error}
  BY XmlRead, XmlRecord

\* What is written is a file.
LEMMA XmlWritten ==
    ASSUME NEW m \in Metadata
    PROVE  /\ DUR!MarshalXML(m) \in DUR!XmlFile
           /\ DUR!MarshalXML(m).cache =
                IF m.cache = None THEN None
                ELSE IF m.cache = 0 THEN (IF m.group THEN Empty ELSE None)
                ELSE DUR!MarshalText(m.cache)
           /\ m.cache \notin {None, 0} => DUR!MarshalText(m.cache) \in DUR!Text
  <1> DEFINE cache == IF m.cache = None THEN None
                      ELSE IF m.cache = 0 THEN (IF m.group THEN Empty ELSE None)
                      ELSE DUR!MarshalText(m.cache)
             until == IF m.until = None THEN None ELSE DUR!MarshalTime(m.until)
  <1>1. /\ m.group \in BOOLEAN /\ m.role \in DUR!Role /\ m.until \in Int \cup {None}
        /\ m.cache \in DUR!Duration \cup {None}
    BY Kinds
  <1>2. m.role \in DUR!Text \cup {None}
    BY <1>1, RoleKept
  <1>3. m.cache \notin {None, 0} => DUR!MarshalText(m.cache) \in DUR!Text
    <2> SUFFICES ASSUME m.cache \notin {None, 0} PROVE DUR!MarshalText(m.cache) \in DUR!Text
      OBVIOUS
    <2>1. CASE m.cache = DUR!MinInt
      <3>1. 0 \in 0..(Second - 1)
        BY Units
      <3>. QED BY <2>1, <3>1, LeastWritten DEF DUR!NoParts, DUR!Text, DUR!Part
    <2>2. CASE m.cache # DUR!MinInt
      BY <1>1, <2>2, MarshalDenotes
    <2>. QED BY <2>1, <2>2
  <1>4. until \in [wall : Int, zone : Int \cup {None}] \cup {None}
    <2>1. m.until # None => DUR!Round(m.until) \in Int
      BY <1>1, RoundNear
    <2>. QED BY <2>1 DEF DUR!MarshalTime
  <1>5. DUR!MarshalXML(m) = [format |-> "xml", group |-> m.group, role |-> m.role,
                             until |-> until, cache |-> cache]
    <2>1. CASE m.cache = None
      BY <2>1, Special DEF DUR!MarshalXML
    <2>2. CASE m.cache # None /\ m.cache = 0
      BY <2>2 DEF DUR!MarshalXML
    <2>3. CASE m.cache # None /\ m.cache # 0
      BY <2>3 DEF DUR!MarshalXML
    <2>. QED BY <2>1, <2>2, <2>3
  <1>6. cache \in DUR!Text \cup {Empty, None}
    BY <1>3
  <1> HIDE DEF cache, until
  <1>7. DUR!MarshalXML(m) \in DUR!XmlFile
    BY <1>1, <1>2, <1>4, <1>5, <1>6 DEF DUR!XmlFile
  <1>. QED BY <1>3, <1>5, <1>7 DEF cache

\* The cacheDuration of metadata with a text, written and read.
LEMMA CacheRead ==
    ASSUME NEW m \in Metadata, NEW c \in CachesOf(DUR!MarshalXML(m)), DUR!HasText(m)
    PROVE  /\ c # Error
           /\ m.cache = None => c = None
           /\ m.cache # None => /\ c \in DUR!Duration \ {DUR!MinInt}
                                /\ m.group => c # 0
                                /\ c - m.cache \in -1..1
  <1> DEFINE f == DUR!MarshalXML(m)
  <1>1. /\ m.group \in BOOLEAN /\ m.cache \in DUR!Duration \cup {None}
        /\ ~m.group => m.cache \in DUR!Duration
    BY Kinds
  <1>2. f.group = m.group
    BY DEF DUR!MarshalXML
  <1>3. f.cache = IF m.cache = None THEN None
                  ELSE IF m.cache = 0 THEN (IF m.group THEN Empty ELSE None)
                  ELSE DUR!MarshalText(m.cache)
    BY XmlWritten
  <1>4. m.cache # DUR!MinInt /\ ~(m.group /\ m.cache = 0)
    BY DEF DUR!HasText
  <1> HIDE DEF f
  <1>5. c \in CachesOf(f)
    BY DEF f
  <1>6. CASE m.cache = None
    <2>1. m.group
      BY <1>1, <1>6, Special, Range DEF DUR!Duration
    <2>2. CachesOf(f) = {None}
      BY <1>2, <1>3, <1>6, <2>1, Special DEF CachesOf, Missing
    <2>. QED BY <1>5, <1>6, <2>2, Special
  <1>7. CASE m.cache # None /\ m.cache = 0
    <2>1. ~m.group
      BY <1>4, <1>7
    <2>2. CachesOf(f) = {0}
      BY <1>2, <1>3, <1>7, <2>1, Special DEF CachesOf, Missing
    <2>3. c = 0 /\ 0 \in DUR!Duration \ {DUR!MinInt} /\ c - m.cache \in -1..1
      BY <1>5, <1>7, <2>2, Range DEF DUR!Duration
    <2>. QED BY <1>7, <2>1, <2>3, Special
  <1>8. CASE m.cache # None /\ m.cache # 0
    <2>1. m.cache \in DUR!Duration \ {0, DUR!MinInt}
      BY <1>1, <1>4, <1>8
    <2>2. f.cache = DUR!MarshalText(m.cache) /\ f.cache \in DUR!Text
      BY <1>3, <1>8, XmlWritten
    <2>3. c \in DUR!UnmarshalText(DUR!MarshalText(m.cache))
      BY <1>5, <2>2, Special DEF CachesOf
    <2>4. c # Error /\ c \in DUR!Duration \ {0, DUR!MinInt} /\ c - m.cache \in -1..1
      BY <2>1, <2>3, RoundTrip
    <2>. QED BY <1>8, <2>4
  <1>. QED BY <1>6, <1>7, <1>8

\* Written as XML and read again, metadata is near to what it was, by a nanosecond more.
LEMMA XmlReadNear ==
    ASSUME NEW o \in Metadata, NEW k \in Nat, NEW m \in Metadata, Near(m, o, k),
           NEW x \in DUR!UnmarshalXML(DUR!MarshalXML(m))
    PROVE  /\ x = Error => ~DUR!HasText(o)
           /\ x \in Metadata => Near(x, o, k + 1)
  <1> DEFINE f == DUR!MarshalXML(m)
  <1>1. PICK c \in CachesOf(f) :
           x = IF Error \in {c, RoleOf(f)} THEN Error
               ELSE [group |-> f.group, until |-> UntilOf(f), cache |-> c, role |-> RoleOf(f)]
    BY XmlRead
  <1>2. /\ f.group = m.group /\ f.role = m.role
        /\ f.until = IF m.until = None THEN None ELSE DUR!MarshalTime(m.until)
    BY DEF DUR!MarshalXML
  <1>3. /\ m.group \in BOOLEAN /\ m.role \in DUR!Role /\ m.until \in Int \cup {None}
        /\ (~m.group => m.until \in Int)
        /\ m.cache \in DUR!Duration \cup {None}
        /\ o.until \in Int \cup {None} /\ o.cache \in DUR!Duration \cup {None}
    BY Kinds
  <1>4. DUR!HasText(m) =>
           /\ c # Error
           /\ m.cache = None => c = None
           /\ m.cache # None => /\ c \in DUR!Duration \ {DUR!MinInt}
                                /\ m.group => c # 0
                                /\ c - m.cache \in -1..1
    BY CacheRead
  <1> HIDE DEF f
  <1>5. RoleOf(f) = m.role /\ m.role # Error
    BY <1>2, <1>3, RoleKept DEF RoleOf
  <1>6. UntilOf(f) = IF m.until = None THEN None ELSE DUR!Round(m.until)
    <2>1. CASE m.until = None
      BY <1>2, <1>3, <2>1, Special DEF UntilOf, Missing
    <2>2. CASE m.until # None
      <3> DEFINE u == DUR!Round(m.until)
      <3>1. u \in Int /\ DUR!Round(u) = u
        BY <1>3, <2>2, RoundNear
      <3>2. f.until = [wall |-> u, zone |-> 0]
        BY <1>2, <2>2 DEF DUR!MarshalTime
      <3> HIDE DEF u
      <3>3. f.until \in [wall : Int, zone : Int \cup {None}]
        BY <3>1, <3>2
      <3>4. f.until # None /\ 0 # None
        BY <3>3, DocumentAssumption
      <3>5. UntilOf(f) = DUR!Round(u - 0)
        BY <3>2, <3>4 DEF UntilOf, DUR!UnmarshalTime
      <3>6. u - 0 = u
        BY <3>1
      <3>. QED BY <2>2, <3>1, <3>5, <3>6 DEF u
    <2>. QED BY <2>1, <2>2
  <1>7. ASSUME x = Error PROVE ~DUR!HasText(o)
    <2>1. x \notin Metadata
      BY <1>7, Kinds
    <2>2. c = Error
      <3>1. CASE c # Error
        <4>1. x = [group |-> f.group, until |-> UntilOf(f), cache |-> c, role |-> RoleOf(f)]
          BY <1>1, <1>5, <3>1
        <4>2. f \in DUR!XmlFile
          BY XmlWritten DEF f
        <4>. QED BY <1>5, <2>1, <3>1, <4>1, <4>2, XmlRecord
      <3>. QED BY <3>1
    <2>3. ~DUR!HasText(m)
      BY <1>4, <2>2
    <2>. QED BY <2>3 DEF Near
  <1>8. ASSUME x \in Metadata PROVE Near(x, o, k + 1)
    <2>1. x # Error
      BY <1>8, Kinds
    <2>2. /\ x.group = m.group /\ x.until = UntilOf(f) /\ x.cache = c /\ x.role = m.role
      BY <1>1, <1>2, <1>5, <2>1
    <2>3. IF o.until = None THEN x.until = None ELSE x.until \in {o.until, DUR!Round(o.until)}
      <3>1. CASE o.until = None
        BY <1>6, <2>2, <3>1 DEF Near
      <3>2. CASE o.until # None
        <4>1. m.until \in {o.until, DUR!Round(o.until)} /\ o.until \in Int
          BY <1>3, <3>2 DEF Near
        <4>2. m.until # None /\ DUR!Round(m.until) = DUR!Round(o.until)
          BY <4>1, RoundNear, Special
        <4>. QED BY <1>6, <2>2, <3>2, <4>2
      <3>. QED BY <3>1, <3>2
    <2>4. ASSUME DUR!HasText(o)
          PROVE  /\ DUR!HasText(x)
                 /\ IF o.cache = None THEN x.cache = None
                    ELSE x.cache # None /\ x.cache - o.cache \in -(k + 1)..(k + 1)
      <3>1. DUR!HasText(m)
        BY <2>4 DEF Near
      <3>2. CASE o.cache = None
        <4>1. m.cache = None
          BY <2>4, <3>2 DEF Near
        <4>2. x.cache = None
          BY <1>4, <2>2, <3>1, <4>1
        <4>3. DUR!HasText(x)
          BY <4>2, Special, Range DEF DUR!HasText
        <4>. QED BY <3>2, <4>2, <4>3
      <3>3. CASE o.cache # None
        <4>1. m.cache # None /\ m.cache - o.cache \in -k..k
          BY <2>4, <3>3 DEF Near
        <4>2. /\ c \in DUR!Duration /\ c # DUR!MinInt /\ (m.group => c # 0)
              /\ c - m.cache \in -1..1
          BY <1>4, <3>1, <4>1
        <4>3. c \in Int /\ m.cache \in Int /\ o.cache \in Int
          BY <1>3, <3>3, <4>1, <4>2, Range DEF DUR!Duration
        <4>4. c - o.cache \in -(k + 1)..(k + 1)
          BY <4>1, <4>2, <4>3
        <4>5. c # None
          BY <4>3, Special
        <4>6. DUR!HasText(x)
          BY <2>2, <4>2 DEF DUR!HasText
        <4>. QED BY <2>2, <3>3, <4>4, <4>5, <4>6
      <3>. QED BY <3>2, <3>3
    <2>5. x.group = o.group /\ x.role = o.role
      BY <2>2 DEF Near
    <2>. QED BY <1>8, <2>3, <2>4, <2>5 DEF Near
  <1>. QED BY <1>7, <1>8

\* What is read from a file of the Store is metadata of an entity, or an error; what was
\* written there comes back.
LEMMA JsonRead ==
    /\ \A f \in DUR!JsonFile : \A x \in DUR!UnmarshalJSON(f) : x \in DUR!Entity \cup {Error}
    /\ \A m \in DUR!Entity : /\ DUR!MarshalJSON(m) \in DUR!JsonFile
                             /\ DUR!UnmarshalJSON(DUR!MarshalJSON(m)) = {m}
  <1>1. ASSUME NEW f \in DUR!JsonFile, NEW x \in DUR!UnmarshalJSON(f), x # Error
        PROVE  x \in DUR!Entity
    <2> DEFINE role == DUR!XsdUnmarshalJSON(f.role)
    <2>1. role # Error /\ x = [f.entity EXCEPT !.role = role]
      BY <1>1 DEF DUR!UnmarshalJSON
    <2>2. f.entity \in DUR!Entity
          /\ f.role \in [text : DUR!Text \cup {None}] \cup [number : DUR!Duration \ {DUR!MinInt}]
      BY DEF DUR!JsonFile
    <2>3. role \in DUR!Role
      <3>1. CASE f.role \in [number : DUR!Duration \ {DUR!MinInt}]
        <4>1. f.role.number \in DUR!Duration \ {DUR!MinInt} /\ "number" \in DOMAIN f.role
          BY <3>1
        <4>2. role = DUR!MarshalText(f.role.number)
          BY <4>1 DEF DUR!XsdUnmarshalJSON
        <4>3. CASE f.role.number = 0
          BY <4>2, <4>3 DEF DUR!MarshalText, DUR!Role
        <4>4. CASE f.role.number # 0
          <5>1. DUR!MarshalText(f.role.number) \in DUR!Text
                /\ Fits(DUR!MarshalText(f.role.number))
            BY <4>1, <4>4, MarshalDenotes
          <5>. QED BY <4>2, <5>1, RoleRead
        <4>. QED BY <4>3, <4>4
      <3>2. CASE f.role \in [text : DUR!Text \cup {None}]
        <4>1. PICK r \in DUR!Text \cup {None} : f.role = [text |-> r]
          BY <3>2
        <4>2. ~("number" \in DOMAIN f.role) /\ f.role.text = r
          BY <4>1
        <4>3. CASE r = None
          BY <4>1, <4>2, <4>3 DEF DUR!XsdUnmarshalJSON, DUR!Role
        <4>4. CASE r # None
          <5>1. f.role # [text |-> None]
            BY <4>1, <4>2, <4>4
          <5>2. role = DUR!XsdUnmarshalText(r)
            BY <4>2, <5>1 DEF DUR!XsdUnmarshalJSON
          <5>. QED BY <2>1, <4>1, <4>4, <5>2, RoleRead
        <4>. QED BY <4>3, <4>4
      <3>. QED BY <2>2, <3>1, <3>2
    <2> HIDE DEF role
    <2>. QED BY <2>1, <2>2, <2>3 DEF DUR!Entity
  <1>2. ASSUME NEW m \in DUR!Entity
        PROVE  /\ DUR!MarshalJSON(m) \in DUR!JsonFile
               /\ DUR!UnmarshalJSON(DUR!MarshalJSON(m)) = {m}
    <2>1. m.role \in DUR!Role
      BY DEF DUR!Entity
    <2>2. /\ DUR!XsdUnmarshalJSON([text |-> m.role]) = m.role
          /\ m.role # Error /\ m.role \in DUR!Text \cup {None}
      BY <2>1, RoleKept
    <2>3. DUR!MarshalJSON(m) = [format |-> "json", entity |-> m, role |-> [text |-> m.role]]
      BY DEF DUR!MarshalJSON
    <2>4. DUR!MarshalJSON(m) \in DUR!JsonFile
      BY <2>2, <2>3 DEF DUR!JsonFile
    <2>5. DUR!UnmarshalJSON(DUR!MarshalJSON(m)) = {[m EXCEPT !.role = m.role]}
      BY <2>2, <2>3 DEF DUR!UnmarshalJSON
    <2>6. [m EXCEPT !.role = m.role] = m
      BY DEF DUR!Entity
    <2>. QED BY <2>4, <2>5, <2>6
  <1>. QED BY <1>1, <1>2

-----------------------------------------------------------------------------
\* The steps.

\* Initially, what is held is as it was.
LEMMA DocumentStarts == FetchInit => DocumentInv
  <1> SUFFICES ASSUME FetchInit PROVE DocumentInv
    OBVIOUS
  <1>1. CASE NoDocument /\ origin = None /\ rounds = 0
    BY <1>1, Kinds, Special DEF NoDocument, DocumentInv
  <1>2. CASE DUR!Init
    <2>1. rounds = 0 /\ origin = held
      BY <1>2 DEF DUR!Init
    <2>2. CASE held \in Held /\ file = None
      <3>1. held \in Metadata
        BY <2>2, DocumentAssumption DEF Metadata
      <3>2. Near(held, origin, rounds)
        BY <2>1, <3>1, NearItself
      <3>. QED BY <2>1, <2>2, <3>1, <3>2, Kinds DEF DocumentInv, NoDocument
    <2>3. CASE held = None /\ file \in Stored
      <3>1. file \in DUR!JsonFile
        BY <2>3, DocumentAssumption
      <3>. QED BY <2>1, <2>3, <3>1, Kinds DEF DocumentInv, NoDocument
    <2>. QED BY <1>2, <2>2, <2>3 DEF DUR!Init
  <1>. QED BY <1>1, <1>2 DEF FetchInit

\* What is written was near to what it was.
LEMMA WriteStep ==
    ASSUME DocumentInv, DUR!Write PROVE DocumentInv'
  <1>1. held \in Metadata /\ file = None /\ origin \in Metadata /\ Near(held, origin, rounds)
    BY Kinds DEF DocumentInv, DUR!Write
  <1>2. held' = None /\ origin' = origin /\ rounds \in Nat
    BY DEF DocumentInv, DUR!Write
  <1>3. CASE file' = DUR!MarshalXML(held)
    <2>1. file' \in DUR!XmlFile /\ rounds' = rounds + 1
      BY <1>1, <1>3, XmlWritten, Kinds DEF DUR!Write
    <2>2. rounds' \in Nat /\ rounds' >= 1 /\ rounds' - 1 = rounds
      BY <1>2, <2>1
    <2>3. \E m \in Metadata : Near(m, origin', rounds' - 1) /\ file' = DUR!MarshalXML(m)
      BY <1>1, <1>2, <1>3, <2>2
    <2>4. /\ origin' \in Metadata /\ origin' \notin {None, Error} /\ held' \notin Metadata
          /\ held' # Error /\ file' # None /\ file' \notin DUR!JsonFile
      BY <1>1, <1>2, <2>1, Kinds, Special
    <2>. QED BY <1>2, <2>1, <2>2, <2>3, <2>4 DEF DocumentInv, NoDocument
  <1>4. CASE ~held.group /\ file' = DUR!MarshalJSON(held)
    <2>1. held \in DUR!Entity
      BY <1>1, <1>4, Kinds
    <2>2. file' \in DUR!JsonFile /\ rounds' = rounds
      BY <1>4, <2>1, JsonRead, Kinds DEF DUR!Write
    <2>3. \E m \in DUR!Entity : Near(m, origin', rounds') /\ file' = DUR!MarshalJSON(m)
      BY <1>1, <1>2, <1>4, <2>1, <2>2
    <2>4. /\ origin' \in Metadata /\ origin' \notin {None, Error} /\ held' \notin Metadata
          /\ held' # Error /\ file' # None /\ file' \notin DUR!XmlFile
      BY <1>1, <1>2, <2>2, Kinds, Special
    <2>. QED BY <1>2, <2>2, <2>3, <2>4 DEF DocumentInv, NoDocument
  <1>. QED BY <1>3, <1>4 DEF DUR!Write

\* What is read from a file: metadata or an error, and near to what it was, if it had
\* been written.
LEMMA ReadStep ==
    ASSUME DocumentInv, DUR!Read PROVE DocumentInv'
  <1>1. file # None /\ held = None /\ file' = None /\ rounds' = rounds /\ rounds \in Nat
        /\ origin' = (IF origin = None THEN held' ELSE origin)
    BY DEF DocumentInv, DUR!Read
  <1>2. origin # Error /\ file \in DUR!XmlFile \cup DUR!JsonFile
    BY <1>1, Special DEF DocumentInv
  <1>3. held' \in Metadata \cup {Error}
    <2>1. CASE file \in DUR!XmlFile
      BY <2>1, XmlReadType, Kinds DEF DUR!Read
    <2>2. CASE file \in DUR!JsonFile
      BY <2>2, JsonRead, Kinds DEF DUR!Read, Metadata
    <2>. QED BY <1>2, <2>1, <2>2
  <1>4. CASE origin = None
    <2>1. CASE held' = Error
      BY <1>1, <1>4, <2>1, Kinds, Special DEF DocumentInv, NoDocument
    <2>2. CASE held' \in Metadata
      <3>1. origin' = held' /\ Near(held', origin', rounds')
        BY <1>1, <1>4, <2>2, NearItself
      <3>. QED BY <1>1, <1>3, <2>2, <3>1, Kinds DEF DocumentInv, NoDocument
    <2>. QED BY <1>3, <2>1, <2>2
  <1>5. CASE origin \in Metadata
    <2>1. /\ held' = Error => ~DUR!HasText(origin)
          /\ held' \in Metadata => Near(held', origin, rounds)
      <3>1. CASE file \in DUR!XmlFile
        <4>1. PICK m \in Metadata :
                 rounds >= 1 /\ Near(m, origin, rounds - 1) /\ file = DUR!MarshalXML(m)
          BY <1>5, <3>1 DEF DocumentInv
        <4>2. held' \in DUR!UnmarshalXML(DUR!MarshalXML(m))
          BY <3>1, <4>1, Kinds DEF DUR!Read
        <4>3. rounds - 1 \in Nat /\ (rounds - 1) + 1 = rounds
          BY <1>1, <4>1
        <4>. QED BY <1>5, <4>1, <4>2, <4>3, XmlReadNear
      <3>2. CASE file \in DUR!JsonFile
        <4>1. PICK m \in DUR!Entity : Near(m, origin, rounds) /\ file = DUR!MarshalJSON(m)
          BY <1>5, <3>2 DEF DocumentInv
        <4>2. held' \in DUR!UnmarshalJSON(DUR!MarshalJSON(m))
          BY <3>2, <4>1, Kinds DEF DUR!Read
        <4>3. held' = m
          BY <4>2, JsonRead
        <4>. QED BY <4>1, <4>3, Kinds DEF Near
      <3>. QED BY <1>2, <3>1, <3>2
    <2>2. origin' = origin
      BY <1>1, <1>5, Kinds
    <2>3. /\ held' # None /\ origin' \in Metadata /\ origin' \notin {None, Error}
          /\ file' = None /\ file' \notin DUR!XmlFile /\ file' \notin DUR!JsonFile
      BY <1>1, <1>3, <1>5, <2>2, Kinds, Special
    <2>4. /\ held' = Error => ~DUR!HasText(origin')
          /\ held' \in Metadata => Near(held', origin', rounds')
      BY <1>1, <2>1, <2>2
    <2>. QED BY <1>1, <1>3, <2>3, <2>4 DEF DocumentInv, NoDocument
  <1>. QED BY <1>2, <1>4, <1>5 DEF DocumentInv

\* Every step keeps the invariant: those that read bytes have no metadata yet.
LEMMA DocumentKept == DocumentInv /\ [FetchNext]_<<vars, document>> => DocumentInv'
  <1> SUFFICES ASSUME DocumentInv, [FetchNext]_<<vars, document>> PROVE DocumentInv'
    OBVIOUS
  <1>1. CASE UNCHANGED document
    BY <1>1 DEF document, DocumentInv, NoDocument
  <1>2. CASE Arrive
    <2>1. /\ held = None /\ origin = None /\ file' \in DUR!XmlFile
          /\ held' = None /\ origin' = None /\ rounds' = rounds
      BY <1>2, DocumentAssumption DEF Arrive, NoDocument, DocumentInv
    <2>. QED BY <2>1, Kinds, Special DEF DocumentInv, NoDocument
  <1>3. CASE DUR!Next
    BY <1>3, WriteStep, ReadStep DEF DUR!Next
  <1>. QED BY <1>1, <1>2, <1>3 DEF FetchNext

\* Metadata that is near survives.
LEMMA NearSurvives == DocumentInv => Survives
  <1> SUFFICES ASSUME DocumentInv PROVE Survives
    OBVIOUS
  <1>1. DUR!Comparable => held \in Metadata /\ origin \in Metadata /\ Near(held, origin, rounds)
    BY DEF DUR!Comparable, DocumentInv
  <1>2. DUR!TimesSettle
    <2> SUFFICES ASSUME DUR!Comparable
                 PROVE  IF origin.until = None THEN held.until = None
                        ELSE /\ held.until \in {origin.until, DUR!Round(origin.until)}
                             /\ 2 * held.until \in (2 * origin.until - Millisecond)
                                                    ..(2 * origin.until + Millisecond)
      BY DEF DUR!TimesSettle
    <2>1. CASE origin.until = None
      BY <1>1, <2>1 DEF Near
    <2>2. CASE origin.until # None
      <3> DEFINE u == origin.until
                 v == held.until
      <3>1. u \in Int /\ v \in {u, DUR!Round(u)}
        BY <1>1, <2>2, Kinds DEF Near
      <3> HIDE DEF u, v
      <3>2. Millisecond \in Nat
        BY DurationAssumption
      <3>3. 2 * DUR!Round(u) \in (2 * u - Millisecond)..(2 * u + Millisecond)
        BY <3>1, RoundNear
      <3>4. 2 * u \in (2 * u - Millisecond)..(2 * u + Millisecond)
        BY <3>1, <3>2
      <3>5. 2 * v \in (2 * u - Millisecond)..(2 * u + Millisecond)
        BY <3>1, <3>3, <3>4
      <3>. QED BY <2>2, <3>1, <3>5 DEF u, v
    <2>. QED BY <2>1, <2>2
  <1>3. DUR!CacheNear
    <2> SUFFICES ASSUME origin \notin {None, Error}, DUR!HasText(origin)
                 PROVE  /\ held # Error
                        /\ held # None => IF origin.cache = None THEN held.cache = None
                                          ELSE held.cache - origin.cache \in -rounds..rounds
      BY DEF DUR!CacheNear
    <2>1. origin \in Metadata /\ held # Error
      BY DEF DocumentInv
    <2>2. ASSUME held # None PROVE Near(held, origin, rounds)
      BY <2>1, <2>2 DEF DocumentInv
    <2>. QED BY <2>1, <2>2 DEF Near
  <1>4. DUR!RolesKept
    BY <1>1 DEF DUR!RolesKept, Near
  <1>. QED BY <1>2, <1>3, <1>4 DEF Survives, DUR!Survives

\* Metadata survives being written and read again, any number of times, as XML and in the
\* Store (duration.go, time.go, metadata.go): an expiry settles within half a millisecond,
\* a cacheDuration with a text is off by at most a nanosecond for each time and is never
\* refused, and the text of an XSDDuration stays; for any units and any width of integers.
THEOREM MetadataSurvives == FetchSpec => []Survives
  <1>. QED BY DocumentStarts, DocumentKept, NearSurvives, PTL DEF FetchSpec

\* A cacheDuration is read as what its text denotes, but for what a float64 loses of its
\* seconds (one nanosecond for each Precise of them, and one), if that fits into a
\* time.Duration with room for the loss; and up to a multiple of 2^Width if it does not,
\* unless the seconds alone are out of range (Duration.UnmarshalText).
THEOREM ReadsWhatIsDenoted == FetchSpec => ReadAsDenoted
  <1> DEFINE Denotes(c, t) ==
               /\ DUR!Denoted(t) \in (DUR!MinInt + DUR!Loss(t))..(DUR!MaxInt - DUR!Loss(t)) =>
                    c - DUR!Denoted(t) \in -DUR!Loss(t)..DUR!Loss(t)
               /\ DUR!SecondsOf(t) + DUR!Loss(t) <= DUR!MaxInt =>
                    (c - DUR!Denoted(t) + DUR!Loss(t)) % 2^Width <= 2 * DUR!Loss(t)
             A == DUR!Read /\ file.format = "xml" /\ file.cache \notin {None, Empty} /\ held' # Error
                    => Denotes(held'.cache, file.cache)
  <1>1. ASSUME DocumentInv, DUR!Read, file.format = "xml", file.cache \notin {None, Empty},
               held' # Error
        PROVE  Denotes(held'.cache, file.cache)
    <2>1. file \in DUR!XmlFile
      BY <1>1, Kinds DEF DocumentInv, DUR!Read
    <2>2. held' \in DUR!UnmarshalXML(file)
      BY <1>1 DEF DUR!Read
    <2>3. PICK c \in CachesOf(file) :
             held' = IF Error \in {c, RoleOf(file)} THEN Error
                     ELSE [group |-> file.group, until |-> UntilOf(file), cache |-> c,
                           role |-> RoleOf(file)]
      BY <2>2, XmlRead
    <2>4. c # Error /\ held'.cache = c
      BY <1>1, <2>3
    <2>5. file.cache \in DUR!Text /\ c \in DUR!UnmarshalText(file.cache)
      BY <1>1, <2>1, <2>3 DEF CachesOf, DUR!XmlFile
    <2>6. Denotes(c, file.cache)
      BY <2>4, <2>5, UnmarshalNear
    <2>. QED BY <2>4, <2>6
  <1>2. DocumentInv => [A]_DUR!vars
    BY <1>1
  <1>. QED BY <1>2, DocumentStarts, DocumentKept, PTL DEF FetchSpec, ReadAsDenoted, DUR!ReadAsDenoted

=============================================================================
