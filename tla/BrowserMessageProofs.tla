------------------------ MODULE BrowserMessageProofs ------------------------
(***************************************************************************)
(* What protects a message in a browser, proved with TLAPS: the signature  *)
(* of the HTTP-Redirect binding, for any messages, keys, certificates and  *)
(* destinations, and any number of changes made to the query on its way;   *)
(* and the encryption of assertions, for any metadata, any lengths and any *)
(* nesting of encrypted keys.                                              *)
(***************************************************************************)
EXTENDS BrowserMessage, FiniteSetTheorems, WellFoundedInduction, TLAPS

-----------------------------------------------------------------------------
\* HTTP-Redirect: the invariant.

\* The RelayState of x as it is signed, and the signature of x.
RelaysOf(x) == IF x.relay = "" THEN <<>> ELSE <<Raw(x.relay, "escaped")>>
SignatureOf(x) ==
    [key |-> x.key,
     over |-> SignedText(x.parameter, Raw(x.message, "escaped"), RelaysOf(x),
                         Raw(KeyType[x.key], "escaped"))]

Sent == [parameter : {"SAMLRequest", "SAMLResponse"}, message : Messages, relay : Relays,
         key : Keys \cup {NoKey}]

\* The pairs a query can have.
Names == STRING \cup Signing \cup {"utm"}
Texts == STRING \cup {"x", "rsa", "ecdsa"} \cup Messages \cup Relays
            \cup {SignatureOf(x) : x \in Sent}
Pairs == [key : [text : Names, form : Forms], value : [text : Texts, form : Forms]]

\* The parameters that x is sent with, and the pair of each.
NamesOf(x) ==
    {x.parameter} \cup (IF x.relay = "" THEN {} ELSE {"RelayState"})
                  \cup (IF x.key = NoKey THEN {} ELSE {"SigAlg", "Signature"})
PairOf(x, name) ==
    Pair(name, CASE name = x.parameter -> x.message
                 [] name = "RelayState" -> x.relay
                 [] name = "SigAlg" -> KeyType[x.key]
                 [] name = "Signature" -> SignatureOf(x))

\* Of the parameters that take part in a signature, s has those in names, each once
\* and as x was sent with it.
Carries(s, x, names) ==
    /\ \A i \in DOMAIN s : s[i].key.form # "bad"
    /\ \A i \in DOMAIN s : s[i].key.text \in Signing =>
          s[i].key.text \in names /\ s[i] = PairOf(x, s[i].key.text)
    /\ \A i, j \in DOMAIN s :
          s[i].key.text \in Signing /\ s[j].key.text = s[i].key.text => i = j
    /\ \A name \in names : \E i \in DOMAIN s : s[i].key.text = name

\* The only signature there can be is the sender's.
Genuine(s, x) ==
    \A i \in DOMAIN s : s[i].key.text = "Signature" =>
       x.key \in Keys /\ s[i].value.text = SignatureOf(x)

RInv ==
    /\ sent \in Sent /\ query \in Seq(Pairs)
    /\ trusted \in Certificates /\ required \in BOOLEAN /\ altered \in BOOLEAN
    /\ Genuine(query, sent)
    /\ ~altered => Carries(query, sent, NamesOf(sent))
    /\ ProcessedIsSigned /\ SignedArrives

-----------------------------------------------------------------------------
\* What is signed.

\* The elements of a concatenation.
LEMMA Concatenated ==
    ASSUME NEW S, NEW s \in Seq(S), NEW t \in Seq(S)
    PROVE  /\ s \o t \in Seq(S) /\ Len(s \o t) = Len(s) + Len(t)
           /\ DOMAIN (s \o t) = 1..(Len(s) + Len(t))
           /\ \A i \in 1..Len(s) : (s \o t)[i] = s[i]
           /\ \A i \in 1..Len(t) : (s \o t)[Len(s) + i] = t[i]
  OBVIOUS

\* Another element at the end.
LEMMA OneMore ==
    ASSUME NEW S, NEW s \in Seq(S), NEW x \in S
    PROVE  /\ s \o <<x>> \in Seq(S) /\ Len(s \o <<x>>) = Len(s) + 1
           /\ DOMAIN (s \o <<x>>) = 1..(Len(s) + 1)
           /\ \A i \in 1..Len(s) : (s \o <<x>>)[i] = s[i]
           /\ (s \o <<x>>)[Len(s) + 1] = x
  OBVIOUS

\* The signed text without a RelayState.
LEMMA TextAlone ==
    ASSUME NEW p, NEW m, NEW a
    PROVE  LET t == SignedText(p, m, <<>>, a) IN
           Len(t) = 2 /\ t[1] = <<p, m>> /\ t[2] = <<"SigAlg", a>>
  <1> DEFINE x == <<p, m>>
             z == <<"SigAlg", a>>
             S == {x, z}
  <1>1. [i \in DOMAIN <<>> |-> <<"RelayState", <<>>[i]>>] = <<>>
    OBVIOUS
  <1>2. SignedText(p, m, <<>>, a) = (<<x>> \o <<>>) \o <<z>>
    BY <1>1 DEF SignedText
  <1>3. x \in S /\ z \in S
    OBVIOUS
  <1> HIDE DEF x, z, S
  <1>4. <<x>> \in Seq(S) /\ <<>> \in Seq(S)
    BY <1>3
  <1>5. /\ <<x>> \o <<>> \in Seq(S)
        /\ Len(<<x>> \o <<>>) = 1 /\ (<<x>> \o <<>>)[1] = x
    BY <1>4
  <1>6. LET t == (<<x>> \o <<>>) \o <<z>> IN Len(t) = 2 /\ t[1] = x /\ t[2] = z
    BY <1>3, <1>5, OneMore
  <1>. QED BY <1>2, <1>6 DEF x, z

\* The signed text with a RelayState.
LEMMA TextWithRelay ==
    ASSUME NEW p, NEW m, NEW a, NEW r
    PROVE  LET t == SignedText(p, m, <<r>>, a) IN
           /\ Len(t) = 3 /\ t[1] = <<p, m>>
           /\ t[2] = <<"RelayState", r>> /\ t[3] = <<"SigAlg", a>>
  <1> DEFINE x == <<p, m>>
             y == <<"RelayState", r>>
             z == <<"SigAlg", a>>
             S == {x, y, z}
  <1>1. [i \in DOMAIN <<r>> |-> <<"RelayState", <<r>>[i]>>] = <<y>>
    OBVIOUS
  <1>2. SignedText(p, m, <<r>>, a) = (<<x>> \o <<y>>) \o <<z>>
    BY <1>1 DEF SignedText
  <1>3. x \in S /\ y \in S /\ z \in S
    OBVIOUS
  <1> HIDE DEF x, y, z, S
  <1>4. <<x>> \in Seq(S)
    BY <1>3
  <1>5. /\ <<x>> \o <<y>> \in Seq(S) /\ Len(<<x>> \o <<y>>) = 2
        /\ (<<x>> \o <<y>>)[1] = x /\ (<<x>> \o <<y>>)[2] = y
    BY <1>3, <1>4
  <1>6. LET t == (<<x>> \o <<y>>) \o <<z>> IN
        Len(t) = 3 /\ t[1] = x /\ t[2] = y /\ t[3] = z
    BY <1>3, <1>5, OneMore
  <1>. QED BY <1>2, <1>6 DEF x, y, z

\* It tells the message, the RelayState and the algorithm.
LEMMA TextTells ==
    ASSUME NEW p, NEW m, NEW a, NEW q, NEW n, NEW b, NEW rs, NEW ss,
           rs = <<>> \/ \E r : rs = <<r>>, ss = <<>> \/ \E r : ss = <<r>>,
           SignedText(p, m, rs, a) = SignedText(q, n, ss, b)
    PROVE  p = q /\ m = n /\ rs = ss /\ a = b
  <1> DEFINE t == SignedText(p, m, rs, a)
             u == SignedText(q, n, ss, b)
  <1>1. rs = <<>> => Len(t) = 2 /\ t[1] = <<p, m>> /\ t[2] = <<"SigAlg", a>>
    BY TextAlone
  <1>2. ASSUME NEW r, rs = <<r>>
        PROVE  Len(t) = 3 /\ t[1] = <<p, m>> /\ t[2] = <<"RelayState", r>> /\ t[3] = <<"SigAlg", a>>
    BY <1>2, TextWithRelay
  <1>3. ss = <<>> => Len(u) = 2 /\ u[1] = <<q, n>> /\ u[2] = <<"SigAlg", b>>
    BY TextAlone
  <1>4. ASSUME NEW r, ss = <<r>>
        PROVE  Len(u) = 3 /\ u[1] = <<q, n>> /\ u[2] = <<"RelayState", r>> /\ u[3] = <<"SigAlg", b>>
    BY <1>4, TextWithRelay
  <1>5. t = u
    OBVIOUS
  <1> HIDE DEF t, u
  <1>6. CASE rs = <<>> /\ ss = <<>>
    BY <1>1, <1>3, <1>5, <1>6
  <1>7. ASSUME NEW r, NEW s, rs = <<r>>, ss = <<s>> PROVE p = q /\ m = n /\ rs = ss /\ a = b
    BY <1>2, <1>4, <1>5, <1>7
  <1>. QED BY <1>1, <1>2, <1>3, <1>4, <1>5, <1>6, <1>7

\* What occurs at most once is found.
LEMMA AtMostOne ==
    ASSUME NEW S, IsFiniteSet(S), ~(Cardinality(S) > 1), NEW a \in S, NEW b \in S
    PROVE  a = b
  <1> SUFFICES ASSUME a # b PROVE FALSE
    OBVIOUS
  <1>1. {a, b} \subseteq S /\ IsFiniteSet({a, b})
    BY FS_Subset
  <1>2. Cardinality({a, b}) <= Cardinality(S) /\ Cardinality(S) \in Nat
    BY <1>1, FS_Subset, FS_CardinalityType
  <1>3. Cardinality({a}) = 1 /\ IsFiniteSet({a})
    BY FS_Singleton
  <1>4. Cardinality({a} \cup {b}) = 2
    BY <1>3, FS_AddElement
  <1>5. {a} \cup {b} = {a, b}
    OBVIOUS
  <1>. QED BY <1>2, <1>4, <1>5

-----------------------------------------------------------------------------
\* The URL that is made.

\* The pairs of x are pairs, each under its own name.
LEMMA PairsOf ==
    ASSUME NEW x \in Sent
    PROVE  /\ PairOf(x, x.parameter) = Pair(x.parameter, x.message)
           /\ PairOf(x, "RelayState") = Pair("RelayState", x.relay)
           /\ PairOf(x, "SigAlg") = Pair("SigAlg", KeyType[x.key])
           /\ PairOf(x, "Signature") = Pair("Signature", SignatureOf(x))
           /\ \A name \in NamesOf(x) :
                 /\ name \in Signing /\ PairOf(x, name) \in Pairs
                 /\ PairOf(x, name).key = Raw(name, "escaped")
                 /\ PairOf(x, name).value.form = "escaped"
  <1>1. x.parameter \in {"SAMLRequest", "SAMLResponse"}
    BY DEF Sent
  <1>2. /\ PairOf(x, x.parameter) = Pair(x.parameter, x.message)
        /\ PairOf(x, "RelayState") = Pair("RelayState", x.relay)
        /\ PairOf(x, "SigAlg") = Pair("SigAlg", KeyType[x.key])
        /\ PairOf(x, "Signature") = Pair("Signature", SignatureOf(x))
    BY <1>1 DEF PairOf
  <1>3. x.message \in Texts /\ x.relay \in Texts /\ SignatureOf(x) \in Texts
    BY DEF Texts, Sent
  <1>4. x.key # NoKey => KeyType[x.key] \in Texts
    <2>1. x.key # NoKey => x.key \in Keys
      BY DEF Sent
    <2>2. x.key \in Keys => KeyType[x.key] \in {"rsa", "ecdsa"}
      BY KeyTypes
    <2>. QED BY <2>1, <2>2 DEF Texts
  <1>5. ASSUME NEW name \in Names, NEW written \in Texts
        PROVE  /\ Pair(name, written) \in Pairs
               /\ Pair(name, written).key = Raw(name, "escaped")
               /\ Pair(name, written).value.form = "escaped"
    BY DEF Pair, Raw, Pairs, Forms
  <1>6. {x.parameter, "RelayState", "SigAlg", "Signature"} \subseteq Names \cap Signing
    BY <1>1 DEF Names, Signing
  <1> HIDE DEF PairOf
  <1>7. ASSUME NEW name \in NamesOf(x)
        PROVE  /\ name \in Signing /\ PairOf(x, name) \in Pairs
               /\ PairOf(x, name).key = Raw(name, "escaped")
               /\ PairOf(x, name).value.form = "escaped"
    <2>1. CASE name = x.parameter
      BY <1>2, <1>3, <1>5, <1>6, <2>1
    <2>2. CASE name = "RelayState"
      BY <1>2, <1>3, <1>5, <1>6, <2>2
    <2>3. CASE name = "SigAlg" /\ x.key # NoKey
      BY <1>2, <1>4, <1>5, <1>6, <2>3
    <2>4. CASE name = "Signature"
      BY <1>2, <1>3, <1>5, <1>6, <2>4
    <2>. QED BY <1>1, <2>1, <2>2, <2>3, <2>4 DEF NamesOf
  <1>. QED BY <1>2, <1>7

\* One more of the pairs of x.
LEMMA CarriesMore ==
    ASSUME NEW x \in Sent, NEW names \in SUBSET NamesOf(x), NEW name \in NamesOf(x) \ names,
           NEW s \in Seq(Pairs), Carries(s, x, names),
           NEW t \in Seq(Pairs), Len(t) = Len(s) + 1, \A i \in 1..Len(s) : t[i] = s[i],
           t[Len(s) + 1] = PairOf(x, name)
    PROVE  Carries(t, x, names \cup {name})
  <1> DEFINE n == Len(s)
  <1>1. DOMAIN s = 1..n /\ DOMAIN t = 1..(n + 1) /\ n \in Nat
    OBVIOUS
  <1>2. t[n + 1].key.text = name /\ t[n + 1].key.form = "escaped" /\ t[n + 1] = PairOf(x, name)
    <2>1. PairOf(x, name).key = Raw(name, "escaped")
      BY PairsOf
    <2>. QED BY <2>1 DEF Raw
  <1> HIDE DEF n
  <1>3. \A i \in 1..(n + 1) : i \in 1..n \/ i = n + 1
    BY <1>1
  <1>4. \A i \in 1..n : t[i] = s[i]
    BY DEF n
  <1>5. \A i \in DOMAIN t : t[i].key.form # "bad"
    BY <1>1, <1>2, <1>3, <1>4 DEF Carries
  <1>6. \A i \in DOMAIN t : t[i].key.text \in Signing =>
           t[i].key.text \in names \cup {name} /\ t[i] = PairOf(x, t[i].key.text)
    BY <1>1, <1>2, <1>3, <1>4 DEF Carries
  <1>7. \A i \in 1..n : t[i].key.text # name
    BY <1>1, <1>4, PairsOf DEF Carries
  <1>8. \A i, j \in DOMAIN t :
           t[i].key.text \in Signing /\ t[j].key.text = t[i].key.text => i = j
    BY <1>1, <1>2, <1>3, <1>4, <1>7 DEF Carries
  <1>9. ASSUME NEW m \in names \cup {name} PROVE \E i \in DOMAIN t : t[i].key.text = m
    <2>1. CASE m = name
      BY <1>1, <1>2, <2>1
    <2>2. CASE m \in names
      <3>1. PICK i \in DOMAIN s : s[i].key.text = m
        BY <2>2 DEF Carries
      <3>. QED BY <1>1, <1>4, <3>1
    <2>. QED BY <2>1, <2>2
  <1>. QED BY <1>5, <1>6, <1>8, <1>9 DEF Carries

\* redirectURLWithContext puts the parameters of the message after those of the
\* destination, each of them once.
LEMMA Made ==
    ASSUME NEW x \in Sent, NEW base \in Destinations
    PROVE  LET url == RedirectURL(base, x.parameter, x.message, x.relay, x.key) IN
           url \in Seq(Pairs) /\ Carries(url, x, NamesOf(x))
  <1>0. x.parameter \in {"SAMLRequest", "SAMLResponse"}
    BY DEF Sent
  <1>1. base \in Seq(Pairs) /\ Carries(base, x, {})
    <2> DEFINE plain == [key : [text : STRING, form : Forms], value : [text : STRING, form : Forms]]
    <2>1. plain \subseteq Pairs
      BY DEF Pairs, Names, Texts
    <2>2. base \in Seq(plain)
      BY OwnParameters
    <2> HIDE DEF plain
    <2>3. base \in Seq(Pairs)
      BY <2>1, <2>2
    <2>. QED BY <2>3, OwnParameters DEF Carries
  <1> DEFINE q1 == base \o <<Pair(x.parameter, x.message)>>
  <1>2. q1 \in Seq(Pairs) /\ Carries(q1, x, {x.parameter})
    <2>1. x.parameter \in NamesOf(x) /\ PairOf(x, x.parameter) = Pair(x.parameter, x.message)
      BY PairsOf DEF NamesOf
    <2>2. PairOf(x, x.parameter) \in Pairs
      BY <2>1, PairsOf
    <2>3. /\ q1 \in Seq(Pairs) /\ Len(q1) = Len(base) + 1
          /\ \A i \in 1..Len(base) : q1[i] = base[i]
          /\ q1[Len(base) + 1] = PairOf(x, x.parameter)
      BY <1>1, <2>1, <2>2, OneMore
    <2> HIDE DEF q1
    <2>4. Carries(q1, x, {} \cup {x.parameter})
      BY <1>1, <2>1, <2>3, CarriesMore
    <2>. QED BY <2>3, <2>4
  <1> DEFINE relays == IF x.relay = "" THEN <<>> ELSE <<Raw(x.relay, "escaped")>>
             pair == Pair("RelayState", x.relay)
             tail == [i \in DOMAIN relays |-> pair]
             q2 == q1 \o tail
             names2 == {x.parameter} \cup (IF x.relay = "" THEN {} ELSE {"RelayState"})
  <1>3. q2 \in Seq(Pairs) /\ Carries(q2, x, names2)
    <2>1. CASE x.relay = ""
      <3>1. relays = <<>> /\ names2 = {x.parameter}
        BY <2>1
      <3>2. tail = <<>>
        <4> HIDE DEF relays, pair
        <4>1. [i \in DOMAIN <<>> |-> pair] = <<>>
          OBVIOUS
        <4>2. relays = <<>>
          BY <3>1
        <4>. QED BY <4>1, <4>2, Zenon
      <3> HIDE DEF q1, tail
      <3>3. q1 \o <<>> = q1
        BY <1>2
      <3>. QED BY <1>2, <3>1, <3>2, <3>3
    <2>2. CASE x.relay # ""
      <3> DEFINE raw == Raw(x.relay, "escaped")
      <3>0. relays = <<raw>>
        BY <2>2
      <3>1. tail = <<pair>>
        <4> HIDE DEF raw, pair, relays
        <4>. QED BY <3>0
      <3>2. /\ "RelayState" \in NamesOf(x) \ {x.parameter} /\ x.parameter \in NamesOf(x)
            /\ names2 = {x.parameter} \cup {"RelayState"}
        BY <1>0, <2>2 DEF NamesOf
      <3> HIDE DEF q1, tail, names2
      <3>3. PairOf(x, "RelayState") = Pair("RelayState", x.relay) /\ PairOf(x, "RelayState") \in Pairs
        BY <3>2, PairsOf
      <3>4. /\ q2 \in Seq(Pairs) /\ Len(q2) = Len(q1) + 1
            /\ \A i \in 1..Len(q1) : q2[i] = q1[i]
            /\ q2[Len(q1) + 1] = PairOf(x, "RelayState")
        BY <1>2, <3>1, <3>3, OneMore
      <3> HIDE DEF q2
      <3>. QED BY <1>2, <3>2, <3>4, CarriesMore
    <2>. QED BY <2>1, <2>2
  <1> DEFINE alg == Pair("SigAlg", KeyType[x.key])
             signature == Pair("Signature", SignatureOf(x))
  <1>4. RedirectURL(base, x.parameter, x.message, x.relay, x.key)
          = q2 \o (IF x.key = NoKey THEN <<>> ELSE <<alg, signature>>)
    BY DEF RedirectURL, SignatureOf, RelaysOf
  <1>5. /\ x.key = NoKey => NamesOf(x) = names2
        /\ x.key # NoKey => /\ NamesOf(x) = (names2 \cup {"SigAlg"}) \cup {"Signature"}
                            /\ "SigAlg" \notin names2 /\ "Signature" \notin names2
    BY <1>0 DEF NamesOf
  <1> HIDE DEF q2, names2
  <1>6. CASE x.key = NoKey
    <2>1. q2 \o <<>> = q2
      BY <1>3
    <2>. QED BY <1>3, <1>4, <1>5, <1>6, <2>1
  <1>7. CASE x.key # NoKey
    <2>1. /\ PairOf(x, "SigAlg") = alg /\ PairOf(x, "SigAlg") \in Pairs
          /\ PairOf(x, "Signature") = signature /\ PairOf(x, "Signature") \in Pairs
      BY <1>5, <1>7, PairsOf
    <2> HIDE DEF alg, signature
    <2> DEFINE q3 == q2 \o <<alg>>
               q4 == q2 \o <<alg, signature>>
    <2>2. /\ q3 \in Seq(Pairs) /\ Len(q3) = Len(q2) + 1
          /\ \A i \in 1..Len(q2) : q3[i] = q2[i]
          /\ q3[Len(q2) + 1] = alg
      BY <1>3, <2>1, OneMore
    <2>3. <<alg, signature>> \in Seq(Pairs)
      BY <2>1
    <2>4. /\ q4 \in Seq(Pairs) /\ Len(q4) = Len(q2) + 2
          /\ \A i \in 1..Len(q2) : q4[i] = q2[i]
          /\ q4[Len(q2) + 1] = alg /\ q4[Len(q2) + 2] = signature
      BY <1>3, <2>3
    <2> HIDE DEF q3, q4
    <2>5. Carries(q3, x, names2 \cup {"SigAlg"})
      BY <1>3, <1>5, <1>7, <2>1, <2>2, CarriesMore
    <2>6. /\ Len(q2) \in Nat /\ Len(q4) = Len(q3) + 1
          /\ \A i \in 1..Len(q3) : q4[i] = q3[i]
          /\ q4[Len(q3) + 1] = signature
      BY <1>3, <2>2, <2>4
    <2>7. Carries(q4, x, (names2 \cup {"SigAlg"}) \cup {"Signature"})
      BY <1>5, <1>7, <2>1, <2>2, <2>4, <2>5, <2>6, CarriesMore
    <2>. QED BY <1>4, <1>5, <1>7, <2>4, <2>7 DEF q4
  <1>. QED BY <1>6, <1>7

-----------------------------------------------------------------------------
\* Changes on the way.

\* Pairs in another order, perhaps without some unrelated ones.
LEMMA Reordered ==
    ASSUME NEW x \in Sent, NEW s \in Seq(Pairs), Carries(s, x, NamesOf(x)),
           NEW t \in Seq(Pairs), NEW f,
           \A j \in DOMAIN t : f[j] \in DOMAIN s /\ t[j] = s[f[j]],
           \A i, j \in DOMAIN t : f[i] = f[j] => i = j,
           \A k \in DOMAIN s : s[k].key.text \in Signing => \E j \in DOMAIN t : f[j] = k
    PROVE  Carries(t, x, NamesOf(x))
  <1>1. NamesOf(x) \subseteq Signing
    BY PairsOf
  <1>2. ASSUME NEW name \in NamesOf(x) PROVE \E i \in DOMAIN t : t[i].key.text = name
    <2>1. PICK k \in DOMAIN s : s[k].key.text = name
      BY DEF Carries
    <2>2. PICK j \in DOMAIN t : f[j] = k
      BY <1>1, <2>1
    <2>. QED BY <2>1, <2>2
  <1>3. \A i \in DOMAIN t : t[i].key.form # "bad"
    BY DEF Carries
  <1>4. \A i \in DOMAIN t : t[i].key.text \in Signing =>
           t[i].key.text \in NamesOf(x) /\ t[i] = PairOf(x, t[i].key.text)
    BY DEF Carries
  <1>5. \A i, j \in DOMAIN t :
           t[i].key.text \in Signing /\ t[j].key.text = t[i].key.text => i = j
    <2> SUFFICES ASSUME NEW i \in DOMAIN t, NEW j \in DOMAIN t,
                        t[i].key.text \in Signing, t[j].key.text = t[i].key.text
                 PROVE  i = j
      OBVIOUS
    <2>1. f[i] \in DOMAIN s /\ f[j] \in DOMAIN s /\ t[i] = s[f[i]] /\ t[j] = s[f[j]]
      OBVIOUS
    <2>2. f[i] = f[j]
      BY <2>1 DEF Carries
    <2>. QED BY <2>2
  <1>. QED BY <1>2, <1>3, <1>4, <1>5 DEF Carries

\* Nobody else makes a signature.
LEMMA GenuineStays ==
    ASSUME NEW x, NEW s, Genuine(s, x), NEW t,
           \A j \in DOMAIN t : t[j].key.text = "Signature" =>
              \E k \in DOMAIN s : /\ s[k].key.text = "Signature"
                                  /\ s[k].value.text = t[j].value.text
    PROVE  Genuine(t, x)
  BY DEF Genuine

\* A change keeps the invariant if it makes no signature, and leaves what takes part
\* in one unless it says that it does not.
LEMMA EditedStep ==
    ASSUME RInv, NEW pairs \in Seq(Pairs), NEW touches \in BOOLEAN, Edited(pairs, touches),
           Genuine(pairs, sent),
           ~touches /\ Carries(query, sent, NamesOf(sent)) => Carries(pairs, sent, NamesOf(sent))
    PROVE  RInv'
  <1>1. /\ query' = pairs /\ altered' = (altered \/ touches) /\ outcome = Pending
        /\ UNCHANGED <<sent, trusted, required, outcome>>
    BY DEF Edited
  <1>2. altered' \in BOOLEAN
    BY <1>1 DEF RInv
  <1>3. ~altered' => ~altered /\ ~touches
    BY <1>1 DEF RInv
  <1>4. outcome'.is = "pending"
    BY <1>1 DEF Pending
  <1>5. ProcessedIsSigned' /\ SignedArrives'
    BY <1>4 DEF ProcessedIsSigned, SignedArrives
  <1>6. Genuine(query, sent)'
    BY <1>1 DEF Genuine, SignatureOf, RelaysOf, SignedText, Raw
  <1>7. (~altered => Carries(query, sent, NamesOf(sent)))'
    <2> SUFFICES ASSUME ~altered' PROVE Carries(query, sent, NamesOf(sent))'
      OBVIOUS
    <2>1. Carries(pairs, sent, NamesOf(sent))
      BY <1>3 DEF RInv
    <2>. QED BY <1>1, <2>1
  <1>. QED BY <1>1, <1>2, <1>5, <1>6, <1>7 DEF RInv

\* The pairs change their order.
LEMMA SwapStep ==
    ASSUME RInv, NEW i \in DOMAIN query, Swap(i) PROVE RInv'
  <1> DEFINE pairs == [query EXCEPT ![i] = query[i + 1], ![i + 1] = query[i]]
             f == [j \in DOMAIN query |-> IF j = i THEN i + 1 ELSE IF j = i + 1 THEN i ELSE j]
  <1>1. sent \in Sent /\ query \in Seq(Pairs) /\ Genuine(query, sent)
    BY DEF RInv
  <1>2. i + 1 \in DOMAIN query /\ Edited(pairs, FALSE)
    BY DEF Swap
  <1>3. i \in Nat /\ i # i + 1
    BY <1>1
  <1>4. pairs \in Seq(Pairs) /\ DOMAIN pairs = DOMAIN query
    BY <1>1, <1>2
  <1>5. f \in [DOMAIN pairs -> DOMAIN query] /\ \A j \in DOMAIN pairs : pairs[j] = query[f[j]]
    BY <1>2, <1>3, <1>4
  <1>6. \A j, k \in DOMAIN pairs : f[j] = f[k] => j = k
    BY <1>3, <1>4
  <1>7. \A k \in DOMAIN query : \E j \in DOMAIN pairs : f[j] = k
    <2> SUFFICES ASSUME NEW k \in DOMAIN query PROVE \E j \in DOMAIN pairs : f[j] = k
      OBVIOUS
    <2>1. f[k] \in DOMAIN pairs /\ f[f[k]] = k
      BY <1>2, <1>3, <1>4
    <2>. QED BY <2>1
  <1> HIDE DEF pairs, f
  <1>8. Genuine(pairs, sent)
    BY <1>1, <1>5, GenuineStays
  <1>9. ASSUME Carries(query, sent, NamesOf(sent)) PROVE Carries(pairs, sent, NamesOf(sent))
    <2>1. \A j \in DOMAIN pairs : f[j] \in DOMAIN query /\ pairs[j] = query[f[j]]
      BY <1>5
    <2>2. \A k \in DOMAIN query : query[k].key.text \in Signing => \E j \in DOMAIN pairs : f[j] = k
      BY <1>7
    <2>. QED BY <1>1, <1>4, <1>6, <1>9, <2>1, <2>2, Reordered
  <1>. QED BY <1>2, <1>4, <1>8, <1>9, EditedStep

\* A pair is taken out.
LEMMA DropStep ==
    ASSUME RInv, NEW i \in DOMAIN query, Drop(i) PROVE RInv'
  <1> DEFINE pairs == Without(i)
             touches == query[i].key.text \in Signing
             f == [j \in 1 .. Len(query) - 1 |-> IF j < i THEN j ELSE j + 1]
  <1>1. sent \in Sent /\ query \in Seq(Pairs) /\ Genuine(query, sent)
    BY DEF RInv
  <1>2. Edited(pairs, touches) /\ touches \in BOOLEAN
    BY DEF Drop
  <1>3. Len(query) \in Nat /\ DOMAIN query = 1..Len(query) /\ i \in 1..Len(query)
    BY <1>1
  <1>4. f \in [1 .. Len(query) - 1 -> DOMAIN query]
    BY <1>3
  <1>5. pairs = [j \in 1 .. Len(query) - 1 |-> query[f[j]]]
    BY DEF Without
  <1>6. \A j \in 1..Len(query) - 1 : query[f[j]] \in Pairs
    BY <1>1, <1>3, <1>4
  <1>7. \A j, k \in 1 .. Len(query) - 1 : f[j] = f[k] => j = k
    BY <1>3
  <1>8. ASSUME NEW k \in DOMAIN query, k # i PROVE \E j \in 1 .. Len(query) - 1 : f[j] = k
    <2>1. CASE k < i
      BY <1>3, <2>1
    <2>2. CASE k > i
      <3>1. k - 1 \in 1 .. Len(query) - 1 /\ f[k - 1] = k
        BY <1>3, <2>2
      <3>. QED BY <3>1
    <2>. QED BY <1>3, <1>8, <2>1, <2>2
  <1> HIDE DEF pairs, f
  <1>9. pairs \in Seq(Pairs) /\ DOMAIN pairs = 1 .. Len(query) - 1
    <2>1. Len(query) - 1 \in Nat
      BY <1>3
    <2>. QED BY <1>5, <1>6, <2>1
  <1>10. \A j \in DOMAIN pairs : pairs[j] = query[f[j]] /\ f[j] \in DOMAIN query
    BY <1>4, <1>5, <1>9
  <1>11. Genuine(pairs, sent)
    BY <1>1, <1>10, GenuineStays
  <1>12. ASSUME ~touches, Carries(query, sent, NamesOf(sent))
         PROVE  Carries(pairs, sent, NamesOf(sent))
    <2>1. \A j \in DOMAIN pairs : f[j] \in DOMAIN query /\ pairs[j] = query[f[j]]
      BY <1>10
    <2>2. \A k \in DOMAIN query : query[k].key.text \in Signing => \E j \in DOMAIN pairs : f[j] = k
      BY <1>8, <1>9, <1>12
    <2>3. \A j, k \in DOMAIN pairs : f[j] = f[k] => j = k
      BY <1>7, <1>9
    <2>4. pairs \in Seq(Pairs)
      BY <1>9
    <2> HIDE DEF touches
    <2>. QED BY <1>1, <1>12, <2>1, <2>2, <2>3, <2>4, Reordered
  <1>. QED BY <1>2, <1>9, <1>11, <1>12, EditedStep

\* A key or a value is written differently.
LEMMA RewriteStep ==
    ASSUME RInv, NEW i \in DOMAIN query, NEW part \in {"key", "value"}, NEW form \in Forms,
           Rewrite(i, part, form)
    PROVE  RInv'
  <1> DEFINE p == query[i]
             r == IF part = "key" THEN [p EXCEPT !.key.form = form] ELSE [p EXCEPT !.value.form = form]
             pairs == [query EXCEPT ![i] = r]
             touches == query[i].key.text \in Signing \/ (part = "key" /\ form = "bad")
  <1>1. sent \in Sent /\ query \in Seq(Pairs) /\ Genuine(query, sent)
    BY DEF RInv
  <1>2. Edited(pairs, touches) /\ touches \in BOOLEAN
    BY DEF Rewrite
  <1>3. p \in Pairs
    BY <1>1
  <1>4. /\ r \in Pairs /\ r.key.text = p.key.text /\ r.value.text = p.value.text
        /\ r.key.form \in {p.key.form, form} /\ (part # "key" => r.key.form = p.key.form)
    <2> HIDE DEF p
    <2>1. CASE part = "key"
      BY <1>3, <2>1 DEF Pairs
    <2>2. CASE part # "key"
      BY <1>3, <2>2 DEF Pairs
    <2>. QED BY <2>1, <2>2
  <1> HIDE DEF r
  <1>5. /\ pairs \in Seq(Pairs) /\ DOMAIN pairs = DOMAIN query
        /\ pairs[i] = r /\ \A j \in DOMAIN query : j # i => pairs[j] = query[j]
    BY <1>1, <1>4
  <1> HIDE DEF pairs
  <1>6. \A j \in DOMAIN query : /\ pairs[j].key.text = query[j].key.text
                                /\ pairs[j].value.text = query[j].value.text
    BY <1>4, <1>5
  <1>7. Genuine(pairs, sent)
    BY <1>1, <1>5, <1>6, GenuineStays
  <1>8. ASSUME ~touches, Carries(query, sent, NamesOf(sent))
        PROVE  Carries(pairs, sent, NamesOf(sent))
    <2>1. \A j \in DOMAIN pairs : pairs[j].key.form # "bad"
      BY <1>4, <1>5, <1>8 DEF Carries
    <2>2. \A j \in DOMAIN pairs : pairs[j].key.text \in Signing => pairs[j] = query[j]
      BY <1>5, <1>6, <1>8
    <2>3. \A j \in DOMAIN pairs : pairs[j].key.text \in Signing =>
             pairs[j].key.text \in NamesOf(sent) /\ pairs[j] = PairOf(sent, pairs[j].key.text)
      BY <1>5, <1>8, <2>2 DEF Carries
    <2>4. \A j, k \in DOMAIN pairs :
             pairs[j].key.text \in Signing /\ pairs[k].key.text = pairs[j].key.text => j = k
      BY <1>5, <1>6, <1>8 DEF Carries
    <2>5. \A name \in NamesOf(sent) : \E j \in DOMAIN pairs : pairs[j].key.text = name
      BY <1>5, <1>6, <1>8 DEF Carries
    <2>. QED BY <2>1, <2>3, <2>4, <2>5 DEF Carries
  <1> HIDE DEF touches
  <1>. QED BY <1>2, <1>5, <1>7, <1>8, EditedStep

\* An unrelated pair in front or at the end leaves the others.
LEMMA AddUnrelated ==
    ASSUME NEW x \in Sent, NEW s \in Seq(Pairs), Carries(s, x, NamesOf(x)),
           NEW t \in Seq(Pairs), NEW n, t[n].key.text \notin Signing, t[n].key.form # "bad",
           NEW f, \A j \in DOMAIN s : f[j] \in DOMAIN t /\ t[f[j]] = s[j],
           \A j \in DOMAIN t : j # n => \E k \in DOMAIN s : j = f[k]
    PROVE  Carries(t, x, NamesOf(x))
  <1>0. ASSUME NEW j \in DOMAIN t, j # n PROVE \E k \in DOMAIN s : t[j] = s[k]
    <2>1. PICK k \in DOMAIN s : j = f[k]
      BY <1>0
    <2>. QED BY <2>1
  <1>1. ASSUME NEW j \in DOMAIN t PROVE t[j].key.form # "bad"
    BY <1>0 DEF Carries
  <1>2. ASSUME NEW j \in DOMAIN t, t[j].key.text \in Signing
        PROVE  t[j].key.text \in NamesOf(x) /\ t[j] = PairOf(x, t[j].key.text)
    <2>1. PICK k \in DOMAIN s : t[j] = s[k]
      BY <1>0, <1>2
    <2>. QED BY <1>2, <2>1 DEF Carries
  <1>3. ASSUME NEW i \in DOMAIN t, NEW j \in DOMAIN t,
               t[i].key.text \in Signing, t[j].key.text = t[i].key.text
        PROVE  i = j
    <2>1. PICK k \in DOMAIN s : i = f[k]
      BY <1>3
    <2>2. PICK l \in DOMAIN s : j = f[l]
      BY <1>3
    <2>3. t[i] = s[k] /\ t[j] = s[l]
      BY <2>1, <2>2
    <2>4. k = l
      BY <1>3, <2>3 DEF Carries
    <2>. QED BY <2>1, <2>2, <2>4
  <1>4. ASSUME NEW name \in NamesOf(x) PROVE \E i \in DOMAIN t : t[i].key.text = name
    <2>1. PICK k \in DOMAIN s : s[k].key.text = name
      BY DEF Carries
    <2>2. f[k] \in DOMAIN t /\ t[f[k]].key.text = name
      BY <2>1
    <2>. QED BY <2>2
  <1>. QED BY <1>1, <1>2, <1>3, <1>4 DEF Carries

\* A pair is added, and it is not a signature.
LEMMA AddStep ==
    ASSUME RInv, NEW pair \in Additions, NEW front \in BOOLEAN, Add(pair, front)
    PROVE  RInv'
  <1> DEFINE pairs == IF front THEN <<pair>> \o query ELSE query \o <<pair>>
             touches == pair.key.text \in Signing
             n == IF front THEN 1 ELSE Len(query) + 1
             f == [j \in DOMAIN query |-> IF front THEN j + 1 ELSE j]
  <1>1. sent \in Sent /\ query \in Seq(Pairs) /\ Genuine(query, sent)
    BY DEF RInv
  <1>2. Edited(pairs, touches) /\ touches \in BOOLEAN
    BY DEF Add
  <1>3. pair \in Pairs /\ pair.key.form = "escaped" /\ pair.key.text # "Signature"
    <2>1. sent.parameter \in {"SAMLRequest", "SAMLResponse"}
      BY <1>1 DEF Sent
    <2>2. PICK name \in {"utm", "RelayState", sent.parameter}, written \in {"x"} \cup Messages \cup Relays :
             pair = Pair(name, written)
      BY DEF Additions
    <2>3. name \in Names /\ written \in Texts /\ name # "Signature"
      BY <2>1, <2>2 DEF Names, Texts, Signing
    <2>. QED BY <2>2, <2>3 DEF Pair, Raw, Pairs, Forms
  <1>4. /\ Len(query) \in Nat /\ DOMAIN query = 1..Len(query)
        /\ pairs \in Seq(Pairs) /\ DOMAIN pairs = 1..(Len(query) + 1)
        /\ pairs[n] = pair /\ n \in 1..(Len(query) + 1)
        /\ \A j \in DOMAIN query : f[j] \in DOMAIN pairs /\ pairs[f[j]] = query[j]
    <2>1. <<pair>> \in Seq(Pairs)
      BY <1>3
    <2>2. CASE front
      BY <1>1, <2>1, <2>2
    <2>3. CASE ~front
      BY <1>1, <2>1, <2>3
    <2>. QED BY <2>2, <2>3
  <1>5. ASSUME NEW j \in DOMAIN pairs, j # n PROVE \E k \in DOMAIN query : j = f[k]
    <2>1. j \in 1..(Len(query) + 1) /\ Len(query) \in Nat /\ DOMAIN query = 1..Len(query)
      BY <1>4
    <2> HIDE DEF pairs
    <2>2. CASE front
      <3>1. j - 1 \in DOMAIN query /\ j = f[j - 1]
        BY <1>5, <2>1, <2>2
      <3>. QED BY <3>1
    <2>3. CASE ~front
      <3>1. j \in DOMAIN query /\ j = f[j]
        BY <1>5, <2>1, <2>3
      <3>. QED BY <3>1
    <2>. QED BY <2>2, <2>3
  <1> HIDE DEF pairs, n, f
  <1>6. Genuine(pairs, sent)
    <2>1. ASSUME NEW j \in DOMAIN pairs, pairs[j].key.text = "Signature"
          PROVE  \E k \in DOMAIN query : /\ query[k].key.text = "Signature"
                                         /\ query[k].value.text = pairs[j].value.text
      <3>1. PICK k \in DOMAIN query : j = f[k]
        BY <1>3, <1>4, <1>5, <2>1
      <3>2. pairs[j] = query[k]
        BY <1>4, <3>1
      <3>. QED BY <2>1, <3>2
    <2>. QED BY <1>1, <2>1, GenuineStays
  <1>7. ASSUME ~touches, Carries(query, sent, NamesOf(sent))
        PROVE  Carries(pairs, sent, NamesOf(sent))
    <2>1. pairs[n].key.text \notin Signing /\ pairs[n].key.form # "bad"
      BY <1>3, <1>4, <1>7
    <2>2. \A j \in DOMAIN pairs : j # n => \E k \in DOMAIN query : j = f[k]
      BY <1>5
    <2>3. pairs \in Seq(Pairs)
      BY <1>4
    <2>4. \A j \in DOMAIN query : f[j] \in DOMAIN pairs /\ pairs[f[j]] = query[j]
      BY <1>4
    <2> HIDE DEF touches
    <2>. QED BY <1>1, <1>7, <2>1, <2>2, <2>3, <2>4, AddUnrelated
  <1> HIDE DEF touches
  <1>. QED BY <1>2, <1>4, <1>6, <1>7, EditedStep

-----------------------------------------------------------------------------
\* The receivers.

\* redirectParameters lets no parameter that takes part in a signature occur twice.
LEMMA OccursOnce ==
    ASSUME query \in Seq(Pairs), ~ParametersFail, NEW name \in Signing,
           NEW i \in Occurs(name), NEW j \in Occurs(name)
    PROVE  i = j
  <1>1. DOMAIN query = 1..Len(query) /\ Len(query) \in Nat
    OBVIOUS
  <1>2. IsFiniteSet(DOMAIN query)
    BY <1>1, FS_Interval
  <1>3. IsFiniteSet(Occurs(name))
    BY <1>2, FS_Subset DEF Occurs
  <1>4. ~(Cardinality(Occurs(name)) > 1)
    BY DEF ParametersFail
  <1>. QED BY <1>3, <1>4, AtMostOne

\* Parameter finds what occurs.
LEMMA Found ==
    ASSUME query \in Seq(Pairs), ~ParametersFail, NEW name \in Signing, NEW i \in Occurs(name)
    PROVE  Parameter(name) = query[i].value
  <1>1. (CHOOSE j \in Occurs(name) : TRUE) \in Occurs(name)
    OBVIOUS
  <1>2. (CHOOSE j \in Occurs(name) : TRUE) = i
    BY <1>1, OccursOnce
  <1>. QED BY <1>2 DEF Parameter

\* url.Values has the same value for it, if it has one.
LEMMA SameValue ==
    ASSUME query \in Seq(Pairs), ~ParametersFail, NEW name \in Signing, Has(name)
    PROVE  Occurs(name) # {} /\ Get(name) = Parameter(name).text
  <1>1. Positions(name) \subseteq Occurs(name)
    BY DEF Positions, Parsed, Occurs
  <1>2. PICK i \in Positions(name) : TRUE
    BY DEF Has
  <1>3. \A j \in Positions(name) : j = i
    BY <1>1, OccursOnce
  <1>4. i \in Nat
    BY DEF Positions
  <1>5. (CHOOSE k \in Positions(name) : \A j \in Positions(name) : k <= j) = i
    <2>1. \A j \in Positions(name) : i <= j
      BY <1>3, <1>4
    <2>. QED BY <1>3, <2>1
  <1>6. Get(name) = query[i].value.text
    BY <1>5 DEF Get
  <1>. QED BY <1>1, <1>6, Found

\* What verifyRedirectSignature accepts is what the sender has signed.
LEMMA VerifiedIsSent ==
    ASSUME RInv, NEW parameter \in {"SAMLRequest", "SAMLResponse"},
           VerifyRedirectSignature(parameter)
    PROVE  /\ ~ParametersFail /\ sent.key \in trusted \ Expired
           /\ parameter = sent.parameter /\ Parameter(parameter) = Raw(sent.message, "escaped")
           /\ Occurs("RelayState") # {} => Parameter("RelayState") = Raw(sent.relay, "escaped")
  <1> DEFINE relays == IF Occurs("RelayState") = {} THEN <<>> ELSE <<Parameter("RelayState")>>
             written == SignedText(parameter, Parameter(parameter), relays, Parameter("SigAlg"))
  <1>1. ~ParametersFail /\ Occurs("Signature") # {}
    BY DEF VerifyRedirectSignature
  <1>2. PICK key \in trusted \ Expired : Parameter("Signature").text = [key |-> key, over |-> written]
    BY DEF VerifyRedirectSignature, VerifyDigest
  <1>3. PICK i \in Occurs("Signature") : TRUE
    BY <1>1
  <1>4. i \in DOMAIN query /\ query[i].key.text = "Signature"
    BY DEF Occurs
  <1>5. Parameter("Signature") = query[i].value
    <2>1. "Signature" \in Signing /\ query \in Seq(Pairs)
      BY DEF Signing, RInv
    <2>. QED BY <1>1, <2>1, Found
  <1>6. query[i].value.text = SignatureOf(sent)
    BY <1>4 DEF RInv, Genuine
  <1> DEFINE theirs == SignedText(sent.parameter, Raw(sent.message, "escaped"), RelaysOf(sent),
                                  Raw(KeyType[sent.key], "escaped"))
  <1>7. [key |-> key, over |-> written] = [key |-> sent.key, over |-> theirs]
    BY <1>2, <1>5, <1>6 DEF SignatureOf
  <1>8. sent.key = key /\ written = theirs
    <2> HIDE DEF written, theirs
    <2>. QED BY <1>7
  <1>9. (relays = <<>> \/ \E r : relays = <<r>>) /\ (RelaysOf(sent) = <<>> \/ \E r : RelaysOf(sent) = <<r>>)
    BY DEF RelaysOf
  <1>10. relays = RelaysOf(sent) /\ parameter = sent.parameter
         /\ Parameter(parameter) = Raw(sent.message, "escaped")
    <2> HIDE DEF relays
    <2>. QED BY <1>8, <1>9, TextTells
  <1>11. Occurs("RelayState") # {} => Parameter("RelayState") = Raw(sent.relay, "escaped")
    BY <1>10 DEF RelaysOf
  <1>. QED BY <1>1, <1>2, <1>8, <1>10, <1>11

\* What the two receivers accept.
LEMMA ReceivedIsSigned ==
    ASSUME RInv, NEW result,
           result = IF sent.parameter = "SAMLRequest" THEN IdpReceive ELSE SpReceive,
           result.is = "accepted"
    PROVE  /\ required \/ sent.parameter = "SAMLResponse" => result.signed
           /\ result.signed => /\ sent.key \in trusted \ Expired
                               /\ result.message = sent.message
                               /\ sent.parameter = "SAMLRequest" => result.relay \in {sent.relay, ""}
  <1>0. sent.parameter \in {"SAMLRequest", "SAMLResponse"} /\ query \in Seq(Pairs)
    BY DEF RInv, Sent
  <1>1. Refused.is # "accepted"
    BY DEF Refused
  <1>2. CASE sent.parameter = "SAMLRequest"
    <2> DEFINE signedQuery == Has("Signature") \/ Has("SigAlg")
               relay == IF Has("RelayState") THEN Get("RelayState") ELSE ""
    <2>1. /\ result = Accepted(Get("SAMLRequest"), relay, signedQuery)
          /\ Has("SAMLRequest")
          /\ IF signedQuery THEN VerifyRedirectSignature("SAMLRequest") ELSE ~required
      BY <1>1, <1>2 DEF IdpReceive
    <2> HIDE DEF relay, signedQuery
    <2>2. result.signed = signedQuery /\ result.message = Get("SAMLRequest") /\ result.relay = relay
      BY <2>1 DEF Accepted
    <2>3. required => signedQuery
      BY <2>1
    <2>4. ASSUME signedQuery
          PROVE  /\ sent.key \in trusted \ Expired /\ Get("SAMLRequest") = sent.message
                 /\ relay \in {sent.relay, ""}
      <3>1. /\ ~ParametersFail /\ sent.key \in trusted \ Expired
            /\ Parameter("SAMLRequest") = Raw(sent.message, "escaped")
            /\ Occurs("RelayState") # {} => Parameter("RelayState") = Raw(sent.relay, "escaped")
        BY <2>1, <2>4, VerifiedIsSent
      <3>2. Get("SAMLRequest") = Parameter("SAMLRequest").text
        BY <1>0, <2>1, <3>1, SameValue DEF Signing
      <3>3. Has("RelayState") => Get("RelayState") = sent.relay
        BY <1>0, <3>1, SameValue DEF Signing, Raw
      <3>4. relay \in {sent.relay, ""}
        BY <3>3 DEF relay
      <3>5. Raw(sent.message, "escaped").text = sent.message
        BY DEF Raw
      <3>. QED BY <3>1, <3>2, <3>4, <3>5
    <2>. QED BY <1>2, <2>2, <2>3, <2>4
  <1>3. CASE sent.parameter = "SAMLResponse"
    <2>1. /\ result = Accepted(Parameter("SAMLResponse").text, "", TRUE)
          /\ VerifyRedirectSignature("SAMLResponse")
      BY <1>1, <1>3 DEF SpReceive
    <2> DEFINE got == Parameter("SAMLResponse").text
    <2>2. result.signed /\ result.message = got
      <3> HIDE DEF got
      <3>1. Accepted(got, "", TRUE).signed /\ Accepted(got, "", TRUE).message = got
        BY DEF Accepted
      <3>2. result = Accepted(got, "", TRUE)
        BY <2>1 DEF got
      <3>. QED BY <3>1, <3>2, Zenon
    <2>3. sent.key \in trusted \ Expired /\ Parameter("SAMLResponse") = Raw(sent.message, "escaped")
      BY <2>1, VerifiedIsSent
    <2>. QED BY <1>3, <2>2, <2>3 DEF Raw
  <1>. QED BY <1>0, <1>2, <1>3

\* In a query that carries the message as it was sent, every parameter of it occurs
\* once and no other does.
LEMMA OccursAsSent ==
    ASSUME sent \in Sent, query \in Seq(Pairs), Carries(query, sent, NamesOf(sent))
    PROVE  /\ \A name \in NamesOf(sent) : \E i \in DOMAIN query :
                 /\ Occurs(name) = {i} /\ Positions(name) = {i} /\ query[i] = PairOf(sent, name)
           /\ \A name \in Signing \ NamesOf(sent) : Occurs(name) = {} /\ Positions(name) = {}
           /\ ~ParametersFail
  <1>1. ASSUME NEW name \in NamesOf(sent)
        PROVE  \E i \in DOMAIN query :
                 /\ Occurs(name) = {i} /\ Positions(name) = {i} /\ query[i] = PairOf(sent, name)
    <2>1. /\ name \in Signing /\ PairOf(sent, name).key = Raw(name, "escaped")
          /\ PairOf(sent, name).value.form = "escaped"
      BY <1>1, PairsOf
    <2>2. PICK i \in DOMAIN query : query[i].key.text = name
      BY <1>1 DEF Carries
    <2>3. query[i] = PairOf(sent, name) /\ \A j \in DOMAIN query : query[j].key.text = name => i = j
      BY <2>1, <2>2 DEF Carries
    <2>4. query[i].key.form = "escaped" /\ query[i].value.form = "escaped"
      BY <2>1, <2>3 DEF Raw
    <2>5. Occurs(name) = {i}
      BY <2>2, <2>3, <2>4 DEF Occurs
    <2>6. Positions(name) = {i}
      BY <2>2, <2>3, <2>4 DEF Positions, Parsed
    <2>. QED BY <2>3, <2>5, <2>6
  <1>2. \A name \in Signing \ NamesOf(sent) : Occurs(name) = {} /\ Positions(name) = {}
    BY DEF Carries, Occurs, Positions
  <1>3. ASSUME NEW name \in Signing PROVE ~(Cardinality(Occurs(name)) > 1)
    <2>1. CASE name \in NamesOf(sent)
      <3>1. PICK i : Occurs(name) = {i}
        BY <1>1, <2>1
      <3>2. Cardinality({i}) = 1
        BY FS_Singleton
      <3>. QED BY <3>1, <3>2
    <2>2. CASE name \notin NamesOf(sent)
      <3>1. Occurs(name) = {} /\ Cardinality({}) = 0
        BY <1>2, <2>2, FS_EmptySet
      <3>. QED BY <3>1
    <2>. QED BY <2>1, <2>2
  <1>4. ~ParametersFail
    BY <1>3 DEF Carries, ParametersFail
  <1>. QED BY <1>1, <1>2, <1>4

\* Both readers of the query find each parameter as it was sent.
LEMMA ReadAsSent ==
    ASSUME sent \in Sent, query \in Seq(Pairs), Carries(query, sent, NamesOf(sent)),
           NEW name \in NamesOf(sent)
    PROVE  /\ Occurs(name) # {} /\ Parameter(name) = PairOf(sent, name).value
           /\ Has(name) /\ Get(name) = PairOf(sent, name).value.text
  <1>1. PICK i \in DOMAIN query :
           Occurs(name) = {i} /\ Positions(name) = {i} /\ query[i] = PairOf(sent, name)
    BY OccursAsSent
  <1>2. name \in Signing
    BY PairsOf
  <1>3. Parameter(name) = query[i].value
    BY <1>1, <1>2, OccursAsSent, Found
  <1>4. Has(name)
    BY <1>1 DEF Has
  <1>5. Get(name) = Parameter(name).text
    BY <1>2, <1>4, OccursAsSent, SameValue
  <1>. QED BY <1>1, <1>3, <1>4, <1>5

\* Such a query verifies, if the key is trusted.
LEMMA SentVerifies ==
    ASSUME sent \in Sent, query \in Seq(Pairs), Carries(query, sent, NamesOf(sent)),
           sent.key \in trusted \ Expired, sent.key \in Keys
    PROVE  VerifyRedirectSignature(sent.parameter)
  <1> DEFINE p == sent.parameter
  <1>1. p \in NamesOf(sent) /\ "SigAlg" \in NamesOf(sent) /\ "Signature" \in NamesOf(sent)
    BY KeyTypes DEF NamesOf
  <1>2. /\ Occurs(p) # {} /\ Parameter(p) = Raw(sent.message, "escaped")
        /\ Occurs("SigAlg") # {} /\ Parameter("SigAlg") = Raw(KeyType[sent.key], "escaped")
        /\ Occurs("Signature") # {} /\ Parameter("Signature") = Raw(SignatureOf(sent), "escaped")
    <2>1. ASSUME NEW name, NEW written PROVE Pair(name, written).value = Raw(written, "escaped")
      BY DEF Pair
    <2>. QED BY <1>1, <2>1, PairsOf, ReadAsSent
  <1> DEFINE relays == IF Occurs("RelayState") = {} THEN <<>> ELSE <<Parameter("RelayState")>>
  <1>3. relays = RelaysOf(sent)
    <2>1. CASE sent.relay = ""
      <3>1. "RelayState" \in Signing \ NamesOf(sent)
        BY <2>1 DEF Signing, NamesOf, Sent
      <3>2. Occurs("RelayState") = {}
        BY <3>1, OccursAsSent
      <3>. QED BY <2>1, <3>2 DEF RelaysOf
    <2>2. CASE sent.relay # ""
      <3>1. "RelayState" \in NamesOf(sent)
        BY <2>2 DEF NamesOf
      <3>2. Occurs("RelayState") # {} /\ Parameter("RelayState") = Pair("RelayState", sent.relay).value
        BY <3>1, PairsOf, ReadAsSent
      <3>. QED BY <2>2, <3>2 DEF RelaysOf, Pair
    <2>. QED BY <2>1, <2>2
  <1> DEFINE written == SignedText(p, Parameter(p), relays, Parameter("SigAlg"))
  <1>4. Parameter("Signature").text = [key |-> sent.key, over |-> written]
    <2> HIDE DEF relays
    <2>1. Parameter("Signature").text = SignatureOf(sent)
      BY <1>2 DEF Raw
    <2>2. SignatureOf(sent) = [key |-> sent.key, over |-> written]
      BY <1>2, <1>3 DEF SignatureOf
    <2>. QED BY <2>1, <2>2
  <1>5. Parameter("SigAlg").text = KeyType[sent.key]
    BY <1>2 DEF Raw
  <1>6. VerifyDigest(sent.key, Parameter("SigAlg").text, Parameter("Signature").text, written)
    <2> HIDE DEF written
    <2>. QED BY <1>4, <1>5 DEF VerifyDigest
  <1>7. Parameter("SigAlg").form = "escaped" /\ Parameter("Signature").form = "escaped"
    BY <1>2 DEF Raw
  <1>8. ~ParametersFail
    BY OccursAsSent
  <1>9. \A name \in {p, "SigAlg", "Signature"} : Occurs(name) # {}
    BY <1>2
  <1>. QED BY <1>6, <1>7, <1>8, <1>9 DEF VerifyRedirectSignature, Unescapes

\* It is accepted.
LEMMA SentIsReceived ==
    ASSUME RInv, ~altered, sent.key \in trusted \ Expired, NEW result,
           result = IF sent.parameter = "SAMLRequest" THEN IdpReceive ELSE SpReceive
    PROVE  /\ result.is = "accepted" /\ result.message = sent.message
           /\ sent.parameter = "SAMLRequest" => result.relay = sent.relay
  <1> DEFINE p == sent.parameter
  <1>1. /\ sent \in Sent /\ query \in Seq(Pairs) /\ Carries(query, sent, NamesOf(sent))
        /\ sent.key \in Keys /\ p \in {"SAMLRequest", "SAMLResponse"}
        /\ sent.message \in Messages
    BY KeyTypes DEF RInv, Sent
  <1>2. VerifyRedirectSignature(p)
    BY <1>1, SentVerifies
  <1>3. p \in NamesOf(sent) /\ "Signature" \in NamesOf(sent)
    BY <1>1, KeyTypes DEF NamesOf
  <1>4. /\ Has(p) /\ Get(p) = sent.message
        /\ Occurs(p) # {} /\ Parameter(p) = Raw(sent.message, "escaped")
        /\ Has("Signature") /\ Occurs("Signature") # {}
    <2>1. PairOf(sent, p).value = Raw(sent.message, "escaped")
      <3>1. PairOf(sent, p) = Pair(p, sent.message)
        BY <1>1, PairsOf
      <3>. QED BY <3>1 DEF Pair
    <2>2. Has(p) /\ Get(p) = Raw(sent.message, "escaped").text
          /\ Occurs(p) # {} /\ Parameter(p) = Raw(sent.message, "escaped")
      BY <1>1, <1>3, <2>1, ReadAsSent
    <2>3. Has("Signature") /\ Occurs("Signature") # {}
      BY <1>1, <1>3, ReadAsSent
    <2>. QED BY <2>2, <2>3 DEF Raw
  <1>5. CASE p = "SAMLRequest"
    <2> DEFINE relay == IF Has("RelayState") THEN Get("RelayState") ELSE ""
               signedQuery == Has("Signature") \/ Has("SigAlg")
    <2>1. relay = sent.relay
      <3>1. CASE sent.relay = ""
        <4>1. "RelayState" \in Signing \ NamesOf(sent)
          BY <1>1, <3>1 DEF Signing, NamesOf
        <4>2. ~Has("RelayState")
          BY <1>1, <4>1, OccursAsSent DEF Has
        <4>. QED BY <3>1, <4>2
      <3>2. CASE sent.relay # ""
        <4>1. "RelayState" \in NamesOf(sent)
          BY <3>2 DEF NamesOf
        <4>2. Has("RelayState") /\ Get("RelayState") = Pair("RelayState", sent.relay).value.text
          BY <1>1, <4>1, PairsOf, ReadAsSent
        <4>3. Pair("RelayState", sent.relay).value.text = sent.relay
          BY DEF Pair, Raw
        <4>. QED BY <4>2, <4>3
      <3>. QED BY <3>1, <3>2
    <2>2. IdpReceive = Accepted(Get("SAMLRequest"), relay, signedQuery)
      BY <1>1, <1>2, <1>4, <1>5 DEF IdpReceive, Decodes
    <2> HIDE DEF relay, signedQuery
    <2>3. result = Accepted(sent.message, sent.relay, signedQuery)
      BY <1>4, <1>5, <2>1, <2>2
    <2>. QED BY <2>3 DEF Accepted
  <1>6. CASE p = "SAMLResponse"
    <2>1. Parameter("SAMLResponse").form = "escaped" /\ Parameter("SAMLResponse").text = sent.message
      BY <1>4, <1>6 DEF Raw
    <2>2. ~ParametersFail
      BY <1>2 DEF VerifyRedirectSignature
    <2>3. SpReceive = Accepted(sent.message, "", TRUE)
      BY <1>1, <1>2, <1>4, <1>6, <2>1, <2>2 DEF SpReceive, Unescapes, Decodes
    <2>4. result = Accepted(sent.message, "", TRUE)
      BY <1>6, <2>3
    <2>5. result.is = "accepted" /\ result.message = sent.message
      <3> DEFINE body == sent.message
      <3> HIDE DEF body
      <3>1. /\ Accepted(body, "", TRUE).is = "accepted"
            /\ Accepted(body, "", TRUE).message = body
        BY DEF Accepted
      <3>. QED BY <2>4, <3>1, Zenon DEF body
    <2>. QED BY <1>6, <2>5
  <1>. QED BY <1>1, <1>5, <1>6

\* The receiver reads the query.
LEMMA ReceiveStep ==
    ASSUME RInv, Receive PROVE RInv'
  <1>1. /\ outcome' = IF sent.parameter = "SAMLRequest" THEN IdpReceive ELSE SpReceive
        /\ UNCHANGED <<sent, query, trusted, required, edits, altered>>
    BY DEF Receive
  <1>2. ProcessedIsSigned'
    BY <1>1, ReceivedIsSigned DEF ProcessedIsSigned
  <1>3. SignedArrives'
    BY <1>1, SentIsReceived DEF SignedArrives
  <1>. QED BY <1>1, <1>2, <1>3 DEF RInv

-----------------------------------------------------------------------------
\* The invariant holds, and with it what it is for.

\* The URL as redirectURLWithContext made it.
LEMMA Starts == Init => RInv
  <1> SUFFICES ASSUME Init PROVE RInv
    OBVIOUS
  <1>1. PICK parameter \in {"SAMLRequest", "SAMLResponse"}, body \in Messages, relay \in Relays,
             key \in Keys \cup {NoKey}, base \in Destinations :
          /\ sent = [parameter |-> parameter, message |-> body, relay |-> relay, key |-> key]
          /\ query = RedirectURL(base, parameter, body, relay, key)
          /\ trusted \in Certificates
          /\ required \in BOOLEAN
          /\ altered = FALSE
          /\ outcome = Pending
    BY DEF Init
  <1>2. /\ sent \in Sent /\ sent.parameter = parameter /\ sent.message = body
        /\ sent.relay = relay /\ sent.key = key
    BY <1>1 DEF Sent
  <1>3. query \in Seq(Pairs) /\ Carries(query, sent, NamesOf(sent))
    BY <1>1, <1>2, Made
  <1>4. Genuine(query, sent)
    <2> SUFFICES ASSUME NEW i \in DOMAIN query, query[i].key.text = "Signature"
                 PROVE  sent.key \in Keys /\ query[i].value.text = SignatureOf(sent)
      BY DEF Genuine
    <2>1. "Signature" \in NamesOf(sent) /\ query[i] = PairOf(sent, "Signature")
      BY <1>3 DEF Carries, Signing
    <2>2. sent.key \in Keys
      BY <1>2, <2>1 DEF NamesOf, Sent
    <2>3. PairOf(sent, "Signature") = Pair("Signature", SignatureOf(sent))
      BY <1>2, PairsOf
    <2>. QED BY <2>1, <2>2, <2>3 DEF Pair, Raw
  <1>5. ProcessedIsSigned /\ SignedArrives
    BY <1>1 DEF ProcessedIsSigned, SignedArrives, Pending
  <1>. QED BY <1>1, <1>2, <1>3, <1>4, <1>5 DEF RInv

\* Every change on the way and the receiver keep it.
LEMMA Kept == RInv /\ [Next]_vars => RInv'
  <1> SUFFICES ASSUME RInv, [Next]_vars PROVE RInv'
    OBVIOUS
  <1>1. CASE UNCHANGED vars
    BY <1>1 DEF vars, RInv, ProcessedIsSigned, SignedArrives
  <1>. QED BY <1>1, SwapStep, RewriteStep, DropStep, AddStep, ReceiveStep DEF Next

\* So it always holds.
LEMMA Invariant == Spec => []RInv
  <1>1. Init => RInv
    BY Starts
  <1>2. RInv /\ [Next]_vars => RInv'
    BY Kept
  <1>. QED BY <1>1, <1>2, PTL DEF Spec

\* What readRedirectRequest and ValidateLogoutResponseRedirect process of a signed
\* query is what a trusted key has signed, after any changes to the query and in any
\* encoding of its keys; and where a signature is wanted there is one.
THEOREM OnlyWhatWasSigned == Spec => []ProcessedIsSigned
  <1>1. RInv => ProcessedIsSigned
    BY DEF RInv
  <1>. QED BY <1>1, Invariant, PTL

\* A signed message is accepted, with its RelayState, whatever parameters the
\* destination has, whichever unrelated ones are added, changed or dropped, and in
\* whichever order they arrive.
THEOREM SignedGetsThrough == Spec => []SignedArrives
  <1>1. RInv => SignedArrives
    BY DEF RInv
  <1>. QED BY <1>1, Invariant, PTL

-----------------------------------------------------------------------------
\* Encryption: the layers of a message.

\* A set of indices has a least one.
LEMMA LeastIndex ==
    ASSUME NEW S, S \subseteq Nat, S # {}
    PROVE  \E x \in S : \A y \in S : x <= y
  <1>1. IsWellFoundedOn(OpToRel(<, Nat), Nat)
    BY NatLessThanWellFounded
  <1>2. PICK x \in S : \A y \in S : ~(<<y, x>> \in OpToRel(<, Nat))
    BY <1>1, WFMin
  <1>3. \A y \in S : ~(y < x)
    BY <1>2 DEF OpToRel
  <1>. QED BY <1>3

\* Keys from the last n of d layers on: each layer is read with the one after it.
KeysFrom(conf, key, layers, d, n, f) ==
    f = [i \in (d + 1 - n)..(d + 1) |->
           IF i = d + 1 THEN key ELSE ENC!DecryptLayer(conf, f[i + 1], layers[i])]

\* There are such keys, for any number of layers.
LEMMA KeysExist ==
    ASSUME NEW conf, NEW key, NEW layers, NEW d \in Nat
    PROVE  \E f : KeysFrom(conf, key, layers, d, d, f)
  <1> DEFINE S == {n \in Nat : n <= d /\ ~\E f : KeysFrom(conf, key, layers, d, n, f)}
  <1> SUFFICES ASSUME S # {} PROVE FALSE
    OBVIOUS
  <1>1. PICK n \in S : \A k \in S : n <= k
    BY LeastIndex
  <1>2. n \in Nat /\ n <= d /\ ~\E f : KeysFrom(conf, key, layers, d, n, f)
    BY <1>1
  <1>3. CASE n = 0
    <2> DEFINE f == [i \in (d + 1)..(d + 1) |-> key]
    <2>1. f = [i \in (d + 1 - 0)..(d + 1) |->
                 IF i = d + 1 THEN key ELSE ENC!DecryptLayer(conf, f[i + 1], layers[i])]
      OBVIOUS
    <2>2. KeysFrom(conf, key, layers, d, 0, f)
      BY <2>1 DEF KeysFrom
    <2>. QED BY <1>2, <1>3, <2>2
  <1>4. CASE n # 0
    <2>1. n - 1 \in Nat /\ n - 1 <= d /\ ~(n <= n - 1)
      BY <1>2, <1>4
    <2>2. PICK f : KeysFrom(conf, key, layers, d, n - 1, f)
      BY <1>1, <2>1
    <2> DEFINE low == d + 1 - n
               g == [i \in low..(d + 1) |->
                       IF i = low THEN ENC!DecryptLayer(conf, f[i + 1], layers[i]) ELSE f[i]]
    <2>3. low \in Nat /\ low # d + 1 /\ d + 1 - (n - 1) = low + 1 /\ low < d + 1
      BY <1>2, <1>4
    <2>4. f = [i \in (low + 1)..(d + 1) |->
                 IF i = d + 1 THEN key ELSE ENC!DecryptLayer(conf, f[i + 1], layers[i])]
      BY <2>2, <2>3 DEF KeysFrom
    <2>5. \A i \in low..(d + 1) :
             g[i] = IF i = d + 1 THEN key ELSE ENC!DecryptLayer(conf, g[i + 1], layers[i])
      <3> SUFFICES ASSUME NEW i \in low..(d + 1)
                   PROVE  g[i] = IF i = d + 1 THEN key
                                 ELSE ENC!DecryptLayer(conf, g[i + 1], layers[i])
        OBVIOUS
      <3>1. i # d + 1 => i + 1 \in low..(d + 1) /\ i + 1 # low /\ g[i + 1] = f[i + 1]
        BY <2>3
      <3>2. CASE i = low
        BY <2>3, <3>1, <3>2
      <3>3. CASE i # low
        <4>1. i \in (low + 1)..(d + 1)
          BY <2>3, <3>3
        <4>2. g[i] = f[i]
          BY <3>3
        <4>3. f[i] = IF i = d + 1 THEN key ELSE ENC!DecryptLayer(conf, f[i + 1], layers[i])
          BY <2>4, <4>1
        <4>. QED BY <3>1, <4>2, <4>3
      <3>. QED BY <3>2, <3>3
    <2>6. g = [i \in low..(d + 1) |->
                 IF i = d + 1 THEN key ELSE ENC!DecryptLayer(conf, g[i + 1], layers[i])]
      <3>1. g = [i \in low..(d + 1) |-> g[i]]
        OBVIOUS
      <3> HIDE DEF g
      <3>. QED BY <2>5, <3>1
    <2>7. KeysFrom(conf, key, layers, d, n, g)
      BY <2>6 DEF KeysFrom
    <2>. QED BY <1>2, <2>7
  <1>. QED BY <1>3, <1>4

\* Decrypt goes through all layers, where RSA is the last of them.
LEMMA Unfolds ==
    ASSUME NEW conf, NEW key, NEW layers, Len(layers) \in Nat \ {0},
           DOMAIN layers = 1..Len(layers), ENC!Layers(layers)
    PROVE  \E f : /\ ENC!Decrypt(conf, key, layers) = f[1] /\ f[Len(layers) + 1] = key
                  /\ \A i \in 1..Len(layers) : f[i] = ENC!DecryptLayer(conf, f[i + 1], layers[i])
  <1> DEFINE n == Len(layers)
             F(d) == CHOOSE f : f = [i \in 1..(d + 1) |->
                        IF i = d + 1 THEN key ELSE ENC!DecryptLayer(conf, f[i + 1], layers[i])]
             having == {i \in DOMAIN layers : layers[i].method \in ENC!RsaMethod}
             last == IF having = {} THEN None ELSE CHOOSE i \in having : \A j \in having : i <= j
  <1>1. having = {} \/ having = {n}
    BY DEF ENC!Layers
  <1>2. (IF last = None THEN n ELSE last) = n
    <2>1. having = {n} => (CHOOSE i \in having : \A j \in having : i <= j) = n
      BY <1>1
    <2>. QED BY <1>1, <2>1
  <1>3. ENC!Decrypt(conf, key, layers) = F(IF last = None THEN n ELSE last)[1]
    BY DEF ENC!Decrypt, ENC!FirstOf
  <1>4. ENC!Decrypt(conf, key, layers) = F(n)[1]
    <2> DEFINE depth == IF last = None THEN n ELSE last
    <2>1. depth = n /\ ENC!Decrypt(conf, key, layers) = F(depth)[1]
      BY <1>2, <1>3
    <2> HIDE DEF F, depth
    <2>. QED BY <2>1
  <1>5. \E f : f = [i \in 1..(n + 1) |->
                      IF i = n + 1 THEN key ELSE ENC!DecryptLayer(conf, f[i + 1], layers[i])]
    <2>1. n \in Nat /\ n + 1 - n = 1
      OBVIOUS
    <2> HIDE DEF n
    <2>2. PICK f : KeysFrom(conf, key, layers, n, n, f)
      BY <2>1, KeysExist
    <2>. QED BY <2>1, <2>2 DEF KeysFrom
  <1>6. F(n) = [i \in 1..(n + 1) |->
                  IF i = n + 1 THEN key ELSE ENC!DecryptLayer(conf, F(n)[i + 1], layers[i])]
    BY <1>5
  <1> DEFINE f == F(n)
  <1> HIDE DEF F, f
  <1>7. /\ f[n + 1] = key
        /\ \A i \in 1..n : f[i] = ENC!DecryptLayer(conf, f[i + 1], layers[i])
    <2>1. f = [i \in 1..(n + 1) |->
                  IF i = n + 1 THEN key ELSE ENC!DecryptLayer(conf, f[i + 1], layers[i])]
      BY <1>6 DEF f
    <2>. QED BY <2>1
  <1>8. ENC!Decrypt(conf, key, layers) = f[1]
    BY <1>4 DEF f
  <1>. QED BY <1>7, <1>8

\* What the assumption says of the values that stand for something else.
LEMMA Apart ==
    /\ SpKey \in RsaKey /\ None # Error
    /\ \A k \in ENC!ByteKey : k \notin RsaKey
    /\ \A x \in {None, Clear, Error} :
          /\ x \notin RsaKey /\ x \notin Nat /\ x \notin ENC!Message
          /\ x \notin ENC!ByteKey /\ x \notin ENC!Content /\ x \notin ENC!CipherValue
  BY EncryptionAssumption

\* A layer that is read has a registered method, and was encrypted under the key that it
\* is read with: the service provider's, or one of the right length.
LEMMA LayerRead ==
    ASSUME NEW conf, NEW key, NEW layer, ENC!DecryptLayer(conf, key, layer) # Error
    PROVE  /\ key # Error /\ layer.method \in ENC!Decrypters(conf)
           /\ layer.cipher # None /\ layer.cipher.key = key
           /\ layer.method \in ENC!RsaMethod =>
                 /\ key = SpKey /\ layer.cipher.intact /\ layer.cipher.mode = layer.method
                 /\ ENC!DecryptLayer(conf, key, layer) = layer.cipher.value
           /\ layer.method \notin ENC!RsaMethod =>
                 /\ key # SpKey /\ key.len = ENC!KeySize(layer.method)
                 /\ ENC!DecryptLayer(conf, key, layer) =
                      IF layer.method \in ENC!GcmMethod THEN ENC!GcmDecrypt(key, layer)
                      ELSE ENC!CbcDecrypt(key, layer)
  <1> DEFINE r == ENC!DecryptLayer(conf, key, layer)
  <1>1. key # Error /\ layer.method \in ENC!Decrypters(conf)
    <2>1. CASE key = Error
      <3>1. ENC!RsaDecrypt(key, layer) = Error
        BY <2>1, Apart DEF ENC!RsaDecrypt, ENC!ValidateRSAKeyIfPresent
      <3>. QED BY <2>1, <3>1 DEF ENC!DecryptLayer
    <2>2. CASE layer.method \notin ENC!Decrypters(conf)
      BY <2>2 DEF ENC!DecryptLayer
    <2>. QED BY <2>1, <2>2
  <1>2. CASE layer.method \in ENC!RsaMethod
    <2>1. r = ENC!RsaDecrypt(key, layer)
      BY <1>1, <1>2 DEF ENC!DecryptLayer
    <2>. QED BY <1>1, <1>2, <2>1 DEF ENC!RsaDecrypt, ENC!ValidateRSAKeyIfPresent
  <1>3. CASE layer.method \notin ENC!RsaMethod
    <2>1. r = IF key = SpKey \/ key.len # ENC!KeySize(layer.method) THEN Error
              ELSE IF layer.method \in ENC!GcmMethod THEN ENC!GcmDecrypt(key, layer)
              ELSE ENC!CbcDecrypt(key, layer)
      BY <1>1, <1>3 DEF ENC!DecryptLayer
    <2>2. key # SpKey /\ key.len = ENC!KeySize(layer.method)
      BY <2>1
    <2>3. CASE layer.method \in ENC!GcmMethod
      BY <1>1, <1>3, <2>1, <2>2, <2>3 DEF ENC!GcmDecrypt
    <2>4. CASE layer.method \notin ENC!GcmMethod
      BY <1>1, <1>3, <2>1, <2>2, <2>4 DEF ENC!CbcDecrypt
    <2>. QED BY <2>3, <2>4
  <1>. QED BY <1>2, <1>3

\* Padding is stripped again, of anything that is not empty, and fills whole blocks.
LEMMA Padded ==
    ASSUME NEW x \in ENC!Content, x.len >= 1, NEW size \in {8, 16}
    PROVE  LET padded == ENC!AppendPadding(x, size) IN
           /\ ENC!StripPadding(padded) = x
           /\ padded.len \in Nat /\ padded.len >= 1 /\ (size + padded.len) % size = 0
           /\ padded.last \in 1..size
  <1> DEFINE n == x.len
             pad == size - (n % size)
             padded == ENC!AppendPadding(x, size)
  <1>1. n \in Nat
    BY DEF ENC!Content
  <1>2. padded = [of |-> x, len |-> n + pad, last |-> pad]
    BY DEF ENC!AppendPadding
  <1>3. pad \in 1..size /\ (size + (n + pad)) % size = 0
    BY <1>1
  <1> HIDE DEF pad, padded
  <1>4. /\ padded.len = n + pad /\ padded.last = pad /\ padded.of = x
        /\ n + pad >= 1 /\ ~(pad > n + pad - 1) /\ ~(pad < 1) /\ n + pad - pad = n
    BY <1>1, <1>2, <1>3
  <1>5. ~(padded.len < 1 \/ padded.last > padded.len - 1 \/ padded.last < 1)
    BY <1>1, <1>3, <1>4
  <1>6. ENC!StripPadding(padded) = [x EXCEPT !.len = n]
    <2>1. ENC!StripPadding(padded) = [padded.of EXCEPT !.len = padded.len - padded.last]
      BY <1>5 DEF ENC!StripPadding
    <2>2. padded.len - padded.last = n
      BY <1>1, <1>3, <1>4
    <2>. QED BY <1>4, <2>1, <2>2
  <1>7. [x EXCEPT !.len = n] = x
    BY DEF ENC!Content
  <1>. QED BY <1>1, <1>3, <1>4, <1>6, <1>7 DEF padded

\* What is read of a layer that is as it was encrypted is what it holds.
LEMMA ContentRead ==
    ASSUME NEW conf, NEW key, NEW layer, ENC!DecryptLayer(conf, key, layer) # Error,
           NEW x \in ENC!Content, x.len >= 1, ENC!Holds(layer, x)
    PROVE  ENC!DecryptLayer(conf, key, layer) = x
  <1> DEFINE c == layer.cipher
  <1>1. c # None /\ layer.method \in ENC!Decrypters(conf)
    BY LayerRead
  <1>2. CASE layer.method \in ENC!RsaMethod
    <2>1. c.mode # "cbc"
      BY <1>2, LayerRead DEF ENC!RsaMethod
    <2>. QED BY <1>1, <1>2, <2>1, LayerRead DEF ENC!Holds
  <1>3. CASE layer.method \notin ENC!RsaMethod /\ layer.method \in ENC!GcmMethod
    <2>1. ENC!DecryptLayer(conf, key, layer) = ENC!GcmDecrypt(key, layer)
      BY <1>3, LayerRead
    <2>2. c.mode = "gcm" /\ ENC!GcmDecrypt(key, layer) = c.value
      BY <2>1 DEF ENC!GcmDecrypt
    <2>. QED BY <1>1, <2>1, <2>2 DEF ENC!Holds
  <1>4. CASE layer.method \notin ENC!RsaMethod /\ layer.method \notin ENC!GcmMethod
    <2>1. ENC!DecryptLayer(conf, key, layer) = ENC!CbcDecrypt(key, layer)
      BY <1>4, LayerRead
    <2>2. c.mode = "cbc" /\ ENC!CbcDecrypt(key, layer) = ENC!StripPadding(c.value)
      BY <2>1 DEF ENC!CbcDecrypt
    <2>3. layer.method \in ENC!CbcMethod
      BY <1>1, <1>4 DEF ENC!Decrypters, ENC!RsaMethod
    <2>4. c = ENC!CbcEncrypt(layer.method, c.key, x)
      BY <1>1, <2>2, <2>3 DEF ENC!Holds
    <2>5. c.value = ENC!AppendPadding(x, ENC!BlockSize(layer.method))
      BY <2>4 DEF ENC!CbcEncrypt, ENC!Cipher
    <2>6. ENC!BlockSize(layer.method) \in {8, 16}
      BY DEF ENC!BlockSize
    <2>. QED BY <2>1, <2>2, <2>5, <2>6, Padded
  <1>. QED BY <1>2, <1>3, <1>4

\* The CipherValue of a damaged message.
Cut(c, cut, last) ==
    [c EXCEPT !.len = c.len - cut, !.intact = FALSE,
              !.value = IF c.mode # "cbc" THEN c.value
                        ELSE [of |-> [is |-> "damaged", len |-> 0],
                              len |-> IF cut >= c.value.len THEN 0 ELSE c.value.len - cut,
                              last |-> last]]

\* What is read of a layer that was damaged: only under CBC anything, whole blocks of it,
\* and less than they hold.
LEMMA DamagedRead ==
    ASSUME NEW conf, NEW key, NEW layer \in ENC!Layer, layer.cipher # None,
           NEW x \in ENC!Content, x.len >= 1, ENC!Holds(layer, x),
           NEW cut \in 0..layer.cipher.len, NEW last \in Nat,
           NEW damaged, damaged.method = layer.method,
           damaged.cipher = Cut(layer.cipher, cut, last),
           ENC!DecryptLayer(conf, key, damaged) # Error
    PROVE  LET r == ENC!DecryptLayer(conf, key, damaged) IN
           /\ damaged.cipher.mode = "cbc"
           /\ damaged.cipher.len % ENC!BlockSize(damaged.method) = 0
           /\ 0 < r.len /\ r.len < damaged.cipher.len - ENC!BlockSize(damaged.method)
  <1> DEFINE c == layer.cipher
             e == damaged.cipher
             size == ENC!BlockSize(layer.method)
             r == ENC!DecryptLayer(conf, key, damaged)
             padded == ENC!AppendPadding(x, size)
             v == [of |-> [is |-> "damaged", len |-> 0],
                   len |-> IF cut >= padded.len THEN 0 ELSE padded.len - cut, last |-> last]
  <1>1. c \in ENC!CipherValue
    BY DEF ENC!Layer
  <1>2. /\ e.len = c.len - cut /\ e.intact = FALSE /\ e.mode = c.mode /\ e.key = c.key
        /\ c.mode = "cbc" =>
              e.value = [of |-> [is |-> "damaged", len |-> 0],
                         len |-> IF cut >= c.value.len THEN 0 ELSE c.value.len - cut,
                         last |-> last]
    BY <1>1 DEF ENC!CipherValue, Cut
  <1>3. layer.method \in ENC!Decrypters(conf) /\ layer.method \notin ENC!RsaMethod
    BY <1>2, LayerRead
  <1>4. layer.method \notin ENC!GcmMethod
    <2> SUFFICES ASSUME layer.method \in ENC!GcmMethod PROVE FALSE
      OBVIOUS
    <2>1. r = ENC!GcmDecrypt(key, damaged)
      BY <1>3, LayerRead
    <2>. QED BY <1>2, <2>1 DEF ENC!GcmDecrypt
  <1>5. layer.method \in ENC!CbcMethod
    BY <1>3, <1>4 DEF ENC!Decrypters, ENC!RsaMethod
  <1>6. r = ENC!CbcDecrypt(key, damaged)
    BY <1>3, <1>4, LayerRead
  <1>7. e.mode = "cbc" /\ e.len % size = 0 /\ r = ENC!StripPadding(e.value)
    BY <1>6 DEF ENC!CbcDecrypt
  <1>8. c = ENC!CbcEncrypt(layer.method, c.key, x)
    BY <1>2, <1>5, <1>7 DEF ENC!Holds
  <1>9. c.len = size + padded.len /\ c.value = padded
    BY <1>8 DEF ENC!CbcEncrypt, ENC!Cipher
  <1>10. size \in {8, 16}
    BY DEF ENC!BlockSize
  <1>11. padded.len \in Nat
    BY <1>10, Padded
  <1>12. e.value = v
    BY <1>2, <1>7, <1>9
  <1> HIDE DEF c, e, size, r, padded
  <1>13. ~(v.len < 1 \/ v.last > v.len - 1 \/ v.last < 1)
         /\ r = [v.of EXCEPT !.len = v.len - v.last]
    BY <1>7, <1>12 DEF ENC!StripPadding, r
  <1>14. cut \in Nat /\ cut < padded.len /\ v.len = padded.len - cut /\ v.last = last
    BY <1>9, <1>10, <1>11, <1>13 DEF c
  <1>15. r.len = v.len - v.last
    BY <1>13
  <1>16. 0 < r.len /\ r.len < e.len - size
    BY <1>2, <1>9, <1>10, <1>11, <1>13, <1>14, <1>15
  <1>. QED BY <1>7, <1>16 DEF e, size, r

\* The keys of all layers fit, where the last was encrypted to the service provider's key.
LEMMA LayersRead ==
    ASSUME NEW conf, NEW key, NEW layers, Len(layers) \in Nat \ {0},
           DOMAIN layers = 1..Len(layers), ENC!Layers(layers),
           ENC!Decrypt(conf, key, layers) # Error
    PROVE  /\ \E k : ENC!Decrypt(conf, key, layers) = ENC!DecryptLayer(conf, k, layers[1])
           /\ \A i \in DOMAIN layers : layers[i].method \notin ENC!RsaMethod =>
                 layers[i].cipher.key.len = ENC!KeySize(layers[i].method)
           /\ key = SpKey =>
                 \E i \in DOMAIN layers :
                    /\ layers[i].cipher.key = SpKey
                    /\ layers[i].method = "rsa-1_5" => conf.optIn
                    /\ layers[i].method # "rsa-oaep"
  <1> DEFINE n == Len(layers)
  <1>1. PICK f : /\ ENC!Decrypt(conf, key, layers) = f[1] /\ f[n + 1] = key
                 /\ \A i \in 1..n : f[i] = ENC!DecryptLayer(conf, f[i + 1], layers[i])
    BY Unfolds
  <1>2. \A i \in 1..n : f[i] # Error
    <2> DEFINE S == {i \in 1..n : f[i] = Error}
    <2> SUFFICES ASSUME S # {} PROVE FALSE
      OBVIOUS
    <2>1. PICK i \in S : \A j \in S : i <= j
      <3>1. S \subseteq Nat
        OBVIOUS
      <3> HIDE DEF S
      <3>. QED BY <3>1, LeastIndex
    <2>2. i \in 1..n /\ f[i] = Error /\ i # 1
      BY <1>1, <2>1
    <2>3. i - 1 \in 1..n /\ (i - 1) + 1 = i /\ ~(i <= i - 1)
      BY <2>2
    <2>4. f[i - 1] # Error
      BY <2>1, <2>3
    <2>5. f[i - 1] = ENC!DecryptLayer(conf, f[i], layers[i - 1])
      BY <1>1, <2>3
    <2>. QED BY <2>2, <2>4, <2>5, LayerRead
  <1>3. \A i \in 1..n : ENC!DecryptLayer(conf, f[i + 1], layers[i]) # Error
    BY <1>1, <1>2
  <1>4. ASSUME NEW i \in 1..n, layers[i].method \notin ENC!RsaMethod
        PROVE  layers[i].cipher.key.len = ENC!KeySize(layers[i].method)
    BY <1>3, <1>4, LayerRead
  <1>5. ASSUME key = SpKey
        PROVE  /\ layers[n].cipher.key = SpKey
               /\ layers[n].method = "rsa-1_5" => conf.optIn
               /\ layers[n].method # "rsa-oaep"
    <2>1. ENC!DecryptLayer(conf, SpKey, layers[n]) # Error
      BY <1>1, <1>3, <1>5
    <2>2. layers[n].cipher.key = SpKey /\ layers[n].method \in ENC!Decrypters(conf)
      BY <2>1, LayerRead
    <2>. QED BY <2>2 DEF ENC!Decrypters, ENC!CbcMethod, ENC!GcmMethod
  <1>6. 1 \in 1..n /\ n \in 1..n
    OBVIOUS
  <1>. QED BY <1>1, <1>4, <1>5, <1>6

-----------------------------------------------------------------------------
\* Encryption: messages.

\* A message as it is sent, which holds x.
Sound(b, x) ==
    /\ b \in ENC!Message /\ Len(b.data) >= 1
    /\ ENC!Layers(b.data) /\ ENC!Layers(b.side)
    /\ ENC!Holds(b.data[1], x)

\* It arrives as m: as it is, or damaged.
Arrives(b, m, whole) ==
    IF whole THEN m = b
    ELSE /\ b.data[1].cipher # None
         /\ \E cut \in 0..b.data[1].cipher.len, last \in Nat : m = ENC!Damaged(b, cut, last)

\* The layers of a message.
LEMMA MessageShape ==
    ASSUME NEW b \in ENC!Message, Len(b.data) >= 1
    PROVE  /\ b.data \in Seq(ENC!Layer) /\ b.side \in Seq(ENC!Layer)
           /\ Len(b.data) \in Nat \ {0} /\ DOMAIN b.data = 1..Len(b.data)
           /\ Len(b.side) \in Nat /\ DOMAIN b.side = 1..Len(b.side)
           /\ b.data[1] \in ENC!Layer
  <1>1. b.data \in Seq(ENC!Layer) /\ b.side \in Seq(ENC!Layer)
    BY DEF ENC!Message
  <1>. QED BY <1>1

\* The elements of a sequence of which the first is replaced.
LEMMA Replaced ==
    ASSUME NEW S, NEW s \in Seq(S), Len(s) >= 1, NEW x \in S
    PROVE  LET t == [s EXCEPT ![1] = x] IN
           /\ t \in Seq(S) /\ Len(t) = Len(s) /\ DOMAIN t = 1..Len(s)
           /\ t[1] = x /\ \A i \in 2..Len(s) : t[i] = s[i]
  OBVIOUS

\* A damaged message is one whose first layer has another CipherValue.
LEMMA DamagedShape ==
    ASSUME NEW b \in ENC!Message, Len(b.data) >= 1, b.data[1].cipher # None,
           NEW cut \in 0..b.data[1].cipher.len, NEW last \in Nat
    PROVE  LET m == ENC!Damaged(b, cut, last) IN
           /\ m \in ENC!Message /\ m.side = b.side
           /\ Len(m.data) = Len(b.data) /\ DOMAIN m.data = 1..Len(b.data)
           /\ \A i \in 2..Len(b.data) : m.data[i] = b.data[i]
           /\ m.data[1].cipher = Cut(b.data[1].cipher, cut, last)
           /\ m.data[1].cipher.key = b.data[1].cipher.key
           /\ m.data[1].method = b.data[1].method
  <1> DEFINE c == b.data[1].cipher
             e == Cut(c, cut, last)
             l == [b.data[1] EXCEPT !.cipher = e]
             d == [b.data EXCEPT ![1] = l]
             m == ENC!Damaged(b, cut, last)
  <1>1. b.data \in Seq(ENC!Layer) /\ b.side \in Seq(ENC!Layer) /\ b.data[1] \in ENC!Layer
    BY MessageShape
  <1>2. c \in ENC!CipherValue
    BY <1>1 DEF ENC!Layer
  <1>3. c.len \in Nat /\ c.value \in ENC!Value /\ c.value.len \in Nat
    BY <1>2 DEF ENC!CipherValue, ENC!Value, ENC!Content, ENC!ByteKey
  <1>4. c.len - cut \in Nat
    BY <1>3
  <1>5. (IF c.mode # "cbc" THEN c.value
         ELSE [of |-> [is |-> "damaged", len |-> 0],
               len |-> IF cut >= c.value.len THEN 0 ELSE c.value.len - cut,
               last |-> last]) \in ENC!Value
    <2>1. [is |-> "damaged", len |-> 0] \in ENC!Content
      BY DEF ENC!Content
    <2>2. (IF cut >= c.value.len THEN 0 ELSE c.value.len - cut) \in Nat
      BY <1>3
    <2>. QED BY <1>3, <2>1, <2>2 DEF ENC!Value
  <1>6. e \in ENC!CipherValue /\ e.key = c.key
    BY <1>2, <1>4, <1>5 DEF ENC!CipherValue, Cut
  <1>7. m = [b EXCEPT !.data = d]
    BY DEF ENC!Damaged, Cut
  <1> HIDE DEF e, c, m
  <1>8. l \in ENC!Layer /\ l.cipher = e /\ l.method = b.data[1].method
    BY <1>1, <1>6 DEF ENC!Layer
  <1> HIDE DEF l
  <1>9. /\ d \in Seq(ENC!Layer) /\ Len(d) = Len(b.data) /\ DOMAIN d = 1..Len(b.data)
        /\ d[1] = l /\ \A i \in 2..Len(b.data) : d[i] = b.data[i]
    BY <1>1, <1>8, Replaced
  <1> HIDE DEF d
  <1>10. m \in ENC!Message /\ m.data = d /\ m.side = b.side
    BY <1>1, <1>7, <1>9 DEF ENC!Message
  <1>. QED BY <1>6, <1>8, <1>9, <1>10 DEF e, c, m

\* What arrives has the layers of what was sent.
LEMMA ArrivedShape ==
    ASSUME NEW x, NEW b, Sound(b, x), NEW m, NEW whole, Arrives(b, m, whole)
    PROVE  /\ m \in ENC!Message /\ Len(m.data) \in Nat \ {0} /\ Len(m.data) = Len(b.data)
           /\ m.side = b.side
           /\ DOMAIN m.data = 1..Len(m.data) /\ DOMAIN m.side = 1..Len(m.side)
           /\ Len(m.side) \in Nat
           /\ ENC!Layers(m.data) /\ ENC!Layers(m.side)
           /\ \A i \in 2..Len(b.data) : m.data[i] = b.data[i]
           /\ m.data[1].method = b.data[1].method
           /\ whole => m = b
  <1>1. b \in ENC!Message /\ Len(b.data) >= 1 /\ ENC!Layers(b.data) /\ ENC!Layers(b.side)
    BY DEF Sound
  <1>2. /\ Len(b.data) \in Nat \ {0} /\ DOMAIN b.data = 1..Len(b.data)
        /\ Len(b.side) \in Nat /\ DOMAIN b.side = 1..Len(b.side)
    BY <1>1, MessageShape
  <1>3. CASE whole
    BY <1>1, <1>2, <1>3 DEF Arrives
  <1>4. CASE ~whole
    <2>1. PICK cut \in 0..b.data[1].cipher.len, last \in Nat : m = ENC!Damaged(b, cut, last)
      BY <1>4 DEF Arrives
    <2>2. b.data[1].cipher # None
      BY <1>4 DEF Arrives
    <2>3. /\ m \in ENC!Message /\ m.side = b.side
          /\ Len(m.data) = Len(b.data) /\ DOMAIN m.data = 1..Len(b.data)
          /\ \A i \in 2..Len(b.data) : m.data[i] = b.data[i]
          /\ m.data[1].method = b.data[1].method
      BY <1>1, <2>1, <2>2, DamagedShape
    <2>4. \A i \in DOMAIN m.data : m.data[i].method = b.data[i].method
      BY <1>2, <2>3
    <2>5. ENC!Layers(m.data)
      BY <1>1, <1>2, <2>3, <2>4 DEF ENC!Layers
    <2>. QED BY <1>1, <1>2, <1>4, <2>2, <2>3, <2>5
  <1>. QED BY <1>3, <1>4

\* decryptElement, where it is not an error.
LEMMA ElementRead ==
    ASSUME NEW conf, NEW m, ENC!DecryptElement(conf, m) # Error
    PROVE  \E key : /\ key = (IF m.side = <<>> THEN SpKey ELSE ENC!Decrypt(conf, SpKey, m.side))
                    /\ key # Error /\ ENC!DecryptElement(conf, m) = ENC!Decrypt(conf, key, m.data)
  BY DEF ENC!DecryptElement

\* What is read of a message that arrives: all that it held, or of a damaged one less than
\* its blocks.
LEMMA WholeRead ==
    ASSUME NEW x \in ENC!Content, x.len >= 1, NEW b, Sound(b, x), NEW whole, NEW m,
           Arrives(b, m, whole), NEW conf, ENC!DecryptElement(conf, m) # Error
    PROVE  LET r == ENC!DecryptElement(conf, m)
               c == m.data[1].cipher
           IN \/ r = x
              \/ /\ ~whole /\ c.mode = "cbc"
                 /\ c.len % ENC!BlockSize(m.data[1].method) = 0
                 /\ 0 < r.len /\ r.len < c.len - ENC!BlockSize(m.data[1].method)
  <1> DEFINE r == ENC!DecryptElement(conf, m)
  <1>1. /\ Len(m.data) \in Nat \ {0} /\ DOMAIN m.data = 1..Len(m.data) /\ ENC!Layers(m.data)
    BY ArrivedShape
  <1>2. PICK key : key # Error /\ r = ENC!Decrypt(conf, key, m.data)
    BY ElementRead
  <1>3. PICK k : r = ENC!DecryptLayer(conf, k, m.data[1])
    BY <1>1, <1>2, LayersRead
  <1>4. b \in ENC!Message /\ Len(b.data) >= 1 /\ ENC!Holds(b.data[1], x) /\ b.data[1] \in ENC!Layer
    BY MessageShape DEF Sound
  <1>5. CASE whole
    BY <1>3, <1>4, <1>5, ContentRead DEF Arrives
  <1>6. CASE ~whole
    <2>1. PICK cut \in 0..b.data[1].cipher.len, last \in Nat : m = ENC!Damaged(b, cut, last)
      BY <1>6 DEF Arrives
    <2>2. b.data[1].cipher # None
      BY <1>6 DEF Arrives
    <2>3. /\ m.data[1].cipher = Cut(b.data[1].cipher, cut, last)
          /\ m.data[1].method = b.data[1].method
      BY <1>4, <2>1, <2>2, DamagedShape
    <2>4. ENC!DecryptLayer(conf, k, m.data[1]) # Error
      BY <1>3
    <2> DEFINE damaged == m.data[1]
               layer == b.data[1]
    <2>5. /\ layer \in ENC!Layer /\ layer.cipher # None /\ ENC!Holds(layer, x)
          /\ cut \in 0..layer.cipher.len /\ damaged.method = layer.method
          /\ damaged.cipher = Cut(layer.cipher, cut, last)
          /\ ENC!DecryptLayer(conf, k, damaged) # Error
      BY <1>4, <2>2, <2>3, <2>4
    <2> HIDE DEF damaged, layer
    <2>6. LET s == ENC!DecryptLayer(conf, k, damaged) IN
          /\ damaged.cipher.mode = "cbc"
          /\ damaged.cipher.len % ENC!BlockSize(damaged.method) = 0
          /\ 0 < s.len /\ s.len < damaged.cipher.len - ENC!BlockSize(damaged.method)
      BY <2>5, DamagedRead
    <2>. QED BY <1>3, <1>6, <2>6 DEF damaged
  <1>. QED BY <1>5, <1>6

\* The elements of a concatenation are those of its two parts.
LEMMA Joined ==
    ASSUME NEW S, NEW s \in Seq(S), NEW t \in Seq(S)
    PROVE  \A j \in DOMAIN (s \o t) :
              \/ \E i \in DOMAIN s : (s \o t)[j] = s[i]
              \/ \E i \in DOMAIN t : (s \o t)[j] = t[i]
  <1> SUFFICES ASSUME NEW j \in DOMAIN (s \o t)
               PROVE  \/ \E i \in DOMAIN s : (s \o t)[j] = s[i]
                      \/ \E i \in DOMAIN t : (s \o t)[j] = t[i]
    OBVIOUS
  <1> DEFINE n == Len(s)
             k == Len(t)
             u == s \o t
  <1>1. /\ n \in Nat /\ k \in Nat /\ DOMAIN s = 1..n /\ DOMAIN t = 1..k /\ j \in 1..(n + k)
        /\ \A i \in 1..n : u[i] = s[i]
        /\ \A i \in 1..k : u[n + i] = t[i]
    BY Concatenated
  <1> HIDE DEF n, k, u
  <1>2. CASE j \in 1..n
    BY <1>1, <1>2 DEF u
  <1>3. CASE j \notin 1..n
    <2>1. j - n \in 1..k /\ n + (j - n) = j
      BY <1>1, <1>3
    <2>2. u[j] = t[j - n]
      BY <1>1, <2>1
    <2>. QED BY <1>1, <2>1, <2>2 DEF u
  <1>. QED BY <1>2, <1>3

\* Those of the parts are among them.
LEMMA Parts ==
    ASSUME NEW S, NEW s \in Seq(S), NEW t \in Seq(S)
    PROVE  /\ \A i \in DOMAIN s : i \in DOMAIN (s \o t) /\ (s \o t)[i] = s[i]
           /\ \A i \in DOMAIN t : Len(s) + i \in DOMAIN (s \o t) /\ (s \o t)[Len(s) + i] = t[i]
  <1> DEFINE n == Len(s)
             k == Len(t)
             u == s \o t
  <1>1. /\ n \in Nat /\ k \in Nat /\ DOMAIN s = 1..n /\ DOMAIN t = 1..k /\ DOMAIN u = 1..(n + k)
        /\ \A i \in 1..n : u[i] = s[i]
        /\ \A i \in 1..k : u[n + i] = t[i]
    BY Concatenated
  <1> HIDE DEF n, k, u
  <1>2. (\A i \in 1..n : i \in 1..(n + k)) /\ (\A i \in 1..k : n + i \in 1..(n + k))
    BY <1>1
  <1>. QED BY <1>1, <1>2 DEF u, n

\* The keys of a message that is read.
LEMMA KeysRead ==
    ASSUME NEW x, NEW b, Sound(b, x), NEW whole, NEW m, Arrives(b, m, whole),
           NEW conf, ENC!DecryptElement(conf, m) # Error
    PROVE  LET layers == m.data \o m.side IN
           /\ \E i \in DOMAIN layers :
                 /\ layers[i].cipher.key = SpKey
                 /\ layers[i].method = "rsa-1_5" => conf.optIn
                 /\ layers[i].method # "rsa-oaep"
           /\ \A i \in DOMAIN layers : layers[i].method \notin ENC!RsaMethod =>
                 layers[i].cipher.key.len = ENC!KeySize(layers[i].method)
  <1> DEFINE data == m.data
             side == m.side
             layers == data \o side
             Fit(l) == l.method \notin ENC!RsaMethod =>
                          l.cipher.key.len = ENC!KeySize(l.method)
             Own(l) == /\ l.cipher.key = SpKey
                       /\ l.method = "rsa-1_5" => conf.optIn
                       /\ l.method # "rsa-oaep"
  <1>1. /\ m \in ENC!Message /\ Len(data) \in Nat \ {0} /\ Len(side) \in Nat
        /\ DOMAIN data = 1..Len(data) /\ DOMAIN side = 1..Len(side)
        /\ ENC!Layers(data) /\ ENC!Layers(side)
    BY ArrivedShape
  <1>2. data \in Seq(ENC!Layer) /\ side \in Seq(ENC!Layer)
    BY <1>1 DEF ENC!Message
  <1>3. PICK key : /\ key = (IF side = <<>> THEN SpKey ELSE ENC!Decrypt(conf, SpKey, side))
                   /\ key # Error /\ ENC!Decrypt(conf, key, data) # Error
    BY ElementRead
  <1> HIDE DEF data, side, layers
  <1>4. \A i \in DOMAIN data : Fit(data[i])
    BY <1>1, <1>3, LayersRead
  <1>5. /\ \A i \in DOMAIN side : Fit(side[i])
        /\ (\E i \in DOMAIN data : Own(data[i])) \/ (\E i \in DOMAIN side : Own(side[i]))
    <2>1. CASE side = <<>>
      <3>1. DOMAIN side = {} /\ key = SpKey
        BY <1>3, <2>1
      <3>2. \E i \in DOMAIN data : Own(data[i])
        BY <1>1, <1>3, <3>1, LayersRead
      <3>. QED BY <3>1, <3>2
    <2>2. CASE side # <<>>
      <3>1. Len(side) \in Nat \ {0} /\ ENC!Decrypt(conf, SpKey, side) # Error
        BY <1>1, <1>2, <1>3, <2>2
      <3>. QED BY <1>1, <3>1, LayersRead
    <2>. QED BY <2>1, <2>2
  <1>6. \A j \in DOMAIN layers :
           \/ \E i \in DOMAIN data : layers[j] = data[i]
           \/ \E i \in DOMAIN side : layers[j] = side[i]
    BY <1>2, Joined DEF layers
  <1>7. \E j \in DOMAIN layers : Own(layers[j])
    <2> HIDE DEF Own
    <2>1. /\ \A i \in DOMAIN data : i \in DOMAIN layers /\ layers[i] = data[i]
          /\ \A i \in DOMAIN side : Len(data) + i \in DOMAIN layers
                                    /\ layers[Len(data) + i] = side[i]
      BY <1>2, Parts DEF layers
    <2>. QED BY <1>5, <2>1
  <1>8. \A j \in DOMAIN layers : Fit(layers[j])
    <2> HIDE DEF Fit
    <2>. QED BY <1>4, <1>5, <1>6
  <1>. QED BY <1>7, <1>8 DEF layers, data, side

-----------------------------------------------------------------------------
\* Encryption: what the identity provider makes.

\* The least element of a set of indices, or None: the shape of FirstOf.
LEMMA FirstIndex ==
    ASSUME NEW S, S \subseteq Nat
    PROVE  LET x == IF S = {} THEN None ELSE CHOOSE i \in S : \A j \in S : i <= j IN
           /\ x # None <=> S # {}
           /\ x # None => x \in S
           /\ \A y \in S : x <= y
  <1>1. CASE S = {}
    BY <1>1
  <1>2. CASE S # {}
    <2> DEFINE x == CHOOSE i \in S : \A j \in S : i <= j
    <2>1. x \in S /\ \A j \in S : x <= j
      BY <1>2, LeastIndex
    <2>2. x # None
      BY <2>1, Apart
    <2>. QED BY <1>2, <2>1, <2>2
  <1>. QED BY <1>1, <1>2

\* The chosen descriptor is not one for signing, and has a certificate.
LEMMA DescriptorChosen ==
    ASSUME NEW md \in Seq(ENC!Descriptor)
    PROVE  LET i == ENC!SpEncryptionKeyDescriptor(md) IN
           i # None => i \in DOMAIN md /\ md[i].use # "signing" /\ md[i] \in ENC!Descriptor
  <1> DEFINE L == {i \in DOMAIN md : md[i].use = "encryption" /\ md[i].certificates > 0}
             P == {i \in DOMAIN md : md[i].use = "" /\ md[i].certificates > 0}
             First(S) == IF S = {} THEN None ELSE CHOOSE i \in S : \A j \in S : i <= j
             i == ENC!SpEncryptionKeyDescriptor(md)
  <1>1. i = IF First(L) # None THEN First(L) ELSE First(P)
    BY DEF ENC!SpEncryptionKeyDescriptor, ENC!FirstOf
  <1>2. L \subseteq Nat /\ P \subseteq Nat
    <2>1. DOMAIN md \subseteq Nat
      OBVIOUS
    <2>2. L \subseteq DOMAIN md /\ P \subseteq DOMAIN md
      BY Zenon
    <2>. QED BY <2>1, <2>2
  <1>3. (First(L) # None => First(L) \in L) /\ (First(P) # None => First(P) \in P)
    <2> HIDE DEF L, P
    <2>. QED BY <1>2, FirstIndex
  <1> HIDE DEF First, i
  <1>4. i # None => i \in L \/ i \in P
    BY <1>1, <1>3
  <1>5. i # None => i \in DOMAIN md /\ (md[i].use = "encryption" \/ md[i].use = "")
    BY <1>4, Zenon
  <1>6. \A j \in DOMAIN md : md[j] \in ENC!Descriptor
    OBVIOUS
  <1>. QED BY <1>5, <1>6 DEF i

\* contentEncryption: a known method of the chosen descriptor, if that has one.
LEMMA ContentChosen ==
    ASSUME NEW md \in Seq(ENC!Descriptor), ENC!SpEncryptionKeyDescriptor(md) # None
    PROVE  LET k == md[ENC!SpEncryptionKeyDescriptor(md)]
               known == {k.methods[j] : j \in DOMAIN k.methods} \cap ENC!ContentEncryptionMethods
               method == ENC!ContentEncryption(md)
           IN /\ method \in ENC!ContentEncryptionMethods
              /\ IF known = {} THEN method = "aes128-cbc" ELSE method \in known
  <1> DEFINE i == ENC!SpEncryptionKeyDescriptor(md)
             s == md[i].methods
             K == {j \in DOMAIN s : s[j] \in ENC!ContentEncryptionMethods}
             first == IF K = {} THEN None ELSE CHOOSE x \in K : \A y \in K : x <= y
             method == ENC!ContentEncryption(md)
  <1>1. method = IF first = None THEN "aes128-cbc" ELSE s[first]
    BY DEF ENC!ContentEncryption, ENC!FirstOf
  <1>2. s \in Seq(ENC!Method)
    BY DescriptorChosen DEF ENC!Descriptor
  <1>3. K \subseteq Nat
    BY <1>2
  <1>4. (first # None <=> K # {}) /\ (first # None => first \in K)
    <2> HIDE DEF K
    <2>. QED BY <1>3, FirstIndex
  <1> HIDE DEF first, method, i
  <1>5. CASE K = {}
    BY <1>1, <1>4, <1>5 DEF ENC!ContentEncryptionMethods, i, method
  <1>6. CASE K # {}
    <2>1. first \in K /\ method = s[first]
      BY <1>1, <1>4, <1>6
    <2>. QED BY <2>1 DEF i, method
  <1>. QED BY <1>5, <1>6

\* The data of an answer: a CipherValue that holds it.
LEMMA DataLayer ==
    ASSUME NEW method \in ENC!ContentEncryptionMethods, NEW x \in ENC!Content, x.len >= 1
    PROVE  LET key == ENC!Bytes("fresh", ENC!KeySize(method))
               layer == [method |-> method, digest |-> None, cert |-> None,
                         cipher |-> IF method \in ENC!GcmMethod THEN ENC!GcmEncrypt(key, x)
                                    ELSE ENC!CbcEncrypt(method, key, x)]
           IN /\ key \in ENC!ByteKey /\ key.len = ENC!KeySize(method)
              /\ layer \in ENC!Layer /\ ENC!Holds(layer, x)
              /\ layer.cipher.key = key /\ layer.cipher.intact /\ layer.cipher # None
              /\ method \in ENC!GcmMethod =>
                    layer.cipher.mode = "gcm" /\ layer.cipher.value = x /\ layer.cipher.len >= 28
              /\ method \notin ENC!GcmMethod =>
                    /\ layer.cipher.mode = "cbc"
                    /\ layer.cipher.value = ENC!AppendPadding(x, ENC!BlockSize(method))
                    /\ layer.cipher.len >= ENC!BlockSize(method)
                    /\ layer.cipher.len % ENC!BlockSize(method) = 0
  <1> DEFINE key == ENC!Bytes("fresh", ENC!KeySize(method))
             c == IF method \in ENC!GcmMethod THEN ENC!GcmEncrypt(key, x)
                  ELSE ENC!CbcEncrypt(method, key, x)
             layer == [method |-> method, digest |-> None, cert |-> None, cipher |-> c]
             size == ENC!BlockSize(method)
             padded == ENC!AppendPadding(x, size)
  <1>1. ENC!KeySize(method) \in Nat
    BY DEF ENC!KeySize, ENC!ContentEncryptionMethods
  <1>2. key \in ENC!ByteKey /\ key.len = ENC!KeySize(method)
    BY <1>1 DEF ENC!Bytes, ENC!ByteKey
  <1>3. x.len \in Nat
    BY DEF ENC!Content
  <1>4. size \in {8, 16}
    BY DEF ENC!BlockSize
  <1>5. /\ padded.len \in Nat /\ padded.last \in Nat /\ (size + padded.len) % size = 0
        /\ padded = [of |-> x, len |-> padded.len, last |-> padded.last]
    <2>1. padded.len \in Nat /\ padded.last \in 1..size /\ (size + padded.len) % size = 0
      BY <1>4, Padded
    <2>2. padded = [of |-> x, len |-> padded.len, last |-> padded.last]
      BY DEF ENC!AppendPadding
    <2>. QED BY <1>4, <2>1, <2>2
  <1>6. padded \in ENC!Value /\ x \in ENC!Value
    <2> HIDE DEF padded
    <2>. QED BY <1>5 DEF ENC!Value
  <1>7. size + padded.len \in Nat /\ size + padded.len >= size
    <2> HIDE DEF padded, size
    <2>. QED BY <1>4, <1>5
  <1>8. method \in ENC!Method
    BY DEF ENC!ContentEncryptionMethods, ENC!Method, ENC!CbcMethod, ENC!GcmMethod
  <1>9. CASE method \in ENC!GcmMethod
    <2>1. c = ENC!Cipher(key, "gcm", 12 + x.len + 16, x)
      BY <1>9 DEF ENC!GcmEncrypt, ENC!NonceSize, ENC!Overhead
    <2>2. 12 + x.len + 16 \in Nat /\ 12 + x.len + 16 >= 28
      BY <1>3
    <2> HIDE DEF c, key
    <2>3. /\ c \in ENC!CipherValue /\ c.key = key /\ c.mode = "gcm" /\ c.value = x
          /\ c.intact /\ c.len >= 28
      BY <1>2, <1>6, <2>1, <2>2 DEF ENC!Cipher, ENC!CipherValue
    <2>4. c # None
      BY <2>3, Apart
    <2>5. layer \in ENC!Layer /\ layer.cipher = c
      BY <1>8, <2>3 DEF ENC!Layer
    <2>6. ENC!Holds(layer, x)
      BY <2>3, <2>5 DEF ENC!Holds
    <2>. QED BY <1>2, <1>9, <2>3, <2>4, <2>5, <2>6 DEF c, key
  <1>10. CASE method \notin ENC!GcmMethod
    <2>1. c = ENC!CbcEncrypt(method, key, x)
      BY <1>10
    <2>2. ENC!CbcEncrypt(method, key, x) = ENC!Cipher(key, "cbc", size + padded.len, padded)
      BY DEF ENC!CbcEncrypt
    <2> HIDE DEF c, key, padded, size
    <2>3. /\ c \in ENC!CipherValue /\ c.key = key /\ c.mode = "cbc" /\ c.value = padded
          /\ c.intact /\ c.len = size + padded.len
      BY <1>2, <1>6, <1>7, <2>1, <2>2 DEF ENC!Cipher, ENC!CipherValue
    <2>4. c # None
      BY <2>3, Apart
    <2>5. layer \in ENC!Layer /\ layer.cipher = c /\ layer.method = method
      BY <1>8, <2>3 DEF ENC!Layer
    <2>6. ENC!Holds(layer, x)
      BY <2>1, <2>3, <2>5 DEF ENC!Holds
    <2>. QED BY <1>2, <1>5, <1>7, <1>10, <2>3, <2>4, <2>5, <2>6 DEF c, key, padded, size
  <1>. QED BY <1>9, <1>10

\* Its key: a CipherValue that holds the key, for the RSA key of the metadata.
LEMMA KeyLayer ==
    ASSUME NEW rsaKey \in RsaKey, NEW key \in ENC!ByteKey
    PROVE  LET layer == [method |-> "oaep-mgf1p", digest |-> "sha1", cert |-> rsaKey,
                         cipher |-> [ENC!Cipher(rsaKey, "oaep-mgf1p", 256, key)
                                       EXCEPT !.digest = "sha1"]]
           IN /\ layer \in ENC!Layer /\ layer.cipher # None
              /\ layer.cipher.key = rsaKey /\ layer.cipher.mode = "oaep-mgf1p"
              /\ layer.cipher.digest = "sha1" /\ layer.cipher.intact /\ layer.cipher.value = key
  <1> DEFINE d == ENC!Cipher(rsaKey, "oaep-mgf1p", 256, key)
             c == [d EXCEPT !.digest = "sha1"]
  <1>1. key \in ENC!Value
    BY DEF ENC!Value
  <1>2. "sha1" \in ENC!DigestMethods
    BY DEF ENC!DigestMethods
  <1>3. d \in ENC!CipherValue
    BY <1>1 DEF ENC!Cipher, ENC!CipherValue, ENC!RsaMethod
  <1>4. d.key = rsaKey /\ d.mode = "oaep-mgf1p" /\ d.value = key /\ d.intact
    BY DEF ENC!Cipher
  <1> HIDE DEF d
  <1>5. /\ c \in ENC!CipherValue /\ c.digest = "sha1"
        /\ c.key = d.key /\ c.mode = d.mode /\ c.value = d.value /\ c.intact = d.intact
    BY <1>2, <1>3 DEF ENC!CipherValue
  <1> HIDE DEF c
  <1>6. c # None
    BY <1>5, Apart
  <1>7. "oaep-mgf1p" \in ENC!Method
    BY DEF ENC!Method, ENC!RsaMethod
  <1>. QED BY <1>2, <1>4, <1>5, <1>6, <1>7 DEF ENC!Layer, c, d

\* An answer holds the assertion, encrypted by a method of the metadata to its key.
LEMMA Encrypted ==
    ASSUME NEW rsaKey \in RsaKey, NEW method \in ENC!ContentEncryptionMethods,
           NEW x \in ENC!Content, x.len >= 1
    PROVE  LET b == [data |-> ENC!Encrypt(rsaKey, method, "sha1", x), side |-> <<>>] IN
           /\ Sound(b, x)
           /\ b.data[1].method = method /\ b.data[2].cipher.key = rsaKey
           /\ \A conf : conf.key = "rsa" /\ rsaKey = SpKey => ENC!DecryptElement(conf, b) = x
  <1> DEFINE key == ENC!Bytes("fresh", ENC!KeySize(method))
             l1 == [method |-> method, digest |-> None, cert |-> None,
                    cipher |-> IF method \in ENC!GcmMethod THEN ENC!GcmEncrypt(key, x)
                               ELSE ENC!CbcEncrypt(method, key, x)]
             l2 == [method |-> "oaep-mgf1p", digest |-> "sha1", cert |-> rsaKey,
                    cipher |-> [ENC!Cipher(rsaKey, "oaep-mgf1p", 256, key)
                                  EXCEPT !.digest = "sha1"]]
             data == ENC!Encrypt(rsaKey, method, "sha1", x)
             b == [data |-> data, side |-> <<>>]
  <1>1. data = <<l1, l2>>
    BY DEF ENC!Encrypt
  <1>2. /\ key \in ENC!ByteKey /\ key.len = ENC!KeySize(method)
        /\ l1 \in ENC!Layer /\ ENC!Holds(l1, x) /\ l1.method = method
        /\ l1.cipher.key = key /\ l1.cipher.intact /\ l1.cipher # None
        /\ method \in ENC!GcmMethod =>
              l1.cipher.mode = "gcm" /\ l1.cipher.value = x /\ l1.cipher.len >= 28
        /\ method \notin ENC!GcmMethod =>
              /\ l1.cipher.mode = "cbc"
              /\ l1.cipher.value = ENC!AppendPadding(x, ENC!BlockSize(method))
              /\ l1.cipher.len >= ENC!BlockSize(method)
              /\ l1.cipher.len % ENC!BlockSize(method) = 0
    BY DataLayer
  <1> HIDE DEF key
  <1>3. /\ l2 \in ENC!Layer /\ l2.cipher # None /\ l2.method = "oaep-mgf1p"
        /\ l2.digest = "sha1" /\ l2.cert = rsaKey
        /\ l2.cipher.key = rsaKey /\ l2.cipher.mode = "oaep-mgf1p"
        /\ l2.cipher.digest = "sha1" /\ l2.cipher.intact /\ l2.cipher.value = key
    BY <1>2, KeyLayer
  <1> HIDE DEF l1, l2, data
  <1>4. /\ data \in Seq(ENC!Layer) /\ Len(data) = 2 /\ DOMAIN data = 1..2
        /\ data[1] = l1 /\ data[2] = l2
    BY <1>1, <1>2, <1>3
  <1>5. method \notin ENC!RsaMethod
    BY DEF ENC!ContentEncryptionMethods, ENC!RsaMethod
  <1>6. ENC!Layers(data)
    BY <1>2, <1>4, <1>5 DEF ENC!Layers
  <1>7. Sound(b, x)
    <2>1. <<>> \in Seq(ENC!Layer) /\ ENC!Layers(<<>>)
      BY DEF ENC!Layers
    <2>2. b \in ENC!Message /\ b.data = data /\ b.side = <<>>
      BY <1>4, <2>1 DEF ENC!Message
    <2> HIDE DEF b
    <2>3. Len(b.data) >= 1 /\ ENC!Holds(b.data[1], x)
      <3>1. Len(b.data) >= 1 /\ b.data[1] = l1
        BY <1>4, <2>2
      <3>. QED BY <1>2, <3>1, Zenon
    <2>4. ENC!Layers(b.data) /\ ENC!Layers(b.side)
      <3>1. ENC!Layers(b.data)
        BY <1>6, <2>2
      <3>2. ENC!Layers(b.side)
        BY <2>1, <2>2
      <3>. QED BY <3>1, <3>2
    <2>. QED BY <2>2, <2>3, <2>4 DEF Sound
  <1>8. ASSUME NEW conf, conf.key = "rsa", rsaKey = SpKey
        PROVE  ENC!DecryptElement(conf, b) = x
    <2>1. ENC!DecryptElement(conf, b) = ENC!Decrypt(conf, SpKey, data)
      BY <1>8, Apart DEF ENC!DecryptElement
    <2>2. PICK f : /\ ENC!Decrypt(conf, SpKey, data) = f[1] /\ f[2 + 1] = SpKey
                   /\ \A i \in 1..2 : f[i] = ENC!DecryptLayer(conf, f[i + 1], data[i])
      BY <1>4, <1>6, Unfolds
    <2>3. /\ f[2] = ENC!DecryptLayer(conf, SpKey, l2)
          /\ f[1] = ENC!DecryptLayer(conf, f[2], l1)
      BY <1>4, <2>2
    <2>4. SpKey # Error
      BY Apart
    <2>5. /\ "oaep-mgf1p" \in ENC!Decrypters(conf) /\ "oaep-mgf1p" \in ENC!RsaMethod
          /\ method \in ENC!Decrypters(conf)
      BY DEF ENC!Decrypters, ENC!RsaMethod, ENC!ContentEncryptionMethods, ENC!CbcMethod,
             ENC!GcmMethod
    <2>6. f[2] = key
      <3>1. f[2] = ENC!RsaDecrypt(SpKey, l2)
        BY <1>3, <2>3, <2>4, <2>5 DEF ENC!DecryptLayer
      <3>2. "sha1" \in ENC!DigestMethods
        BY DEF ENC!DigestMethods
      <3>3. (IF l2.digest = None THEN "sha1" ELSE l2.digest) = "sha1"
        BY <1>3
      <3>. QED BY <1>3, <1>8, <3>1, <3>2, <3>3 DEF ENC!RsaDecrypt, ENC!ValidateRSAKeyIfPresent
    <2>7. key # Error /\ key # SpKey
      BY <1>2, Apart
    <2>8. f[1] = IF method \in ENC!GcmMethod THEN ENC!GcmDecrypt(key, l1)
                 ELSE ENC!CbcDecrypt(key, l1)
      BY <1>2, <1>5, <2>3, <2>5, <2>6, <2>7 DEF ENC!DecryptLayer
    <2>9. CASE method \in ENC!GcmMethod
      <3>1. ~(l1.cipher.len < 12 + 16)
        BY <1>2, <2>9 DEF ENC!Layer, ENC!CipherValue
      <3>2. ENC!GcmDecrypt(key, l1) = l1.cipher.value
        BY <1>2, <2>9, <3>1 DEF ENC!GcmDecrypt, ENC!NonceSize, ENC!Overhead
      <3>. QED BY <1>2, <2>1, <2>2, <2>8, <2>9, <3>2
    <2>10. CASE method \notin ENC!GcmMethod
      <3>1. ENC!BlockSize(method) \in {8, 16}
        BY DEF ENC!BlockSize
      <3>2. ~(l1.cipher.len < ENC!BlockSize(method))
        BY <1>2, <2>10, <3>1 DEF ENC!Layer, ENC!CipherValue
      <3>3. ENC!CbcDecrypt(key, l1) = ENC!StripPadding(l1.cipher.value)
        BY <1>2, <2>10, <3>2 DEF ENC!CbcDecrypt
      <3>4. ENC!StripPadding(ENC!AppendPadding(x, ENC!BlockSize(method))) = x
        BY <3>1, Padded
      <3>. QED BY <1>2, <2>1, <2>2, <2>8, <2>10, <3>3, <3>4
    <2>. QED BY <2>9, <2>10
  <1>. QED BY <1>2, <1>3, <1>4, <1>7, <1>8 DEF data

\* The answer to any metadata: the assertion as it is, an error, or an encrypted message for
\* the key of a descriptor, by a method of that descriptor, which its owner reads.
LEMMA Answered ==
    ASSUME NEW md \in Seq(ENC!Descriptor), NEW x \in ENC!Content, x.len >= 1
    PROVE  LET b == ENC!MakeAssertionEl(md, x)
               key == b.data[2].cipher.key
               method == b.data[1].method
               known(k) == {k.methods[j] : j \in DOMAIN k.methods}
                             \cap ENC!ContentEncryptionMethods
           IN \/ b \in {Clear, Error}
              \/ /\ Sound(b, x) /\ Len(b.data) = 2
                 /\ \E i \in DOMAIN md :
                       /\ md[i].key = key /\ md[i].use # "signing"
                       /\ IF known(md[i]) = {} THEN method = "aes128-cbc"
                          ELSE method \in known(md[i])
                 /\ \A conf : conf.key = "rsa" /\ key = SpKey => ENC!DecryptElement(conf, b) = x
  <1> DEFINE b == ENC!MakeAssertionEl(md, x)
             i == ENC!SpEncryptionKeyDescriptor(md)
             rsaKey == ENC!GetSPEncryptionCert(md)
             method == ENC!ContentEncryption(md)
             c == [data |-> ENC!Encrypt(rsaKey, method, "sha1", x), side |-> <<>>]
             known(k) == {k.methods[j] : j \in DOMAIN k.methods} \cap ENC!ContentEncryptionMethods
  <1>1. rsaKey \in {None, Error} \/ (i # None /\ rsaKey = md[i].key)
    BY DEF ENC!GetSPEncryptionCert
  <1>2. b \in {Clear, Error} \/ (rsaKey \notin {None, Error} /\ b = c)
    BY DEF ENC!MakeAssertionEl
  <1>3. CASE b \in {Clear, Error}
    BY <1>3
  <1>4. CASE rsaKey \notin {None, Error} /\ b = c
    <2>1. i # None /\ rsaKey = md[i].key
      BY <1>1, <1>4
    <2>2. i \in DOMAIN md /\ md[i].use # "signing" /\ md[i] \in ENC!Descriptor
      BY <2>1, DescriptorChosen
    <2>3. rsaKey \in RsaKey
      BY <2>1, <2>2 DEF ENC!Descriptor
    <2>4. /\ method \in ENC!ContentEncryptionMethods
          /\ IF known(md[i]) = {} THEN method = "aes128-cbc" ELSE method \in known(md[i])
      BY <2>1, ContentChosen
    <2> HIDE DEF method, rsaKey, b, i
    <2>5. /\ Sound(c, x) /\ Len(c.data) = 2
          /\ c.data[1].method = method /\ c.data[2].cipher.key = rsaKey
          /\ \A conf : conf.key = "rsa" /\ rsaKey = SpKey => ENC!DecryptElement(conf, c) = x
      <3>1. Len(c.data) = 2
        BY DEF ENC!Encrypt
      <3>2. /\ Sound(c, x) /\ c.data[1].method = method /\ c.data[2].cipher.key = rsaKey
            /\ \A conf : conf.key = "rsa" /\ rsaKey = SpKey => ENC!DecryptElement(conf, c) = x
        BY <2>3, <2>4, Encrypted
      <3> HIDE DEF c
      <3>. QED BY <3>1, <3>2
    <2> HIDE DEF c
    <2>6. /\ Sound(b, x) /\ Len(b.data) = 2
          /\ b.data[1].method = method /\ b.data[2].cipher.key = rsaKey
          /\ \A conf : conf.key = "rsa" /\ rsaKey = SpKey => ENC!DecryptElement(conf, b) = x
      BY <1>4, <2>5
    <2> HIDE DEF known
    <2>7. \E j \in DOMAIN md :
             /\ md[j].key = b.data[2].cipher.key /\ md[j].use # "signing"
             /\ IF known(md[j]) = {} THEN b.data[1].method = "aes128-cbc"
                ELSE b.data[1].method \in known(md[j])
      BY <2>1, <2>2, <2>4, <2>6
    <2>. QED BY <2>6, <2>7 DEF b, known
  <1>. QED BY <1>2, <1>3, <1>4

\* ServiceProvider.Metadata: descriptors, of which the first is for encryption where the key
\* is RSA; with the one certificate of it, an answer is not an error.
LEMMA OwnMetadata ==
    ASSUME NEW conf \in Config
    PROVE  /\ ENC!SpKeyDescriptors(conf) \in Seq(ENC!Descriptor)
           /\ conf.key = "rsa" /\ conf.intermediates = 0 =>
                 \A x \in ENC!Content :
                    x.len >= 1 => ENC!MakeAssertionEl(ENC!SpKeyDescriptors(conf), x) # Error
  <1> DEFINE n == 1 + conf.intermediates
             methods == <<"aes128-gcm", "aes128-cbc", "aes192-cbc", "aes256-cbc", "oaep-mgf1p">>
             e == [use |-> "encryption", key |-> SpKey, certificates |-> n, methods |-> methods]
             g == [use |-> "signing", key |-> SpKey, certificates |-> n, methods |-> <<>>]
             s == IF conf.key = "rsa" THEN <<e>> ELSE <<>>
             t == IF conf.signs THEN <<g>> ELSE <<>>
             md == ENC!SpKeyDescriptors(conf)
  <1>1. n \in Nat /\ n > 0 /\ (conf.intermediates = 0 => n = 1)
    BY EncryptionAssumption
  <1>2. md = s \o t
    BY DEF ENC!SpKeyDescriptors
  <1>3. methods \in Seq(ENC!Method)
    BY DEF ENC!Method, ENC!RsaMethod, ENC!CbcMethod, ENC!GcmMethod
  <1>4. <<>> \in Seq(ENC!Method)
    OBVIOUS
  <1> HIDE DEF n, methods
  <1>5. e \in ENC!Descriptor /\ g \in ENC!Descriptor
    BY <1>1, <1>3, <1>4, Apart DEF ENC!Descriptor
  <1>6. e.use = "encryption" /\ e.key = SpKey /\ e.certificates = n
    OBVIOUS
  <1> HIDE DEF e, g
  <1>7. s \in Seq(ENC!Descriptor) /\ t \in Seq(ENC!Descriptor)
    BY <1>5
  <1> HIDE DEF s, t
  <1>8. md \in Seq(ENC!Descriptor)
    <2> HIDE DEF md
    <2>. QED BY <1>2, <1>7, Concatenated
  <1>9. ASSUME conf.key = "rsa", conf.intermediates = 0, NEW x \in ENC!Content, x.len >= 1
        PROVE  ENC!MakeAssertionEl(md, x) # Error
    <2>1. s = <<e>>
      BY <1>9 DEF s
    <2>2. 1 \in DOMAIN md /\ md[1] = e
      <3>1. 1 \in DOMAIN s /\ s[1] = e
        BY <2>1
      <3> HIDE DEF md
      <3>2. 1 \in DOMAIN (s \o t) /\ (s \o t)[1] = s[1]
        BY <1>7, <3>1, Parts
      <3>. QED BY <1>2, <3>1, <3>2
    <2> DEFINE L == {i \in DOMAIN md : md[i].use = "encryption" /\ md[i].certificates > 0}
               first == IF L = {} THEN None ELSE CHOOSE i \in L : \A j \in L : i <= j
               i == ENC!SpEncryptionKeyDescriptor(md)
    <2>3. 1 \in L
      BY <1>1, <1>6, <2>2
    <2>4. first # None => i = first
      BY DEF ENC!SpEncryptionKeyDescriptor, ENC!FirstOf
    <2>5. L \subseteq 1..Len(md) /\ Len(md) \in Nat
      <3> HIDE DEF md
      <3>. QED BY <1>8
    <2>6. first # None /\ first \in L /\ first <= 1
      <3> HIDE DEF L
      <3>1. L \subseteq Nat
        BY <2>5
      <3>. QED BY <2>3, <3>1, FirstIndex
    <2> HIDE DEF first, L, i
    <2>7. i = 1
      BY <2>4, <2>5, <2>6
    <2>8. ENC!GetSPEncryptionCert(md) = SpKey
      <3>1. i # None /\ md[i].certificates = 1 /\ md[i].key = SpKey
        BY <1>1, <1>6, <1>9, <2>2, <2>4, <2>6, <2>7
      <3>. QED BY <3>1 DEF ENC!GetSPEncryptionCert, i
    <2>9. SpKey # None /\ SpKey # Error
      BY Apart
    <2> DEFINE b == [data |-> ENC!Encrypt(SpKey, ENC!ContentEncryption(md), "sha1", x),
                     side |-> <<>>]
    <2>10. ENC!MakeAssertionEl(md, x) = b
      BY <2>8, <2>9 DEF ENC!MakeAssertionEl
    <2>11. ENC!ContentEncryption(md) \in ENC!ContentEncryptionMethods
      <3>1. ENC!SpEncryptionKeyDescriptor(md) # None
        BY <2>4, <2>6 DEF i
      <3> HIDE DEF md
      <3>. QED BY <1>8, <3>1, ContentChosen
    <2> HIDE DEF md
    <2>12. Sound(b, x)
      BY <1>9, <2>11, Apart, Encrypted
    <2>13. b \in ENC!Message
      BY <2>12 DEF Sound
    <2> HIDE DEF b
    <2>. QED BY <2>10, <2>13, Apart
  <1>. QED BY <1>8, <1>9

-----------------------------------------------------------------------------
\* Encryption: the invariant.

\* An assertion of the identity provider, or of another one.
Assertion(x) ==
    x = ENC!StrayText \/ \E len \in Length : x = [is |-> "assertion", len |-> len]

\* x was sent encrypted, and has arrived as m.
Arrived(md, x, m, whole) ==
    \E b : /\ Sound(b, x) /\ Arrives(b, m, whole)
           /\ x # ENC!StrayText => b = ENC!MakeAssertionEl(md, x)

\* x was answered with, and not encrypted.
Unencrypted(md, x, m) ==
    x # ENC!StrayText /\ m \in {Clear, Error} /\ m = ENC!MakeAssertionEl(md, x)

EInv ==
    /\ config \in Config
    /\ metadata # None => metadata \in Seq(ENC!Descriptor)
    /\ own => metadata = ENC!SpKeyDescriptors(config)
    /\ text = None => message = None /\ intact = TRUE /\ decrypted = None
    /\ text # None =>
          /\ metadata # None /\ Assertion(text)
          /\ \/ Unencrypted(metadata, text, message) /\ decrypted = None
             \/ /\ Arrived(metadata, text, message, intact)
                /\ decrypted # None => decrypted = ENC!DecryptElement(config, message)

\* Assertions are content, and not empty.
LEMMA AssertionShape ==
    ASSUME NEW x, Assertion(x)
    PROVE  x \in ENC!Content /\ x.len >= 1 /\ x # None
  <1>1. x \in ENC!Content /\ x.len >= 1
    BY EncryptionAssumption DEF Assertion, ENC!Content, ENC!StrayText
  <1>. QED BY <1>1, Apart

\* What arrives is a message.
LEMMA ArrivedMessage ==
    ASSUME NEW md, NEW x, NEW m, NEW whole, Arrived(md, x, m, whole)
    PROVE  m \in ENC!Message /\ m \notin {None, Clear, Error}
  <1>1. m \in ENC!Message
    BY ArrivedShape DEF Arrived
  <1>. QED BY <1>1, Apart

\* The identity provider answers: Unencrypted, or a message that has Arrived.
LEMMA AnswerMade ==
    ASSUME NEW md \in Seq(ENC!Descriptor), NEW x, Assertion(x), x # ENC!StrayText,
           NEW m, m = ENC!MakeAssertionEl(md, x)
    PROVE  Unencrypted(md, x, m) \/ Arrived(md, x, m, TRUE)
  <1>1. m \in {Clear, Error} \/ Sound(m, x)
    BY AssertionShape, Answered
  <1>2. Arrives(m, m, TRUE)
    BY DEF Arrives
  <1>. QED BY <1>1, <1>2 DEF Unencrypted, Arrived

\* So does another one.
LEMMA StrayMade ==
    ASSUME NEW md, NEW m \in Stray
    PROVE  Arrived(md, ENC!StrayText, m, TRUE)
  <1>1. Sound(m, ENC!StrayText)
    BY EncryptionAssumption DEF ENC!StrayMessage, Sound
  <1>2. Arrives(m, m, TRUE)
    BY DEF Arrives
  <1>. QED BY <1>1, <1>2 DEF Arrived

\* Every step keeps the invariant.
LEMMA PublishStep == ASSUME EInv, ENC!Publish PROVE EInv'
  <1>1. /\ metadata = None /\ text = None
        /\ config' = config /\ text' = text /\ message' = message /\ intact' = intact
        /\ decrypted' = decrypted
    BY DEF ENC!Publish, EInv
  <1>2. /\ metadata' \in Seq(ENC!Descriptor)
        /\ own' => metadata' = ENC!SpKeyDescriptors(config')
    BY <1>1, OwnMetadata, EncryptionAssumption DEF ENC!Publish, EInv
  <1>. QED BY <1>1, <1>2 DEF EInv

LEMMA AnswerStep == ASSUME EInv, ENC!Answer PROVE EInv'
  <1>1. /\ metadata # None /\ text = None
        /\ config' = config /\ metadata' = metadata /\ own' = own /\ intact' = TRUE
        /\ decrypted' = None
        /\ message' = ENC!MakeAssertionEl(metadata', text')
    BY DEF ENC!Answer, EInv
  <1>2. PICK len \in Length : text' = [is |-> "assertion", len |-> len]
    BY DEF ENC!Answer
  <1>3. Assertion(text') /\ text' # ENC!StrayText
    BY <1>2 DEF Assertion, ENC!StrayText
  <1>4. metadata' \in Seq(ENC!Descriptor)
    BY <1>1 DEF EInv
  <1>5. Unencrypted(metadata', text', message') \/ Arrived(metadata', text', message', intact')
    BY <1>1, <1>3, <1>4, AnswerMade
  <1>6. text' # None
    BY <1>3, AssertionShape
  <1>. QED BY <1>1, <1>3, <1>4, <1>5, <1>6 DEF EInv

LEMMA AnswerStrayStep == ASSUME EInv, ENC!AnswerStray PROVE EInv'
  <1>1. /\ metadata # None /\ text = None /\ text' = ENC!StrayText /\ message' \in Stray
        /\ config' = config /\ metadata' = metadata /\ own' = own /\ intact' = TRUE
        /\ decrypted' = None
    BY DEF ENC!AnswerStray, EInv
  <1>2. Assertion(text')
    BY <1>1 DEF Assertion
  <1>3. Arrived(metadata', text', message', intact')
    BY <1>1, StrayMade
  <1>4. text' # None
    BY <1>2, AssertionShape
  <1>. QED BY <1>1, <1>2, <1>3, <1>4 DEF EInv

\* On its way is what has arrived so far.
LEMMA OnTheWay ==
    ASSUME EInv, ENC!OnItsWay
    PROVE  text # None /\ Arrived(metadata, text, message, intact) /\ decrypted = None
  BY DEF EInv, ENC!OnItsWay, Unencrypted

LEMMA DamageStep == ASSUME EInv, ENC!Damage PROVE EInv'
  <1>1. /\ ENC!OnItsWay /\ intact /\ message.data[1].cipher # None /\ intact' = FALSE
        /\ config' = config /\ metadata' = metadata /\ own' = own /\ text' = text
        /\ decrypted' = decrypted
    BY DEF ENC!Damage
  <1>2. PICK cut \in 0..message.data[1].cipher.len, last \in {0, 1, 15, 16, 31, 32, 255} :
           message' = ENC!Damaged(message, cut, last)
    BY DEF ENC!Damage
  <1>3. text # None /\ Arrived(metadata, text, message, intact) /\ decrypted = None
    BY <1>1, OnTheWay
  <1>4. Arrived(metadata, text, message, TRUE)
    BY <1>1, <1>3 DEF Arrived, Arrives
  <1>5. Arrived(metadata, text, ENC!Damaged(message, cut, last), FALSE)
    <2>1. last \in Nat
      OBVIOUS
    <2>2. message.data[1].cipher # None
      BY <1>1
    <2>3. Arrives(message, ENC!Damaged(message, cut, last), FALSE)
      BY <2>1, <2>2 DEF Arrives
    <2>4. /\ Sound(message, text)
          /\ text # ENC!StrayText => message = ENC!MakeAssertionEl(metadata, text)
      BY <1>4 DEF Arrived, Arrives
    <2>. QED BY <2>3, <2>4 DEF Arrived
  <1>6. Arrived(metadata', text', message', intact')
    BY <1>1, <1>2, <1>5
  <1>. QED BY <1>1, <1>3, <1>6 DEF EInv

LEMMA DecryptStep == ASSUME EInv, ENC!Receive PROVE EInv'
  <1>1. /\ ENC!OnItsWay /\ decrypted' = ENC!DecryptElement(config, message)
        /\ config' = config /\ metadata' = metadata /\ own' = own /\ text' = text
        /\ message' = message /\ intact' = intact
    BY DEF ENC!Receive
  <1>2. text # None /\ Arrived(metadata, text, message, intact)
    BY <1>1, OnTheWay
  <1>. QED BY <1>1, <1>2 DEF EInv

-----------------------------------------------------------------------------
\* Encryption: what the invariant is for.

\* An encrypted answer, as it arrives: its method is one of the very descriptor whose key it
\* is for, and its owner reads it.
LEMMA AnswerRead ==
    ASSUME NEW md \in Seq(ENC!Descriptor), NEW x, Assertion(x), x # ENC!StrayText,
           NEW m, NEW whole, Arrived(md, x, m, whole)
    PROVE  LET key == m.data[2].cipher.key
               method == m.data[1].method
               known(k) == {k.methods[j] : j \in DOMAIN k.methods}
                             \cap ENC!ContentEncryptionMethods
           IN /\ \E i \in DOMAIN md :
                    /\ md[i].key = key /\ md[i].use # "signing"
                    /\ IF known(md[i]) = {} THEN method = "aes128-cbc"
                       ELSE method \in known(md[i])
              /\ \A conf : whole /\ conf.key = "rsa" /\ key = SpKey =>
                              ENC!DecryptElement(conf, m) = x
  <1> DEFINE b == ENC!MakeAssertionEl(md, x)
             known(k) == {k.methods[j] : j \in DOMAIN k.methods} \cap ENC!ContentEncryptionMethods
  <1>1. Sound(b, x) /\ Arrives(b, m, whole)
    BY DEF Arrived
  <1>2. b \notin {Clear, Error}
    <2>1. b \in ENC!Message
      BY <1>1 DEF Sound
    <2> HIDE DEF b
    <2>. QED BY <2>1, Apart
  <1>3. x \in ENC!Content /\ x.len >= 1
    BY AssertionShape
  <1> HIDE DEF known
  <1>4. /\ Len(b.data) = 2
        /\ \E i \in DOMAIN md :
              /\ md[i].key = b.data[2].cipher.key /\ md[i].use # "signing"
              /\ IF known(md[i]) = {} THEN b.data[1].method = "aes128-cbc"
                 ELSE b.data[1].method \in known(md[i])
        /\ \A conf : conf.key = "rsa" /\ b.data[2].cipher.key = SpKey =>
                        ENC!DecryptElement(conf, b) = x
    BY <1>2, <1>3, Answered DEF known
  <1> HIDE DEF b
  <1>5. /\ \A i \in 2..Len(b.data) : m.data[i] = b.data[i]
        /\ m.data[1].method = b.data[1].method
        /\ whole => m = b
    BY <1>1, ArrivedShape
  <1>6. m.data[2] = b.data[2]
    BY <1>4, <1>5
  <1>7. \E i \in DOMAIN md :
           /\ md[i].key = m.data[2].cipher.key /\ md[i].use # "signing"
           /\ IF known(md[i]) = {} THEN m.data[1].method = "aes128-cbc"
              ELSE m.data[1].method \in known(md[i])
    BY <1>4, <1>5, <1>6
  <1>8. \A conf : whole /\ conf.key = "rsa" /\ m.data[2].cipher.key = SpKey =>
                     ENC!DecryptElement(conf, m) = x
    BY <1>4, <1>5
  <1>. QED BY <1>7, <1>8 DEF known

\* What can be read is read, by a method of the key.
LEMMA ReadableHolds == ASSUME EInv PROVE ENC!Readable /\ ENC!MethodOfTheKey
  <1>1. CASE text = None
    <2>1. message = None
      BY <1>1 DEF EInv
    <2>. QED BY <1>1, <2>1 DEF ENC!Readable, ENC!MethodOfTheKey
  <1>2. CASE text = ENC!StrayText
    BY <1>2 DEF ENC!Readable, ENC!MethodOfTheKey
  <1>3. CASE text # None /\ text # ENC!StrayText
    <2>1. metadata \in Seq(ENC!Descriptor) /\ Assertion(text)
      BY <1>3 DEF EInv
    <2>2. text \in ENC!Content /\ text.len >= 1
      BY <2>1, AssertionShape
    <2>3. CASE Unencrypted(metadata, text, message) /\ decrypted = None
      <3>1. message \in {Clear, Error} /\ message = ENC!MakeAssertionEl(metadata, text)
        BY <2>3 DEF Unencrypted
      <3>2. config.key = "rsa" /\ own /\ config.intermediates = 0 => message # Error
        BY <2>2, <3>1, OwnMetadata DEF EInv
      <3>. QED BY <2>3, <3>1, <3>2 DEF ENC!Readable, ENC!MethodOfTheKey
    <2>4. CASE Arrived(metadata, text, message, intact)
      <3>1. message \notin {None, Clear, Error}
        BY <2>4, ArrivedMessage
      <3>2. ENC!MethodOfTheKey
        BY <1>3, <2>1, <2>4, AnswerRead DEF ENC!MethodOfTheKey
      <3>3. /\ intact /\ config.key = "rsa" /\ message.data[2].cipher.key = SpKey =>
                  ENC!DecryptElement(config, message) = text
        BY <1>3, <2>1, <2>4, AnswerRead
      <3>4. decrypted # None => decrypted = ENC!DecryptElement(config, message)
        BY <1>3, <2>4, <3>1 DEF EInv, Unencrypted
      <3>5. ENC!Readable
        BY <3>1, <3>3, <3>4 DEF ENC!Readable
      <3>. QED BY <3>2, <3>5
    <2>. QED BY <1>3, <2>3, <2>4 DEF EInv
  <1>. QED BY <1>1, <1>2, <1>3

\* What is read is whole, or of a damaged message less than its blocks, by keys that fit.
LEMMA ReadsWholeHolds == ASSUME EInv PROVE ENC!ReadsWhole /\ ENC!KeysFit
  <1> SUFFICES ASSUME decrypted \notin {None, Error} PROVE ENC!ReadsWhole /\ ENC!KeysFit
    BY DEF ENC!ReadsWhole, ENC!KeysFit
  <1>1. /\ text # None /\ Assertion(text) /\ Arrived(metadata, text, message, intact)
        /\ decrypted = ENC!DecryptElement(config, message)
    BY DEF EInv
  <1>2. PICK b : Sound(b, text) /\ Arrives(b, message, intact)
    BY <1>1 DEF Arrived
  <1>3. text \in ENC!Content /\ text.len >= 1
    BY <1>1, AssertionShape
  <1>4. ENC!DecryptElement(config, message) # Error
    BY <1>1
  <1>5. ENC!ReadsWhole
    BY <1>1, <1>2, <1>3, <1>4, WholeRead DEF ENC!ReadsWhole
  <1>6. ENC!KeysFit
    BY <1>2, <1>4, KeysRead DEF ENC!KeysFit
  <1>. QED BY <1>5, <1>6

-----------------------------------------------------------------------------
\* A message under either protection.

BInv ==
    /\ by = "query" => RInv
    /\ by # "query" => outcome = Pending
    /\ by = "encryption" => EInv

LEMMA BrowserStarts == BrowserInit => BInv
  <1> SUFFICES ASSUME BrowserInit PROVE BInv
    OBVIOUS
  <1>1. CASE by = "query"
    <2>1. Init
      BY <1>1 DEF BrowserInit
    <2>. QED BY <1>1, <2>1, Starts DEF BInv
  <1>2. CASE by # "query"
    <2>1. outcome = Pending
      BY <1>2 DEF BrowserInit, NoQuery
    <2>2. by = "encryption" => EInv
      <3>1. by = "encryption" => ENC!Init
        BY DEF BrowserInit
      <3>. QED BY <3>1 DEF ENC!Init, EInv
    <2>. QED BY <1>2, <2>1, <2>2 DEF BInv
  <1>. QED BY <1>1, <1>2

LEMMA EncryptionKept == EInv /\ [ENC!Next]_encVars => EInv'
  <1> SUFFICES ASSUME EInv, [ENC!Next]_encVars PROVE EInv'
    OBVIOUS
  <1>1. CASE UNCHANGED encVars
    BY <1>1 DEF encVars, EInv
  <1>. QED BY <1>1, PublishStep, AnswerStep, AnswerStrayStep, DamageStep, DecryptStep DEF ENC!Next

LEMMA BrowserKept == BInv /\ [BrowserNext]_<<by, vars, encVars>> => BInv'
  <1> SUFFICES ASSUME BInv, [BrowserNext]_<<by, vars, encVars>> PROVE BInv'
    OBVIOUS
  <1>1. by' = by
    BY DEF BrowserNext
  <1>2. by = "query" => RInv'
    <2>1. by = "query" => RInv /\ [Next]_vars
      BY DEF BrowserNext, BInv
    <2>. QED BY <2>1, Kept
  <1>3. by # "query" => outcome' = outcome
    BY DEF BrowserNext, vars
  <1>4. by = "encryption" => EInv'
    <2>1. by = "encryption" => EInv /\ [ENC!Next]_encVars
      BY DEF BrowserNext, BInv
    <2>. QED BY <2>1, EncryptionKept
  <1>. QED BY <1>1, <1>2, <1>3, <1>4 DEF BInv, Pending

LEMMA BrowserInvariant == Browser => []BInv
  <1>1. BrowserInit => BInv
    BY BrowserStarts
  <1>2. BInv /\ [BrowserNext]_<<by, vars, encVars>> => BInv'
    BY BrowserKept
  <1>. QED BY <1>1, <1>2, PTL DEF Browser

\* Whatever message is on its way, what is processed of a query is what a trusted key has
\* signed, and what was signed gets through (readRedirectRequest, redirectURLWithContext).
THEOREM SignedWhateverArrives == Browser => [](ProcessedIsSigned /\ SignedArrives)
  <1>1. BInv => ProcessedIsSigned /\ SignedArrives
    <2>1. RInv => ProcessedIsSigned /\ SignedArrives
      BY DEF RInv
    <2>2. outcome = Pending => ProcessedIsSigned /\ SignedArrives
      BY DEF ProcessedIsSigned, SignedArrives, Pending
    <2>. QED BY <2>1, <2>2 DEF BInv
  <1>. QED BY <1>1, BrowserInvariant, PTL

\* What MakeAssertionEl encrypts to a service provider's RSA key, decryptElement reads, for
\* any metadata and any length of the assertion, by a method that the metadata gives for
\* that very key (contentEncryption); and the metadata of ServiceProvider.Metadata with one
\* certificate always gets an answer.
THEOREM EncryptedIsReadable == Browser => []Readable
  <1>1. BInv => Readable
    BY ReadableHolds DEF BInv, Readable
  <1>. QED BY <1>1, BrowserInvariant, PTL

\* What decryptElement returns is the whole assertion, of this or another identity provider,
\* with any nesting of keys, or of a message damaged under CBC less than its blocks hold
\* (stripPadding); every key had the length of its method, and PKCS1v15 was opted in to.
THEOREM NothingBeyondTheBlocks == Browser => []ReadsWhole
  <1>1. BInv => ReadsWhole
    BY ReadsWholeHolds DEF BInv, ReadsWhole
  <1>. QED BY <1>1, BrowserInvariant, PTL

=============================================================================
