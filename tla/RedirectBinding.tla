--------------------------- MODULE RedirectBinding ---------------------------
(***************************************************************************)
(* A message in the query of a URL, with a signature over the query as it  *)
(* was sent (SAMLBind 3.4.4.1): redirectURLWithContext makes the URL,      *)
(* readRedirectRequest and verifyRedirectSignature read it at an identity  *)
(* provider, ValidateLogoutResponseRequest and ...Redirect at a service    *)
(* provider.                                                               *)
(*                                                                         *)
(* The two readers of the query differ, as they do in the code: url.Values *)
(* drops the pairs it cannot parse, decodes the keys and takes the first   *)
(* value; redirectParameters decodes the keys, keeps the values as they    *)
(* were received and refuses a repeated parameter. A raw key or value is   *)
(* what it decodes to and how it is written.                               *)
(***************************************************************************)
EXTENDS Naturals, Sequences, FiniteSets

CONSTANTS
    Messages,     \* the messages that can be sent
    Relays,       \* RelayState values; "" is none
    Keys,         \* signing keys
    KeyType,      \* the type of each: "rsa" or "ecdsa"
    Certificates, \* the keys whose certificates the receiver may hold, as sets
    Expired,      \* the keys whose certificate is not valid at this time
    Destinations, \* queries the endpoint's own location may have
    MaxEdits      \* changes made to the query on its way

NoKey == "unsigned"
Signing == {"SAMLRequest", "SAMLResponse", "RelayState", "SigAlg", "Signature"}

(* How a key or a value is written: as url.QueryEscape does, in another    *)
(* encoding of the same text, with a bad escape, or with a semicolon.      *)
Forms == {"escaped", "other", "bad", "semicolon"}
Raw(text, form) == [text |-> text, form |-> form]
Pair(name, text) == [key |-> Raw(name, "escaped"), value |-> Raw(text, "escaped")]

ASSUME KeyTypes ==
    /\ KeyType \in [Keys -> {"rsa", "ecdsa"}]
    /\ Certificates \subseteq SUBSET Keys /\ NoKey \notin Keys

\* The parameters an endpoint has of its own are none of those that are added.
ASSUME OwnParameters ==
    \A base \in Destinations :
       /\ base \in Seq([key : [text : STRING, form : Forms], value : [text : STRING, form : Forms]])
       /\ \A i \in DOMAIN base : base[i].key.text \notin Signing /\ base[i].key.form # "bad"

VARIABLES
    sent,     \* what was sent: [parameter, message, relay, key]
    query,    \* the pairs of the query, in order
    trusted,  \* the keys whose certificates the receiver holds
    required, \* whether an identity provider wants its requests signed
    edits,    \* changes made on the way
    altered,  \* whether one of them touched a parameter that takes part in a signature
    outcome   \* what the receiver made of it

vars == <<sent, query, trusted, required, edits, altered, outcome>>

Pending == [is |-> "pending"]
Refused == [is |-> "refused"]

-----------------------------------------------------------------------------
(* Making the URL.                                                         *)

\* The order matters: these parameters are signed as they are written, RelayState if there is one.
SignedText(parameter, message, relay, sigAlg) ==
    <<<<parameter, message>>>> \o [i \in DOMAIN relay |-> <<"RelayState", relay[i]>>] \o <<<<"SigAlg", sigAlg>>>>

\* Mutant of RedirectURL: the signature is made over the parameters of the destination, too.
MutantRedirectURL(base, parameter, message, relay, key) ==
    LET relays == IF relay = "" THEN <<>> ELSE <<Raw(relay, "escaped")>>
        alg == Raw(KeyType[key], "escaped")
        text == [i \in DOMAIN base |-> <<base[i].key.text, base[i].value>>]
                    \o SignedText(parameter, Raw(message, "escaped"), relays, alg)
    IN  base \o <<Pair(parameter, message)>> \o [i \in DOMAIN relays |-> Pair("RelayState", relay)]
             \o (IF key = NoKey THEN <<>>
                 ELSE <<Pair("SigAlg", KeyType[key]), Pair("Signature", [key |-> key, over |-> text])>>)

RedirectURL(base, parameter, message, relay, key) ==
    LET relays == IF relay = "" THEN <<>> ELSE <<Raw(relay, "escaped")>>
        text == SignedText(parameter, Raw(message, "escaped"), relays, Raw(KeyType[key], "escaped"))
    IN  base \o <<Pair(parameter, message)>> \o [i \in DOMAIN relays |-> Pair("RelayState", relay)]
             \o (IF key = NoKey THEN <<>>
                 ELSE <<Pair("SigAlg", KeyType[key]), Pair("Signature", [key |-> key, over |-> text])>>)

-----------------------------------------------------------------------------
(* Reading it.                                                             *)

\* url.ParseQuery keeps what it can; Get returns the first value of a key.
Parsed(i) == query[i].key.form \in {"escaped", "other"} /\ query[i].value.form \in {"escaped", "other"}
Positions(name) == {i \in DOMAIN query : Parsed(i) /\ query[i].key.text = name}
Has(name) == Positions(name) # {}
Get(name) == query[CHOOSE i \in Positions(name) : \A j \in Positions(name) : i <= j].value.text

\* redirectParameters: malformed keys and repeats are errors; the values stay as they are.
\* Mutant of Occurs: the keys are compared as they were received.
MutantOccurs(name) == {i \in DOMAIN query : query[i].key = Raw(name, "escaped")}

Occurs(name) == {i \in DOMAIN query : query[i].key.text = name /\ query[i].key.form # "semicolon"}
ParametersFail ==
    \/ \E i \in DOMAIN query : query[i].key.form = "bad"
    \/ \E name \in Signing : Cardinality(Occurs(name)) > 1
Parameter(name) == query[CHOOSE i \in Occurs(name) : TRUE].value

Unescapes(raw) == raw.form # "bad"

\* A certificate verifies the digest with an algorithm that fits its key.
VerifyDigest(key, algorithm, signature, text) ==
    KeyType[key] = algorithm /\ signature = [key |-> key, over |-> text]

VerifyRedirectSignature(parameter) ==
    /\ ~ParametersFail
    /\ \A name \in {parameter, "SigAlg", "Signature"} : Occurs(name) # {}
    /\ Unescapes(Parameter("SigAlg")) /\ Unescapes(Parameter("Signature"))
    /\ Parameter("SigAlg").form # "semicolon" /\ Parameter("Signature").form # "semicolon"
    /\ LET relays == IF Occurs("RelayState") = {} THEN <<>> ELSE <<Parameter("RelayState")>>
           text == SignedText(parameter, Parameter(parameter), relays, Parameter("SigAlg"))
       IN  \E key \in trusted \ Expired :
              VerifyDigest(key, Parameter("SigAlg").text, Parameter("Signature").text, text)

\* A message that does not decode (base64, DEFLATE) is an error at either reader.
Decodes(text) == text \in Messages

Accepted(message, relay, signed) ==
    [is |-> "accepted", message |-> message, relay |-> relay, signed |-> signed]

\* readRedirectRequest, then the part of verifyAuthnRequestSignature that is about the query.
IdpReceive ==
    LET signedQuery == Has("Signature") \/ Has("SigAlg")
        relay == IF Has("RelayState") THEN Get("RelayState") ELSE ""
    IN  IF /\ Has("SAMLRequest") /\ Decodes(Get("SAMLRequest"))
           /\ IF signedQuery THEN VerifyRedirectSignature("SAMLRequest") ELSE ~required
        THEN Accepted(Get("SAMLRequest"), relay, signedQuery)
        ELSE Refused

\* ValidateLogoutResponseRequest with a query, and ValidateLogoutResponseRedirect: without a
\* signature in the query the message itself has to have one, which these do not.
SpReceive ==
    IF /\ ~ParametersFail
       /\ Occurs("SAMLResponse") # {}
       /\ Occurs("Signature") # {} \/ Occurs("SigAlg") # {}
       /\ VerifyRedirectSignature("SAMLResponse")
       /\ Unescapes(Parameter("SAMLResponse"))
       /\ Parameter("SAMLResponse").form # "semicolon"
       /\ Decodes(Parameter("SAMLResponse").text)
    THEN Accepted(Parameter("SAMLResponse").text, "", TRUE)
    ELSE Refused

-----------------------------------------------------------------------------
(* A message on its way through a browser.                                 *)

Init ==
    \E parameter \in {"SAMLRequest", "SAMLResponse"}, message \in Messages, relay \in Relays,
       key \in Keys \cup {NoKey}, base \in Destinations :
        /\ sent = [parameter |-> parameter, message |-> message, relay |-> relay, key |-> key]
        /\ query = RedirectURL(base, parameter, message, relay, key)
        /\ trusted \in Certificates
        /\ required \in BOOLEAN
        /\ edits = 0
        /\ altered = FALSE
        /\ outcome = Pending

Edited(pairs, touches) ==
    /\ outcome = Pending
    /\ edits < MaxEdits
    /\ query' = pairs
    /\ edits' = edits + 1
    /\ altered' = (altered \/ touches)
    /\ UNCHANGED <<sent, trusted, required, outcome>>

Without(i) == [j \in 1 .. Len(query) - 1 |-> query[IF j < i THEN j ELSE j + 1]]

\* The pairs change their order, which no reader depends on.
Swap(i) ==
    /\ i + 1 \in DOMAIN query
    /\ Edited([query EXCEPT ![i] = query[i + 1], ![i + 1] = query[i]], FALSE)

Rewrite(i, part, form) ==
    Edited([query EXCEPT ![i] = IF part = "key" THEN [@ EXCEPT !.key.form = form]
                                                ELSE [@ EXCEPT !.value.form = form]],
           query[i].key.text \in Signing \/ (part = "key" /\ form = "bad"))

Drop(i) == Edited(Without(i), query[i].key.text \in Signing)

\* A pair in front or at the end: an unrelated one, or one more of the parameters.
Add(pair, front) ==
    Edited(IF front THEN <<pair>> \o query ELSE query \o <<pair>>, pair.key.text \in Signing)

Receive ==
    /\ outcome = Pending
    /\ outcome' = IF sent.parameter = "SAMLRequest" THEN IdpReceive ELSE SpReceive
    /\ UNCHANGED <<sent, query, trusted, required, edits, altered>>

Additions == {Pair("utm", "x")} \cup {Pair(sent.parameter, m) : m \in Messages}
                \cup {Pair("RelayState", r) : r \in Relays}

Next ==
    \/ \E i \in DOMAIN query :
          \/ Swap(i)
          \/ \E part \in {"key", "value"}, form \in Forms : Rewrite(i, part, form)
          \/ Drop(i)
    \/ \E pair \in Additions, front \in BOOLEAN : Add(pair, front)
    \/ Receive

Spec == Init /\ [][Next]_vars

-----------------------------------------------------------------------------
(* Properties.                                                             *)

\* What a receiver takes from a signed query is what a trusted key signed, whatever else is in the
\* query and however its keys are written: the message is the signer's, and the RelayState is too
\* unless its encoding is one url.Values drops (readRedirectRequest, redirectParameters).  Where
\* signatures are wanted, taking them out of the query does not make a message pass.
ProcessedIsSigned ==
    outcome.is = "accepted" =>
        /\ required \/ sent.parameter = "SAMLResponse" => outcome.signed
        /\ outcome.signed => /\ sent.key \in trusted \ Expired
                             /\ outcome.message = sent.message
                             /\ sent.parameter = "SAMLRequest" => outcome.relay \in {sent.relay, ""}

\* A destination with parameters of its own, another order of the pairs and unrelated parameters
\* leave a signed message valid.
SignedArrives ==
    /\ outcome.is # "pending" /\ ~altered
    /\ sent.key \in trusted \ Expired
    => /\ outcome.is = "accepted"
       /\ outcome.message = sent.message
       /\ sent.parameter = "SAMLRequest" => outcome.relay = sent.relay
=============================================================================
