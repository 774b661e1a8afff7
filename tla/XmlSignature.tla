---------------------------- MODULE XmlSignature ----------------------------
(***************************************************************************)
(* Enveloped XML signatures: how a message is signed (internal/dsig/       *)
(* sign.go, identity_provider.go MakeAssertionEl and signResponse), carried *)
(* by software that may write it differently, and verified                 *)
(* (internal/dsig/validate.go, service_provider.go verifySignature,        *)
(* identity_provider_signature.go verifyEnvelopedSignature).               *)
(*                                                                         *)
(* Cryptography is ideal: a digest is what was digested, a signature value *)
(* names the key and the canonical SignedInfo it was made over. The        *)
(* children of SignedInfo that only hold attributes are leaves.            *)
(***************************************************************************)
EXTENDS XmlTree, Integers, TLC

CONSTANTS
    Settings,     \* who signs and how, who reads, and what happens in between: see below
    Expired       \* the keys whose certificate is not valid at this time

DS == "ds#"
P == "protocol"
A == "assertion"
XSI == "xsi#"

VARIABLES
    setting, \* the index of one of Settings, for good
    doc,    \* the message
    roots,  \* the certificates the receiver verifies with
    signed, \* what was signed so far: the key, the content, and what is read from it
    sent,   \* what the message said when it was sent, or NotYet
    edits,  \* the kinds of rewriting it has gone through
    count,  \* and their number
    got     \* the outcome of the last verification

vars == <<setting, doc, roots, signed, sent, edits, count, got>>

Signers == Settings[setting].keys                 \* who may sign
KeyInfos == Settings[setting].infos            \* what a signer says of its key: "x509", "rsa" or "none"
Modes == Settings[setting].modes               \* how the reader verifies: "sp", "verifier" or "idp"
Canons == Settings[setting].canons             \* canonicalizations a signer may name: [alg, incl]
Limit == Settings[setting].limit               \* elements one namespace context may visit (1000 in the code)
Declarations == Settings[setting].declarations \* <<prefix, namespace>> that software on the way may add
MaxRewritings == Settings[setting].edits            \* how often the message is rewritten on the way

-----------------------------------------------------------------------------
(* Canonicalizers.                                                         *)

Algorithms == {"exc", "exc#WithComments", "c14n11", "c14n11#WithComments"}

CanonicalizeFails(alg, el) == alg \in {"exc", "exc#WithComments"} /\ ExcC14nFails(el)

Canonicalize(canon, el) ==
    Reread(CASE canon.alg = "exc" -> TransformExcC14n(el, canon.incl, FALSE)
             [] canon.alg = "exc#WithComments" -> TransformExcC14n(el, canon.incl, TRUE)
             [] canon.alg = "c14n11" -> CanonicalPrep(Nothing, el, FALSE)
             [] OTHER -> CanonicalPrep(Nothing, el, TRUE))

NullCanonicalizer == [alg |-> "NULL", incl |-> {}]

-----------------------------------------------------------------------------
(* Signing.                                                                *)

Data(tag, val) == Element("ds", tag, Nothing, Nothing, <<Leaf("data", val)>>)
ID(el) == IF <<"", "ID">> \in DOMAIN el.at THEN el.at[<<"", "ID">>] ELSE ""

ConstructSignedInfo(el, canon) ==
    Element("ds", "SignedInfo", Nothing, Nothing,
        <<Data("CanonicalizationMethod", <<canon.alg>>),
          Data("Reference", <<ID(el), <<[alg |-> "enveloped", incl |-> {}], canon>>, Canonicalize(canon, el)>>)>>)

\* The value is made over SignedInfo with all that is in scope where the signature will stand.
\* The exclusive canonicalizer works in place, so the scope is that of the element it leaves.
ConstructSignature(el, key, canon, keyInfo) ==
    LET left == IF canon.alg \in {"exc", "exc#WithComments"} THEN Canonicalize(canon, el) ELSE el
        info == ConstructSignedInfo(el, canon)
        sig == Element("ds", "Signature", [p \in {"ds"} |-> DS], Nothing, <<>>)
        scope == SubContext(SubContext(DefaultNSContext, left), sig)
        bytes == Canonicalize([canon EXCEPT !.incl = {}], NSDetatch(scope, info))
    IN  [sig EXCEPT !.kids = <<info, Data("SignatureValue", <<key, bytes>>)>>
                             \o (IF keyInfo = "none" THEN <<>>
                                 ELSE <<Data("KeyInfo", IF keyInfo = "x509" THEN <<"x509", key>> ELSE <<"rsa">>)>>)]

-----------------------------------------------------------------------------
(* Finding the signature.                                                  *)

ValidateShape(sig) ==
    LET n(tag) == Cardinality({i \in DOMAIN sig.kids : sig.kids[i].tag = tag})
    IN  n("SignedInfo") = 1 /\ n("KeyInfo") <= 1 /\ n("SignatureValue") = 1

FirstNamed(ctx, el, tag) == LET found == ChildrenNamed(ctx, el, DS, tag) IN IF found = <<>> THEN 0 ELSE found[1].at
DataOf(el) == LET d == SelectSeq(el.kids, LAMBDA n : n.kind = "data") IN IF d = <<>> THEN <<>> ELSE Last(d).val

\* encoding/xml takes these by their local name and then insists on the namespace.
Unreadable(ctx, el, tags) ==
    \E n \in ToSet(ChildElements(el)) :
        n.tag \in tags /\ ~Is([el |-> n, ctx |-> SubContext(ctx, n)], DS, n.tag)

ResolutionFails(e) == DeclaresReserved(e.el) \/ e.el.pre \notin DOMAIN e.ctx

\* What the handler does with a Signature element e: its SignedInfo in canonical form, in place.
CanonicalSignedInfo(e) ==
    LET si == e.el.kids[FirstNamed(e.ctx, e.el, "SignedInfo")]
        alone == NSDetatch(e.ctx, si)
        method == DataOf(si.kids[FirstNamed(SubContext(e.ctx, si), si, "CanonicalizationMethod")])[1]
    IN  Canonicalize([alg |-> method, incl |-> {}], alone)

HandlerFails(e) ==
    \/ ~ValidateShape(e.el)
    \/ \E n \in ToSet(ChildElements(e.el)) : ResolutionFails([el |-> n, ctx |-> SubContext(e.ctx, n)])
    \/ FirstNamed(e.ctx, e.el, "SignedInfo") = 0
    \/ LET si == e.el.kids[FirstNamed(e.ctx, e.el, "SignedInfo")]
           inside == SubContext(e.ctx, si)
           method == FirstNamed(inside, si, "CanonicalizationMethod")
       IN  \/ \E n \in ToSet(ChildElements(si)) : ResolutionFails([el |-> n, ctx |-> SubContext(inside, n)])
           \/ method = 0
           \/ DataOf(si.kids[method]) = <<>>
           \/ DataOf(si.kids[method])[1] \notin Algorithms
           \/ CanonicalizeFails(DataOf(si.kids[method])[1], NSDetatch(e.ctx, si))
           \/ Unreadable(inside, si, {"CanonicalizationMethod", "Reference"})
    \/ Unreadable(e.ctx, e.el, {"SignatureValue", "KeyInfo"})

\* Elements the handler visits: the children up to SignedInfo, the copy of SignedInfo, its children
\* up to the method, and the copy of the whole Signature.
ElementsUpTo(el, i) == Cardinality({j \in 1 .. i : IsElement(el.kids[j])})
HandlerCost(e) ==
    LET at == FirstNamed(e.ctx, e.el, "SignedInfo")
        si == e.el.kids[at]
        method == FirstNamed(SubContext(e.ctx, si), si, "CanonicalizationMethod")
    IN  ElementsUpTo(e.el, at) + Size(si) + ElementsUpTo(si, method) + Size(e.el)

References(si) ==
    LET refs == SelectSeq(ChildElements(si), LAMBDA n : n.tag = "Reference")
    IN  [i \in DOMAIN refs |-> DataOf(refs[i])]

RefersTo(ref, el) == ref # <<>> /\ ref[1] \in {"", ID(el)}

IsSignature(e) == Is(e, DS, "Signature")
Fails(e) == ResolutionFails(e) \/ (IsSignature(e) /\ HandlerFails(e))
Hits(e, el) == IsSignature(e) /\ \E r \in ToSet(References(CanonicalSignedInfo(e))) : RefersTo(r, el)

\* The handler's cost and its effect on the tree.
Visited(e) == IF IsSignature(e) THEN 1 + HandlerCost(e) ELSE 1
Handled(tree, e) ==
    IF IsSignature(e) THEN PutAt(tree, Append(e.path, FirstNamed(e.ctx, e.el, "SignedInfo")), CanonicalSignedInfo(e))
    ELSE tree

\* The traversal of el in document order, walk, when it ends after the elements seen.
Found(el, seen) ==
    IF \/ seen = <<>>
       \/ Fails(Last(seen))
       \/ FoldLeft(LAMBDA n, e : n + Visited(e), 0, seen) > Limit
    THEN [ok |-> FALSE]
    ELSE [ok |-> TRUE, path |-> Last(seen).path, el |-> FoldLeft(Handled, el, seen)]

\* Up to the first signature that refers to the root, or an error.
UpToFirst(walk, ends) ==
    IF ends = {} THEN <<>> ELSE SubSeq(walk, 1, CHOOSE i \in ends : \A j \in ends : i <= j)
SeenIn(walk, el) == UpToFirst(walk, {i \in DOMAIN walk : Fails(walk[i]) \/ Hits(walk[i], el)})
FindSignature(el) == Found(el, SeenIn(Preorder(DefaultNSContext, el, <<>>), el))

-----------------------------------------------------------------------------
(* Verifying it.                                                           *)

Refused == [ok |-> FALSE]

\* The certificate to check against: the one in KeyInfo if it is among the roots, or the only root.
VerifyCertificate(sig, certs) ==
    LET info == SelectSeq(ChildElements(sig), LAMBDA n : n.tag = "KeyInfo")
        named == IF info = <<>> THEN <<>> ELSE DataOf(info[1])
        cert == IF info # <<>> THEN (IF Len(named) = 2 THEN {named[2]} ELSE {})
                ELSE IF Len(certs) = 1 THEN {certs[1]} ELSE {}
    IN  (cert \cap ToSet(certs)) \ Expired

Transform(el, path, ref) ==
    LET step(acc, t) ==
            CASE ~acc.ok -> acc
              [] t.alg = "enveloped" ->
                    LET parent == At(acc.el, Front(path))
                    IN  IF Last(path) \in DOMAIN parent.kids /\ IsElement(parent.kids[Last(path)])
                        THEN [acc EXCEPT !.el = CutAt(@, path)] ELSE [acc EXCEPT !.ok = FALSE]
              [] t.alg \in Algorithms -> [acc EXCEPT !.canon = t]
              [] OTHER -> [acc EXCEPT !.ok = FALSE]
    IN  FoldLeft(step, [ok |-> path # <<>>, el |-> el, canon |-> NullCanonicalizer], ref[2])

ValidateSignature(el, path, cert) ==
    LET sig == At(el, path)
        bytes == SelectSeq(ChildElements(sig), LAMBDA n : n.tag = "SignedInfo")[1]
        value == DataOf(SelectSeq(ChildElements(sig), LAMBDA n : n.tag = "SignatureValue")[1])
        refs == SelectSeq(References(bytes), LAMBDA r : RefersTo(r, el))
        done == Transform(el, path, refs[1])
        content == Canonicalize(done.canon, done.el)
    IN  IF /\ value = <<cert, bytes>>
           /\ refs # <<>>
           /\ done.ok
           /\ ~CanonicalizeFails(done.canon.alg, done.el)
           /\ content = refs[1][3]
        THEN [ok |-> TRUE, content |-> content, by |-> cert]
        ELSE Refused

ValidateFound(found, certs) ==
    IF ~found.ok THEN Refused
    ELSE LET cert == VerifyCertificate(At(found.el, found.path), certs)
         IN  IF cert = {} THEN Refused
             ELSE ValidateSignature(found.el, found.path, CHOOSE c \in cert : TRUE)
Validate(el, certs) == ValidateFound(FindSignature(el), certs)

\* Mutant of WithoutBareKeyInfo: KeyInfo stays, with or without a certificate.
MutantWithoutBareKeyInfo(el) == el

\* KeyInfo is dropped when no certificate is in it: the receiver's own are then used.
WithoutBareKeyInfo(el) ==
    LET tagged(n, tag) == {i \in DOMAIN n.kids : n.kids[i].tag = tag}
        first(set) == CHOOSE i \in set : \A j \in set : i <= j
        sigs == tagged(el, "Signature")
        certificate == \E s \in sigs : \E i \in tagged(el.kids[s], "KeyInfo") : Len(DataOf(el.kids[s].kids[i])) = 2
        s1 == first(sigs)
    IN  IF certificate \/ sigs = {} \/ tagged(el.kids[s1], "KeyInfo") = {} THEN el
        ELSE CutAt(el, <<s1, first(tagged(el.kids[s1], "KeyInfo"))>>)

\* signatureValidationContext: the element as a document of its own, with what is in scope there.
DetachedFails(tree, path) == AncestorsFail(tree, path) \/ DetatchFails(At(tree, path), Limit)
Detached(tree, path) == NSDetatch(ScopeAt(DefaultNSContext, tree, path), WithoutBareKeyInfo(At(tree, path)))

OneSignature(tree, path) ==
    LET ctx == ScopeAt(DefaultNSContext, tree, path)
    IN  /\ ~AncestorsFail(tree, path) /\ ~DeclaresReserved(At(tree, path))
        /\ ~FindChildrenFails(ctx, At(tree, path), "Signature")
        /\ Len(ChildrenNamed(ctx, At(tree, path), DS, "Signature")) = 1

\* verifySignature of a service provider, for the element of the message at path.
VerifySignature(tree, path, certs) ==
    IF ~OneSignature(tree, path) \/ certs = <<>> \/ DetachedFails(tree, path) THEN Refused
    ELSE Validate(Detached(tree, path), certs)

\* verifyEnvelopedSignature of an identity provider: one certificate at a time, the first that will do.
VerifyEnveloped(tree, path, certs) ==
    IF ~OneSignature(tree, path) \/ DetachedFails(tree, path) THEN Refused
    ELSE FoldLeft(LAMBDA r, cert : IF r.ok THEN r ELSE Validate(Detached(tree, path), <<cert>>), Refused, certs)

-----------------------------------------------------------------------------
(* What encoding/xml makes of an element: the fields of the structs that   *)
(* are told apart here, for every element outside the signatures.          *)

FieldNames == {"ID", "X"}

RECURSIVE View(_, _)
View(ctx, el) ==
    LET scope == SubContext(ctx, el)
        shown == SelectSeq(ChildElements(el), LAMBDA n : ~Is([el |-> n, ctx |-> SubContext(scope, n)], DS, "Signature"))
    IN  [name   |-> <<Resolved(scope, el.pre), el.tag>>,
         fields |-> [f \in FieldNames |-> AttributeReads(el, f)],
         types  |-> {el.at[a] : a \in {b \in DOMAIN el.at : b[2] = "type" /\ Resolved(scope, b[1]) = XSI}},
         text   |-> TextReads(el),
         kids   |-> [i \in DOMAIN shown |-> View(scope, shown[i])]]

Unmarshal(ctx, el) == View(DefaultNSContext, ForUnmarshal(ctx, el, DS))

-----------------------------------------------------------------------------
(* The message, from its maker to its reader.                              *)

Only(k, v) == [x \in {k} |-> v]

AttributeValue ==
    Element("a", "AttributeValue", [p \in {"xsi", "xs"} |-> IF p = "xsi" THEN XSI ELSE "xs#"],
            Only(<<"xsi", "type">>, "xs:string"), <<CharData(<<"al", "ice">>)>>)
Assertion == Element("a", "Assertion", Only("a", A), Only(<<"", "ID">>, "a1"), <<AttributeValue>>)
Response == Element("p", "Response", [p \in {"p", "a"} |-> IF p = "p" THEN P ELSE A],
                    Only(<<"", "ID">>, "r1"), <<>>)

NotYet == [name |-> <<>>]

Init ==
    /\ setting \in DOMAIN Settings
    /\ doc = Assertion
    /\ roots \in Settings[setting].roots
    /\ signed = {}
    /\ sent = NotYet
    /\ edits = {}
    /\ count = 0
    /\ got = Refused

Record(el, key, canon, info) ==
    [key |-> key, canon |-> canon, info |-> info,
     what |-> Meaning(DefaultNSContext, el), reads |-> Unmarshal(DefaultNSContext, el)]

\* The assertion is signed on its own, and the signature put where the schema wants it.
MakeAssertionEl(key, canon, info) ==
    /\ doc = Assertion
    /\ doc' = [Assertion EXCEPT !.kids = <<ConstructSignature(Assertion, key, canon, info)>> \o @]
    /\ signed' = signed \cup {Record(Assertion, key, canon, info)}
    /\ UNCHANGED <<setting, roots, sent, edits, count, got>>

\* The response is signed with the assertion in it, which the exclusive canonicalizer rewrites in
\* place, and is then made again around that same assertion.
SignResponse(key, canon, info) ==
    LET whole == [Response EXCEPT !.kids = <<doc>>]
        left == IF canon.alg \in {"exc", "exc#WithComments"} THEN Canonicalize(canon, whole) ELSE whole
    IN  /\ sent = NotYet
        /\ doc' = [Response EXCEPT !.kids = <<ConstructSignature(whole, key, canon, info), left.kids[1]>>]
        /\ signed' = signed \cup {Record(whole, key, canon, info)}
        /\ sent' = Meaning(DefaultNSContext, doc')
        /\ UNCHANGED <<setting, roots, edits, count, got>>

\* A response may also go out with only its assertion signed.
SendUnsigned ==
    /\ sent = NotYet
    /\ doc' = [Response EXCEPT !.kids = <<doc>>]
    /\ sent' = Meaning(DefaultNSContext, doc')
    /\ UNCHANGED <<setting, roots, signed, edits, count, got>>

\* On its way the message is parsed and written by other software.
Places == {p \in Paths(doc) : At(doc, p).tag \in {"Response", "Assertion", "AttributeValue", "Signature", "SignedInfo"}}

Rewritten(kind, tree) ==
    /\ sent # NotYet
    /\ count < MaxRewritings
    /\ doc' = tree
    /\ edits' = edits \cup {kind}
    /\ count' = count + 1
    /\ got' = Refused
    /\ UNCHANGED <<setting, roots, signed, sent>>

Declare(path, d) ==
    /\ d[1] \notin DOMAIN At(doc, path).ns
    /\ Rewritten("declare", PutAt(doc, path, [At(doc, path) EXCEPT !.ns =
            [p \in DOMAIN @ \cup {d[1]} |-> IF p = d[1] THEN d[2] ELSE @[p]]]))

Undeclare(path, p) ==
    /\ p \in DOMAIN At(doc, path).ns
    /\ Rewritten("declare", PutAt(doc, path, [At(doc, path) EXCEPT !.ns = [q \in DOMAIN @ \ {p} |-> @[q]]]))

\* A comment, in the middle of the text if there is some.
Annotate(path) ==
    LET el == At(doc, path)
        split(n) == IF n.kind = "text" /\ Len(n.val) > 1
                    THEN <<CharData(<<Head(n.val)>>), Comment, CharData(Tail(n.val))>> ELSE <<n>>
        pieces == FlattenSeq([i \in DOMAIN el.kids |-> split(el.kids[i])])
    IN  Rewritten("comment", PutAt(doc, path,
            [el EXCEPT !.kids = IF Len(pieces) > Len(@) THEN pieces ELSE <<Comment>> \o @]))

SetAttribute(path, name, v) ==
    Rewritten("content", PutAt(doc, path, [At(doc, path) EXCEPT !.at =
            [a \in DOMAIN @ \cup {<<"", name>>} |-> IF a = <<"", name>> THEN v ELSE @[a]]]))

Retext(path) ==
    /\ At(doc, path).tag = "AttributeValue"
    /\ Rewritten("content", PutAt(doc, path, [At(doc, path) EXCEPT !.kids = <<CharData(<<"bob">>)>>]))

Inside(p, q) == Len(p) <= Len(q) /\ SubSeq(q, 1, Len(p)) = p

\* An element is put last in another, as a copy or moved there.
Place(from, to, move) ==
    /\ ~Inside(from, to)
    /\ At(doc, to).tag \in {"Response", "Assertion"}
    /\ LET with == PutAt(doc, to, [At(doc, to) EXCEPT !.kids = Append(@, At(doc, from))])
       IN  Rewritten("content", IF move THEN CutAt(with, from) ELSE with)

DropKeyInfo(path) ==
    /\ At(doc, path).tag = "Signature"
    /\ \E n \in ToSet(At(doc, path).kids) : n.tag = "KeyInfo"
    /\ Rewritten("content", PutAt(doc, path, [At(doc, path) EXCEPT !.kids = SelectSeq(@, LAMBDA n : n.tag # "KeyInfo")]))

\* Mutant of Outcome: every reader reads the element it received, once the signature on it is verified.
MutantOutcome(mode, path, result) ==
    IF ~result.ok THEN [ok |-> FALSE, mode |-> mode, path |-> path]
    ELSE [ok |-> TRUE, mode |-> mode, path |-> path, by |-> result.by,
          what |-> Meaning(DefaultNSContext, result.content),
          reads |-> Unmarshal(ParentContext(doc, path), At(doc, path))]

\* The reader verifies the response, or an assertion in it, and takes what it says from what the
\* verification returns; with a SignatureVerifier of its own, from the element itself.
Outcome(mode, path, result) ==
    IF ~result.ok THEN [ok |-> FALSE, mode |-> mode, path |-> path]
    ELSE [ok |-> TRUE, mode |-> mode, path |-> path, by |-> result.by,
          what |-> Meaning(DefaultNSContext, result.content),
          reads |-> IF mode = "verifier"
                    THEN Unmarshal(ParentContext(doc, path), At(doc, path))
                    ELSE Unmarshal(DefaultNSContext, result.content)]

Receive(mode, path) ==
    /\ sent # NotYet
    /\ got = Refused
    /\ got' = Outcome(mode, path, IF mode = "idp" THEN VerifyEnveloped(doc, path, roots)
                                      ELSE VerifySignature(doc, path, roots))
    /\ UNCHANGED <<setting, doc, roots, signed, sent, edits, count>>

Rewrite ==
    \/ \E path \in Places, d \in Declarations : Declare(path, d)
    \/ \E path \in Places : \E p \in DOMAIN At(doc, path).ns : Undeclare(path, p)
    \/ \E path \in Places : Annotate(path)
    \/ \E path \in Places, v \in {"a1", "r1"} : SetAttribute(path, "ID", v)
    \/ \E path \in Places : SetAttribute(path, "X", "v")
    \/ \E path \in Places : Retext(path)
    \/ \E from \in Places \ {<<>>}, to \in Places, move \in BOOLEAN : Place(from, to, move)
    \/ \E path \in Places : DropKeyInfo(path)

Next ==
    \/ \E key \in Signers, canon \in Canons, info \in KeyInfos :
          MakeAssertionEl(key, canon, info) \/ SignResponse(key, canon, info)
    \/ SendUnsigned
    \/ Rewrite
    \/ \E mode \in Modes, path \in {p \in Places : At(doc, p).tag \in {"Response", "Assertion"}} : Receive(mode, path)

Spec == Init /\ [][Next]_vars

-----------------------------------------------------------------------------
(* Properties.                                                             *)

\* Whatever happened to the message, what a verification returns (Validate: the referenced bytes,
\* read again) says exactly what a key the receiver trusts at this time has signed, and the fields
\* encoding/xml then reads are the ones it would have read from the signer's own element: no
\* declaration, comment or second attribute added on the way is taken for one (verifySignature,
\* useVerifiedRequest).  The fields are not promised where an application's SignatureVerifier has
\* verified: verifySignature then returns the element that came, and not what was signed.
VerifiedWasSigned ==
    got.ok =>
        /\ got.by \in ToSet(roots) \ Expired
        /\ \E s \in signed : /\ s.key = got.by /\ s.what = got.what
                              /\ got.mode # "verifier" => s.reads = got.reads

\* Room for the traversals of one verification: the message, and each signature in it three times.
Budget(el) ==
    Size(el) + 3 * Cardinality({p \in Paths(el) : \E n \in 0 .. Len(p) : At(el, SubSeq(p, 1, n)).tag = "Signature"})

\* Other software may move declarations about, embed the message and comment on it: as long as it
\* says the same, what a trusted key signed exclusively without comments (signingContext,
\* GetSigningContext) verifies, up to the limit on visited elements.
RewritingHarmless ==
    \A s \in signed :
        LET el == At(doc, got.path)
            own == IF el.tag = "Assertion" THEN "assertion" ELSE "protocol"
        IN  /\ "path" \in DOMAIN got
            /\ "content" \notin edits
            /\ \A p \in Paths(doc) : ~DeclaresReserved(At(doc, p))
            /\ s.what.name[1] = own
            /\ s.canon = [alg |-> "exc", incl |-> {}]
            /\ s.key \in ToSet(roots) \ Expired
            /\ s.info = "x509" \/ Len(roots) = 1 \/ got.mode = "idp"
            /\ Budget(el) <= Limit
            /\ Meaning(DefaultNSContext, doc) = sent
            => got.ok

\* The declarations made in el outside its signatures.
RECURSIVE Bound(_)
Bound(el) ==
    {<<p, el.ns[p]>> : p \in DOMAIN el.ns}
        \cup UNION {Bound(n) : n \in {m \in ToSet(ChildElements(el)) : m.tag # "Signature"}}

\* A namespace declaration that unmarshalElement leaves for encoding/xml, where it could pass for an
\* attribute, is one that exclusive canonicalization covers (removeUnusedNamespaceDeclarations).
RemainingCovered ==
    got = Refused =>
    \A path \in {p \in Places : At(doc, p).tag \in {"Response", "Assertion"}} :
        LET ctx == ParentContext(doc, path)
            alone == NSDetatch(ctx, At(doc, path))
        IN  ~AncestorsFail(doc, path) /\ ~ExcC14nFails(alone)
            => \A b \in Bound(ForUnmarshal(ctx, At(doc, path), DS)) :
                  b[1] = "" \/ b \in Bound(TransformExcC14n(alone, {}, FALSE))
=============================================================================
