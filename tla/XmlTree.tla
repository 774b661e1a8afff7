------------------------------ MODULE XmlTree ------------------------------
(***************************************************************************)
(* XML documents as the library handles them: etree elements, namespace    *)
(* contexts (internal/dsig/etreeutils/namespace.go), the canonical forms   *)
(* (internal/dsig/canonicalize.go, etreeutils/canonicalize.go), and the    *)
(* form in which an element is handed to encoding/xml (service_provider.go,*)
(* unmarshalElement).                                                      *)
(*                                                                         *)
(* A node is an element, a comment, character data or an opaque leaf.      *)
(* Attributes are a function from <<prefix, name>>, namespace declarations *)
(* a function from the prefix they bind ("" for xmlns="..."), so the order *)
(* of attributes, which every canonical form fixes, is not told apart.     *)
(* Serializing and parsing again keeps a tree but joins the character data *)
(* that a removed comment had split.                                       *)
(***************************************************************************)
EXTENDS Naturals, FiniteSets, SequencesExt

XML   == "http://www.w3.org/XML/1998/namespace"
XMLNS == "http://www.w3.org/2000/xmlns/"

Nothing == [x \in {} |-> x]

Element(pre, tag, ns, at, kids) ==
    [kind |-> "element", pre |-> pre, tag |-> tag, ns |-> ns, at |-> at, kids |-> kids, val |-> <<>>]
Leaf(kind, val) ==
    [kind |-> kind, pre |-> "", tag |-> "", ns |-> Nothing, at |-> Nothing, kids |-> <<>>, val |-> val]
Comment == Leaf("comment", <<>>)
CharData(words) == Leaf("text", words)

IsElement(node) == node.kind = "element"
ChildElements(el) == SelectSeq(el.kids, IsElement)

-----------------------------------------------------------------------------
(* Places in a tree: a path is a sequence of child indices.                *)

RECURSIVE At(_, _)
At(el, path) == IF path = <<>> THEN el ELSE At(el.kids[Head(path)], Tail(path))

RECURSIVE PutAt(_, _, _)
PutAt(el, path, new) ==
    IF path = <<>> THEN new
    ELSE [el EXCEPT !.kids[Head(path)] = PutAt(@, Tail(path), new)]

\* removeElementAtPath, on a path that leads to an element.
CutAt(el, path) ==
    LET parent == At(el, Front(path))
    IN  PutAt(el, Front(path), [parent EXCEPT !.kids = RemoveAt(@, Last(path))])

RECURSIVE Paths(_)
Paths(el) ==
    {<<>>} \cup UNION {{<<i>> \o p : p \in Paths(el.kids[i])} : i \in {j \in DOMAIN el.kids : IsElement(el.kids[j])}}

Size(el) == Cardinality(Paths(el))

-----------------------------------------------------------------------------
(* Namespace contexts: the prefixes in scope and what they stand for.      *)

DefaultNSContext == [p \in {"", "xml", "xmlns"} |-> IF p = "xmlns" THEN XMLNS ELSE XML]

SubContext(ctx, el) ==
    [p \in DOMAIN ctx \cup DOMAIN el.ns |-> IF p \in DOMAIN el.ns THEN el.ns[p] ELSE ctx[p]]

\* The declarations SubContext refuses.
DeclaresReserved(el) ==
    \/ "xmlns" \in DOMAIN el.ns
    \/ "xml" \in DOMAIN el.ns /\ el.ns["xml"] # XML
    \/ "" \in DOMAIN el.ns /\ el.ns[""] = XMLNS

\* NSBuildParentContext of the element at path, and the context inside it.
RECURSIVE ScopeAt(_, _, _)
ScopeAt(ctx, el, path) ==
    IF path = <<>> THEN SubContext(ctx, el)
    ELSE ScopeAt(SubContext(ctx, el), el.kids[Head(path)], Tail(path))
ParentContext(doc, path) ==
    IF path = <<>> THEN DefaultNSContext ELSE ScopeAt(DefaultNSContext, doc, Front(path))
AncestorsFail(doc, path) ==
    \E n \in 0 .. Len(path) - 1 : DeclaresReserved(At(doc, SubSeq(path, 1, n)))

\* The elements of el in document order, each with its path and the context inside it.
RECURSIVE Preorder(_, _, _)
Preorder(ctx, el, path) ==
    LET scope == SubContext(ctx, el)
        below == [i \in DOMAIN el.kids |->
                    IF IsElement(el.kids[i]) THEN Preorder(scope, el.kids[i], Append(path, i)) ELSE <<>>]
    IN  <<[el |-> el, ctx |-> scope, path |-> path]>> \o FlattenSeq(below)

Is(entry, namespace, tag) ==
    /\ entry.el.tag = tag
    /\ entry.el.pre \in DOMAIN entry.ctx
    /\ entry.ctx[entry.el.pre] = namespace

\* What NSDetatch needs of the subtree: its budget of visited elements, and declarations it accepts.
DetatchFails(el, limit) == Size(el) > limit \/ DeclaresReserved(el)

\* The element as a document of its own: every prefix in scope is declared on it.
NSDetatch(ctx, el) ==
    LET scope == SubContext(ctx, el)
        implied == {"xml", "xmlns"} \cup (IF scope[""] = XML THEN {""} ELSE {})
    IN  [el EXCEPT !.ns = [p \in DOMAIN scope \ implied |-> scope[p]]]

-----------------------------------------------------------------------------
(* Canonical forms. Both work on a tree; the bytes are the tree that       *)
(* remains once it is read again.                                          *)

Uncommented(kids, comments) ==
    SelectSeq(kids, LAMBDA n : comments \/ n.kind # "comment")

AttributePrefixes(el) == {a[1] : a \in DOMAIN el.at} \ {""}

RECURSIVE ExcC14n(_, _, _, _, _)
ExcC14n(ctx, declared, el, inclusive, comments) ==
    LET scope == SubContext(ctx, el)
        utilized == {el.pre} \cup AttributePrefixes(el) \cup (inclusive \cap DOMAIN el.ns)
        new == {p \in utilized : ~(p \in DOMAIN declared /\ declared[p] = scope[p])}
        ns == [p \in new |-> scope[p]]
        kids == Uncommented(el.kids, comments)
    IN  [el EXCEPT
            !.ns = ns,
            !.kids = [i \in DOMAIN kids |->
                        IF IsElement(kids[i])
                        THEN ExcC14n(scope, [p \in DOMAIN declared \cup new |->
                                                 IF p \in new THEN ns[p] ELSE declared[p]],
                                     kids[i], inclusive, comments)
                        ELSE kids[i]]]

\* transformExcC14n stops at an element whose names it cannot resolve.
ExcC14nFails(el) ==
    \E e \in ToSet(Preorder(DefaultNSContext, el, <<>>)) :
        DeclaresReserved(e.el) \/ ~(({e.el.pre} \cup AttributePrefixes(e.el)) \subseteq DOMAIN e.ctx)

TransformExcC14n(el, inclusive, comments) ==
    ExcC14n(DefaultNSContext, DefaultNSContext, el, inclusive, comments)

\* Inclusive form: declarations stay, except the ones an ancestor already made.
RECURSIVE CanonicalPrep(_, _, _)
CanonicalPrep(seen, el, comments) ==
    LET new == {p \in DOMAIN el.ns :
                  IF p \in DOMAIN seen THEN seen[p] # el.ns[p] ELSE p # "" \/ el.ns[p] # ""}
        ns == [p \in new |-> el.ns[p]]
        kids == Uncommented(el.kids, comments)
    IN  [el EXCEPT
            !.ns = ns,
            !.kids = [i \in DOMAIN kids |->
                        IF IsElement(kids[i])
                        THEN CanonicalPrep([p \in DOMAIN seen \cup new |-> IF p \in new THEN ns[p] ELSE seen[p]],
                                           kids[i], comments)
                        ELSE kids[i]]]

\* Written and parsed again: adjacent character data is one node.
RECURSIVE Reread(_)
Reread(el) ==
    LET join(kids, n) ==
            IF kids # <<>> /\ Last(kids).kind = "text" /\ n.kind = "text"
            THEN Append(Front(kids), CharData(Last(kids).val \o n.val))
            ELSE Append(kids, IF IsElement(n) THEN Reread(n) ELSE n)
    IN  [el EXCEPT !.kids = FoldLeft(join, <<>>, @)]

-----------------------------------------------------------------------------
(* Reading an element with encoding/xml.                                   *)

\* findChildren: the direct children of that name, by their place among the children.
ChildrenNamed(ctx, el, namespace, tag) ==
    SelectSeq([i \in DOMAIN el.kids |-> [el |-> el.kids[i], at |-> i, ctx |-> SubContext(ctx, el.kids[i])]],
              LAMBDA e : IsElement(e.el) /\ Is(e, namespace, tag))
FindChildrenFails(ctx, el, tag) ==
    \E n \in ToSet(ChildElements(el)) :
        n.tag = tag /\ (DeclaresReserved(n) \/ n.pre \notin DOMAIN SubContext(ctx, n))

\* The root gets the declarations in scope for the prefixes that elements of the subtree have.
ElementToBytes(ctx, el) ==
    LET scope == SubContext(ctx, el)
        prefixes == {At(el, p).pre : p \in Paths(el)}
        copied == {p \in (prefixes \ {"xml"}) \cap DOMAIN scope : ~(p = "" /\ scope[p] = XML)}
    IN  [el EXCEPT !.ns = [p \in DOMAIN el.ns \cup copied |-> IF p \in DOMAIN el.ns THEN el.ns[p] ELSE scope[p]]]

\* Prefixes that el, or what it holds outside the signatures it envelops, needs bound at el.
RECURSIVE Needed(_, _, _)
Needed(ctx, el, signatureNS) ==
    LET scope == SubContext(ctx, el)
        outside == {n \in ToSet(ChildElements(el)) :
                       ~Is([el |-> n, ctx |-> SubContext(scope, n)], signatureNS, "Signature")}
    IN  ({el.pre} \ {""}) \cup AttributePrefixes(el)
            \cup UNION {Needed(scope, n, signatureNS) \ DOMAIN n.ns : n \in outside}

\* stripUnusedNamespaceDeclarations: a declaration stays where something covered needs it.
RECURSIVE StripUnused(_, _, _)
StripUnused(ctx, el, signatureNS) ==
    LET kept == {p \in DOMAIN el.ns : p = "" \/ p \in Needed(ctx, el, signatureNS)}
    IN  [el EXCEPT
            !.ns = [p \in kept |-> el.ns[p]],
            !.kids = [i \in DOMAIN el.kids |->
                        IF IsElement(el.kids[i])
                        THEN StripUnused(SubContext(ctx, el), el.kids[i], signatureNS)
                        ELSE el.kids[i]]]

\* What unmarshalElement gives to encoding/xml.
ForUnmarshal(ctx, el, signatureNS) ==
    StripUnused(DefaultNSContext, Reread(ElementToBytes(ctx, el)), signatureNS)

\* encoding/xml matches an attribute by its local name in any namespace, xmlns:name included.
AttributeReads(el, name) ==
    {el.at[a] : a \in {b \in DOMAIN el.at : b[2] = name}} \cup {el.ns[p] : p \in {name} \cap DOMAIN el.ns}

\* Its character data is all of it, whatever comments stand between.
TextReads(el) ==
    FoldLeft(LAMBDA t, n : IF n.kind = "text" THEN t \o n.val ELSE t, <<>>, el.kids)

-----------------------------------------------------------------------------
(* What a tree says, whatever prefixes, redundant declarations and         *)
(* comments it is written with: the reference the forms are compared with. *)

Resolved(ctx, p) == IF p \in DOMAIN ctx THEN ctx[p] ELSE "undeclared"

RECURSIVE Meaning(_, _)
Meaning(ctx, el) ==
    LET scope == SubContext(ctx, el)
        kids == Reread([el EXCEPT !.kids = Uncommented(@, FALSE)]).kids
    IN  [name |-> <<Resolved(scope, el.pre), el.tag>>,
         attributes |-> {<<IF a[1] = "" THEN "" ELSE Resolved(scope, a[1]), a[2], el.at[a]>> : a \in DOMAIN el.at},
         content |-> [i \in DOMAIN kids |->
                        IF IsElement(kids[i]) THEN <<"element", Meaning(scope, kids[i])>>
                        ELSE <<kids[i].kind, kids[i].val>>]]
=============================================================================
