------------------------------ MODULE MCIdpSSO ------------------------------
(* Small instances of IdpSSO for TLC.                                      *)
EXTENDS IdpSSO, TLC

CONSTANTS t1, t2, sp1, sp2, k1, k2, acs1, acs2, id1, id2, u1, u2, n1, n2,
          weak, medium, equal, strong, ip

\* Users: u1 with a password, u2 with a stronger method; u3 has no email.
MCDetails ==
    u1 :> [nameID |-> n1, format |-> "transient", class |-> medium, address |-> ip]
    @@ u2 :> [nameID |-> n2, format |-> "email", class |-> strong, address |-> None]
    @@ "u3" :> [nameID |-> None, format |-> "transient", class |-> medium, address |-> ip]

Ranks == weak :> 1 @@ medium :> 2 @@ equal :> 2 @@ strong :> 3
MCSelf == [wantSigned |-> FALSE, maxAge |-> 1, strength |-> Ranks]

Post(i, url, d) == [binding |-> "post", index |-> i, location |-> url, default |-> d]
Other(i, url) == [binding |-> "artifact", index |-> i, location |-> url, default |-> TRUE]
Key(use, cert) == [use |-> use, cert |-> cert]
Descriptor(signs, keys, acs) == [signs |-> signs, keys |-> keys, acs |-> acs]
SP(e, descriptors) == [entity |-> e, descriptors |-> descriptors]

Plain == SP(sp1, <<Descriptor(FALSE, <<>>, <<Post(1, acs1, None)>>)>>)
PlainOther == SP(sp2, <<Descriptor(FALSE, <<>>, <<Post(1, acs2, None)>>)>>)
Signing == SP(sp1, <<Descriptor(FALSE, <<Key("signing", k1)>>, <<Post(1, acs1, None)>>),
                     Descriptor(TRUE, <<>>, <<Post(2, acs2, None)>>)>>)
Rolled == SP(sp1, <<Descriptor(FALSE, <<Key("", k2)>>, <<Post(1, acs1, None)>>)>>)
PlainOnes == {Plain, PlainOther}

\* Endpoints of several bindings and preferences, in two descriptors.
Varied(keys, others, d) ==
    SP(sp1, <<Descriptor(FALSE, keys, <<Other(1, acs2), Post(2, acs1, FALSE)>>),
              Descriptor(FALSE, others, <<Post(1, acs2, d)>>)>>)
\* Keys for encryption that are usable, unusable, unlabelled or in another
\* descriptor than the one selected; and no usable endpoint at all.
Varieties ==
    {Signing, Rolled,
     Varied(<<>>, <<>>, TRUE),
     Varied(<<Key("signing", k1)>>, <<Key("encryption", None)>>, None),
     Varied(<<Key("signing", k1), Key("encryption", BadCert)>>, <<>>, FALSE),
     Varied(<<Key("", k2), Key("encryption", None), Key("encryption", k1)>>, <<>>, TRUE),
     SP(sp1, <<Descriptor(FALSE, <<>>, <<Other(1, acs1)>>)>>)}

Base == [wellFormed |-> TRUE, issuer |-> sp1, id |-> id1, issueInstant |-> 0,
         destination |-> "sso", acsIndex |-> None, acsURL |-> None, passive |-> FALSE,
         force |-> FALSE, subject |-> None, policy |-> None, context |-> None]
Unsigned(q) == [request |-> q, relay |-> "rs", signature |-> NoSignature,
                query |-> NoSignature]
Redirect(q, k, intact) == [Unsigned(q) EXCEPT !.query = [key |-> k, intact |-> intact]]
Enveloped(q, k, covers) == [Unsigned(q) EXCEPT !.signature = [key |-> k, covers |-> covers]]

\* Requests signed in every way, by the right key and another; what is read may
\* differ from what is signed in its time, its issuer or its endpoint.
Signatures ==
    LET later == [Base EXCEPT !.issueInstant = 1] IN
    {Unsigned(Base), Unsigned([Base EXCEPT !.wellFormed = FALSE]),
     Redirect(Base, k1, TRUE), Redirect(Base, k2, TRUE), Redirect(Base, k1, FALSE),
     Redirect([Base EXCEPT !.destination = None], k1, TRUE),
     Enveloped(Base, k1, Base), Enveloped(later, k1, Base), Enveloped(later, k2, later),
     Enveloped([Base EXCEPT !.issueInstant = 3], k1, Base),
     Enveloped(Base, k1, [Base EXCEPT !.issuer = sp2]),
     Enveloped([Base EXCEPT !.acsIndex = 2], k1, Base),
     Enveloped(Base, k2, [Base EXCEPT !.destination = None]),
     [Enveloped(later, k1, later) EXCEPT !.query = [key |-> k1, intact |-> TRUE]]}

\* Requests that say how the user may be authenticated, of two service providers.
Interactive ==
    {Unsigned([Base EXCEPT !.passive = p, !.force = f, !.destination = None]) :
       p \in BOOLEAN, f \in BOOLEAN}
    \cup {Unsigned([Base EXCEPT !.issuer = sp2, !.id = id2, !.force = TRUE])}

Confirmation == [bearer |-> TRUE, nameID |-> None, recipient |-> None,
                 inResponseTo |-> None, address |-> None, notBefore |-> None,
                 notOnOrAfter |-> None]
Confirmations ==
    {{}, {Confirmation}, {[Confirmation EXCEPT !.bearer = FALSE]},
     {[Confirmation EXCEPT !.recipient = acs1, !.inResponseTo = id1, !.address = ip]},
     {[Confirmation EXCEPT !.notBefore = 0], [Confirmation EXCEPT !.notOnOrAfter = 1]}}
Subjects == {[nameID |-> n, format |-> f, qualifier |-> None, confirmations |-> c] :
               n \in {None, n1}, f \in {None, "email"}, c \in Confirmations}
Policies == {[format |-> f, qualifier |-> s] :
               f \in {None, "unspecified", "encrypted", "email"}, s \in {None, sp1, sp2}}
Contexts == {[comparison |-> c, classes |-> s, declRefs |-> FALSE] :
               c \in {"exact", "minimum", "maximum", "better", "unknown"},
               s \in {{medium}, {weak, strong}, {"unranked"}, {}}}
            \cup {[comparison |-> "exact", classes |-> {medium}, declRefs |-> TRUE]}
\* Requests that name an endpoint, a subject, a NameID policy or a context.
Demands ==
    {Unsigned([Base EXCEPT !.acsIndex = i, !.acsURL = u]) :
       i \in {None, 1, 2, 3}, u \in {None, acs1, acs2}}
    \cup {Unsigned([Base EXCEPT !.subject = s]) : s \in Subjects}
    \cup {Unsigned([Base EXCEPT !.policy = p]) : p \in Policies}
    \cup {Unsigned([Base EXCEPT !.context = c]) : c \in Contexts}

Links == {[entity |-> sp1, relay |-> "home"], [entity |-> sp2, relay |-> "home"]}

AllMessages == Signatures \cup Demands

\* A tab with every message and registration; two tabs with requests that say how the
\* user may be authenticated.
Variety == [tabs |-> {t1}, registrations |-> Varieties, messages |-> AllMessages,
            links |-> Links, changes |-> 1, time |-> 3]
TwoTabs == [tabs |-> {t1, t2}, registrations |-> PlainOnes, messages |-> Interactive,
            links |-> Links, changes |-> 0, time |-> 1]
MCSettings == <<Variety, TwoTabs>>
=============================================================================
