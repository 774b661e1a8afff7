--------------------------- MODULE MCSingleLogout ---------------------------
(* Small instances of SingleLogout for TLC.                                *)
EXTENDS SingleLogout, TLC

CONSTANTS sp1, sp2, k1, k2, u1, u2, slo1, slo2, slo2r

\* The service provider as samlsp makes it, answered by HTTP-POST; one answered
\* by HTTP-Redirect, with a fingerprint.
MCSp == [entityID |-> sp1, acsURL |-> "acs", idp |-> "idp", allowIDPInitiated |-> FALSE,
         metadataCerts |-> {"idp"}, fingerprint |-> None, certificate |-> None,
         expired |-> {},
         sloURL |-> slo1, key |-> k1, bindings |-> <<"post">>]
MCSpRedirect == [MCSp EXCEPT !.fingerprint = "idp", !.metadataCerts = {"idp", k2},
                             !.bindings = <<"soap", "redirect">>]

\* The identity provider's endpoint.
MCIdpSLO == [location |-> "slo", response |-> None]

\* Another one, with separate locations for requests and responses.
MCOthers ==
    sp2 :> [entity |-> sp2, descriptors |->
             << [signs |-> FALSE, keys |-> <<>>, acs |-> <<>>, slo |-> <<>>],
                [signs |-> FALSE, keys |-> <<[use |-> "", cert |-> k2]>>, acs |-> <<>>,
                 slo |-> <<[binding |-> "soap", location |-> slo1, response |-> None],
                           [binding |-> "redirect", location |-> slo2, response |-> slo2r],
                           [binding |-> "post", location |-> slo2, response |-> None]>>] >>]
MCNone == sp2 :> None

Base == [wellFormed |-> TRUE, issuer |-> sp2, id |-> 1, issueInstant |-> 0,
         destination |-> "slo", notOnOrAfter |-> None, nameID |-> u1, indexes |-> {}]
Query(q, k, intact) == [binding |-> "redirect", request |-> q, relay |-> "rs",
                        signature |-> NoSignature, query |-> [key |-> k, intact |-> intact]]
Enveloped(binding, q, k, covers) ==
    [binding |-> binding, request |-> q, relay |-> "rs",
     signature |-> [key |-> k, covers |-> covers], query |-> NoSignature]

\* Requests of the other service provider, one with the ID of a request of sp1;
\* some for one session only, too late, not for here, without a principal, not
\* as they were signed, or signed by whoever may not.
MCStrayRequests ==
    LET named == [Base EXCEPT !.id = 11, !.indexes = {2}]
        late == [Base EXCEPT !.id = 12, !.notOnOrAfter = 1]
    IN
    {Query(Base, k2, TRUE), Query(named, k2, TRUE), Query(late, k2, TRUE),
     Query(named, k2, FALSE), Query([Base EXCEPT !.issuer = sp1], k2, TRUE),
     Query([Base EXCEPT !.nameID = None], k2, TRUE),
     Query([Base EXCEPT !.wellFormed = FALSE], k2, TRUE),
     Query([Base EXCEPT !.destination = "sso"], k2, TRUE),
     Query([Base EXCEPT !.issuer = "unknown"], k2, TRUE),
     Enveloped("post", Base, k2, named), Enveloped("redirect", Base, k2, late),
     Enveloped("post", Base, k1, Base),
     Enveloped("post", Base, k2, [Base EXCEPT !.destination = "other"]),
     [Query(Base, k2, TRUE) EXCEPT !.query = NoSignature]}

\* Responses in the identity provider's name.
Answer == [binding |-> "post", inResponseTo |-> 1, issueInstant |-> 0,
           destination |-> slo1, issuer |-> "idp", status |-> "Success",
           signature |-> NoSignature, query |-> NoSignature]
MCStrayResponses ==
    {Answer, [Answer EXCEPT !.binding = "redirect"],
     [Answer EXCEPT !.signature = [key |-> k2, embedded |-> "idp", intact |-> TRUE]],
     [Answer EXCEPT !.signature = [key |-> "idp", embedded |-> "idp", intact |-> FALSE]],
     [Answer EXCEPT !.binding = "redirect", !.query = [key |-> k2, intact |-> TRUE]],
     [Answer EXCEPT !.binding = "redirect", !.query = [key |-> "idp", intact |-> FALSE]]}
=============================================================================
