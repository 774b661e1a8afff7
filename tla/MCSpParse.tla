------------------------------ MODULE MCSpParse ------------------------------
(* Messages for TLC: each deviates from a conforming one in a few ways.     *)
EXTENDS SpParse

CONSTANTS k1, k2, idp, other, sp, acs, url, id1, id2

Own == {NoSignature,
        [key |-> k1, embedded |-> k1, intact |-> TRUE],
        [key |-> k1, embedded |-> k1, intact |-> FALSE],
        [key |-> k2, embedded |-> k2, intact |-> TRUE]}
\* Another certificate than that of the key, or none.
Signatures == Own \cup {[key |-> k1, embedded |-> k2, intact |-> TRUE],
                        [key |-> k2, embedded |-> k1, intact |-> TRUE],
                        [key |-> k1, embedded |-> None, intact |-> TRUE]}

SPBase == [entityID |-> sp, acsURL |-> acs, idp |-> idp, allowIDPInitiated |-> FALSE,
           metadataCerts |-> {k1}, fingerprint |-> None, certificate |-> None,
           expired |-> {}]
SPs == {SPBase,
        [SPBase EXCEPT !.allowIDPInitiated = TRUE],
        [SPBase EXCEPT !.metadataCerts = {}],
        [SPBase EXCEPT !.fingerprint = k1, !.metadataCerts = {k2}],
        [SPBase EXCEPT !.certificate = k1, !.metadataCerts = {k2}],
        [SPBase EXCEPT !.certificate = k1, !.fingerprint = k1]}
Rolling == {[SPBase EXCEPT !.metadataCerts = {k1, k2}], [SPBase EXCEPT !.expired = {k1}]}

\* Issued at 2; with MaxIssueDelay = 1 and MaxClockSkew = 2 it is good until 3.
Bearer == [bearer |-> TRUE, data |-> TRUE, inResponseTo |-> id1, recipient |-> acs,
           notOnOrAfter |-> 3]
Confirmations ==
    {<<>>, <<Bearer>>, <<[Bearer EXCEPT !.bearer = FALSE]>>,
     <<[Bearer EXCEPT !.recipient = other], [Bearer EXCEPT !.inResponseTo = NoID]>>,
     <<[Bearer EXCEPT !.data = FALSE], Bearer>>,
     <<[Bearer EXCEPT !.inResponseTo = id2]>>, <<[Bearer EXCEPT !.recipient = other]>>,
     <<[Bearer EXCEPT !.notOnOrAfter = 0]>>}
Base == [signature |-> NoSignature, issuer |-> idp, issueInstant |-> 2, subject |-> TRUE,
         confirmations |-> <<Bearer>>, conditions |-> TRUE, notBefore |-> 2,
         notOnOrAfter |-> 3, audiences |-> <<{sp}>>]
Plain ==
    {[Base EXCEPT !.confirmations = c] : c \in Confirmations}
    \cup {[Base EXCEPT !.audiences = a] :
            a \in {<<>>, <<{other}>>, <<{sp, other}, {sp}>>, <<{sp}, {other}>>}}
    \cup {[Base EXCEPT !.notBefore = b, !.notOnOrAfter = e] :
            b \in {2, 5}, e \in {0, 1, 3}}
    \cup {[Base EXCEPT !.issuer = other], [Base EXCEPT !.subject = FALSE],
          [Base EXCEPT !.conditions = FALSE], [Base EXCEPT !.issueInstant = 1]}
Assertions == UNION {{[a EXCEPT !.signature = s] : s \in Own} : a \in Plain}

Item(a, e, d) == [encrypted |-> e, decrypts |-> d, assertion |-> a]
Signed == [Base EXCEPT !.signature = [key |-> k1, embedded |-> k1, intact |-> TRUE]]
Late == [Signed EXCEPT !.confirmations = <<[Bearer EXCEPT !.inResponseTo = id2]>>]
Few ==
    {<<Item([Base EXCEPT !.signature = s], FALSE, FALSE)>> : s \in Signatures}
    \cup {<<>>, <<Item(Signed, TRUE, TRUE)>>, <<Item(Signed, TRUE, FALSE)>>,
          <<Item(Base, FALSE, FALSE), Item(Signed, FALSE, FALSE)>>,
          <<Item(Signed, FALSE, FALSE), Item(Base, TRUE, TRUE)>>,
          <<Item(Late, FALSE, FALSE), Item(Base, TRUE, FALSE), Item(Signed, TRUE, TRUE)>>}
Lists == Few \cup {<<Item(a, FALSE, FALSE)>> : a \in Assertions}

ResponseBase == [signature |-> NoSignature, destination |-> acs, inResponseTo |-> id1,
                 issueInstant |-> 2, issuer |-> idp, status |-> "Success",
                 assertions |-> <<Item(Signed, FALSE, FALSE)>>]
Envelopes ==
    {ResponseBase, [ResponseBase EXCEPT !.destination = None],
     [ResponseBase EXCEPT !.destination = url], [ResponseBase EXCEPT !.destination = other],
     [ResponseBase EXCEPT !.inResponseTo = id2], [ResponseBase EXCEPT !.inResponseTo = NoID],
     [ResponseBase EXCEPT !.issueInstant = 1], [ResponseBase EXCEPT !.issuer = None],
     [ResponseBase EXCEPT !.issuer = other], [ResponseBase EXCEPT !.status = "Responder"]}
Responses ==
    {[ResponseBase EXCEPT !.signature = s, !.assertions = l] : s \in Own, l \in Lists}
    \cup {[ResponseBase EXCEPT !.signature = s, !.assertions = l] : s \in Signatures, l \in Few}
    \cup {[r EXCEPT !.signature = s] : s \in Signatures, r \in Envelopes}

ArtifactBase == [signature |-> NoSignature, inResponseTo |-> ResolveID,
                 issueInstant |-> 2, issuer |-> None, status |-> "Success",
                 response |-> None]
Artifacts ==
    {[ArtifactBase EXCEPT !.signature = s] : s \in Signatures}
    \cup {[a EXCEPT !.signature = s] :
            s \in Own, a \in {[ArtifactBase EXCEPT !.inResponseTo = id1],
                             [ArtifactBase EXCEPT !.issueInstant = 1],
                             [ArtifactBase EXCEPT !.issuer = other],
                             [ArtifactBase EXCEPT !.status = "Responder"]}}

MCMessage ==
    {[sp |-> c, artifact |-> None, response |-> r, ids |-> {id1}, now |-> t] :
       c \in SPs, r \in Responses, t \in 2..4}
    \cup {[sp |-> c, artifact |-> None, response |-> r, ids |-> {id1}, now |-> 3] :
       c \in Rolling, r \in Responses}
    \cup {[sp |-> c, artifact |-> a, response |-> r, ids |-> {id1}, now |-> 3] :
       c \in {SPBase, [SPBase EXCEPT !.fingerprint = k1]}, a \in Artifacts,
       r \in {x \in Responses : x.assertions # <<>> /\ x.assertions[1].assertion \in {Base, Signed, Late}}}
=============================================================================
