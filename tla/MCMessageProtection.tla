------------------------ MODULE MCMessageProtection ------------------------
(* Values for the constants of MessageProtection.                          *)
EXTENDS MessageProtection

CONSTANT key2

\* The operators of the components from which constants are made, which do not use those.
X == INSTANCE XmlSignature WITH Settings <- <<>>, sent <- written, edits <- rewritings, got <- verified
E == INSTANCE AssertionEncryption WITH
        Config <- {}, Foreign <- {}, Stray <- {}, Length <- {}, got <- decrypted

\* RedirectBinding.
MCKeyType == [k \in Keys |-> IF k = "k1" THEN "rsa" ELSE "ecdsa"]
MCCertificates == {{"k1", "k2"}, {"k2", "old"}}
MCDestinations == {<<>>, <<Pair("own", "1")>>}

-----------------------------------------------------------------------------
\* XmlSignature.
Exclusive == [alg |-> "exc", incl |-> {}]
Canonicalizations ==
    {Exclusive, [alg |-> "exc", incl |-> {"xs"}], [alg |-> "exc#WithComments", incl |-> {}],
     [alg |-> "c14n11", incl |-> {}]}
Few == {<<"xsi", X!XSI>>, <<"X", "v">>, <<"a", X!A>>, <<"ds", X!DS>>}
Many == {<<"a", X!P>>, <<"ds", X!A>>, <<"xsi", X!XSI>>, <<"X", "v">>, <<"", X!A>>,
         <<"xml", X!A>>}

ExclusiveOnly == {Exclusive}

\* Signers, one of them expired, and readers at both ends.
Signers ==
    [keys |-> {"idp", "old", "other"}, infos |-> {"x509", "rsa"}, modes |-> {"sp", "idp"},
     canons |-> ExclusiveOnly, roots |-> {<<"idp">>, <<"old", "idp">>}, limit |-> 60,
     declarations |-> Few, edits |-> 1]
\* Signers that use other canonicalizations.
ForeignSigners ==
    [keys |-> {"idp", "other"}, infos |-> {"x509", "none"}, modes |-> {"sp"},
     canons |-> Canonicalizations, roots |-> {<<"idp">>}, limit |-> 60,
     declarations |-> Many, edits |-> 1]
\* A message rewritten twice, of about the size of the limit.
RewrittenTwice ==
    [keys |-> {"idp"}, infos |-> {"x509"}, modes |-> {"sp", "verifier"},
     canons |-> ExclusiveOnly, roots |-> {<<"idp">>}, limit |-> 27, declarations |-> Few,
     edits |-> 2]
MCSettings == <<Signers, ForeignSigners, RewrittenTwice>>

-----------------------------------------------------------------------------
\* AssertionEncryption.
Conf(key, signs, intermediates, optIn) ==
    [key |-> key, signs |-> signs, intermediates |-> intermediates, optIn |-> optIn]

\* Service providers: one that signs, one that has opted in to PKCS1v15, one without an
\* RSA key, one with an intermediate certificate.
MCConfig == {Conf("rsa", TRUE, 0, FALSE), Conf("rsa", FALSE, 0, TRUE), Conf("ec", TRUE, 0, FALSE),
             Conf("rsa", FALSE, 1, FALSE)}

MCRsaKey == {SpKey, key2}

Descriptor(use, key, certificates, methods) ==
    [use |-> use, key |-> key, certificates |-> certificates, methods |-> methods]

\* Metadata with several keys, without a certificate, with methods in another
\* order or unknown ones, or with a key of no stated use.
MCForeign ==
    {<<>>,
     << Descriptor("signing", SpKey, 1, <<>>) >>,
     << Descriptor("encryption", SpKey, 0, <<"aes128-cbc">>) >>,
     << Descriptor("encryption", key2, 0, <<"aes256-cbc">>), Descriptor("", SpKey, 1, <<>>) >>,
     << Descriptor("", key2, 1, <<"aes128-gcm">>),
        Descriptor("encryption", SpKey, 1, <<"tripledes-cbc", "aes192-cbc", "aes128-gcm">>) >>,
     << Descriptor("encryption", SpKey, 1, <<"tripledes-cbc">>),
        Descriptor("encryption", key2, 1, <<"aes256-cbc">>) >>}

\* Around the block boundaries of 8 and 16.
MCLength == {1, 7, 8, 9, 15, 16, 17, 31, 32, 33}

Wrapped(method, digest, rsaKey, key) ==
    [method |-> method, digest |-> digest, cert |-> rsaKey,
     cipher |-> [key |-> rsaKey, mode |-> method, len |-> 256, value |-> key,
                 digest |-> IF digest = None THEN "sha1" ELSE digest, intact |-> TRUE]]
Data(method, key) == [method |-> method, digest |-> None, cert |-> None,
                      cipher |-> IF method \in E!GcmMethod THEN E!GcmEncrypt(key, E!StrayText)
                                 ELSE E!CbcEncrypt(method, key, E!StrayText)]
Key16 == E!Bytes("k", 16)
Key24 == E!Bytes("k", 24)

\* The key beside the data or inside it, wrapped once or twice, to another key, of
\* another length, by other methods and digests, or missing.
MCStray ==
    {[data |-> <<Data("aes128-gcm", Key16)>>, side |-> <<Wrapped(method, digest, key, Key16)>>] :
        method \in E!RsaMethod, digest \in {None, "sha256", "legacy-sha512", "md5"},
        key \in {SpKey, key2}}
    \cup
    {[data |-> <<Data(method, key), Wrapped("oaep-mgf1p", "sha1", SpKey, key)>>, side |-> side] :
        method \in {"tripledes-cbc", "aes128-gcm"}, key \in {Key16, Key24},
        side \in {<<>>, <<Wrapped("oaep-mgf1p", None, SpKey, Key16)>>}}
    \cup
    {[data |-> <<Data("tripledes-cbc", Key24),
                 [method |-> "aes128-cbc", digest |-> None, cert |-> None,
                  cipher |-> E!CbcEncrypt("aes128-cbc", Key16, Key24)],
                 Wrapped("oaep-mgf1p", None, SpKey, Key16)>>, side |-> <<>>],
     [data |-> <<Data("aes128-gcm", Key16)>>, side |-> <<>>],
     [data |-> <<[Data("aes128-cbc", Key16) EXCEPT !.cipher = None],
                 Wrapped("oaep-mgf1p", None, SpKey, Key16)>>, side |-> <<>>],
     [data |-> <<[Data("aes128-cbc", Key16) EXCEPT !.method = None],
                 Wrapped("oaep-mgf1p", None, SpKey, Key16)>>, side |-> <<>>]}
=============================================================================
