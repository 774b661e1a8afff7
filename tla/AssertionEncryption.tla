------------------------ MODULE AssertionEncryption ------------------------
(***************************************************************************)
(* Encrypted assertions, from the metadata a service provider publishes to *)
(* the assertion it reads: ServiceProvider.Metadata, MakeAssertionEl and   *)
(* contentEncryption of identity_provider.go, the package xmlenc, and      *)
(* decryptElement of service_provider.go.                                  *)
(*                                                                         *)
(* A buffer is abstracted to what it holds and its length, a padded one    *)
(* also to its last byte; lengths and block sizes are the real ones.  RSA, *)
(* AES and GCM are external: what was encrypted under a key is read with   *)
(* it; GCM refuses what was altered, and CBC does not.                     *)
(***************************************************************************)
EXTENDS Naturals, Sequences

CONSTANTS
    Config,     \* configurations of the service provider: key ("rsa" or "ec"),
                \* signs (SignatureMethod is set), intermediates, optIn
                \* (PKCS1v15 is registered)
    Foreign,    \* key descriptors of service providers that are not of this code
    Stray,      \* EncryptedAssertions of other identity providers
    Length,     \* lengths of assertions
    RsaKey,     \* RSA keys
    SpKey,      \* that of the service provider
    Clear,      \* a message with the assertion as it is
    None,       \* no metadata, no message, no method
    Error       \* an error

\* The algorithms of EncryptionMethod.
RsaMethod == {"oaep-mgf1p", "rsa-oaep", "rsa-1_5"}
CbcMethod == {"aes128-cbc", "aes192-cbc", "aes256-cbc", "tripledes-cbc"}
GcmMethod == {"aes128-gcm"}

KeySize(method) ==
    CASE method \in {"aes128-cbc", "aes128-gcm"} -> 16
      [] method \in {"aes192-cbc", "tripledes-cbc"} -> 24
      [] method = "aes256-cbc" -> 32
BlockSize(method) == IF method = "tripledes-cbc" THEN 8 ELSE 16
NonceSize == 12
Overhead == 16

\* Keys: RSA keys are named, []byte keys have a length.
Bytes(name, len) == [name |-> name, len |-> len]

VARIABLES
    config,     \* that of the service provider
    metadata,   \* the key descriptors the identity provider has
    own,        \* are they those of ServiceProvider.Metadata?
    text,       \* the assertion, or None
    message,    \* the EncryptedAssertion on its way, Clear, Error or None
    intact,     \* is it as it was sent?
    got         \* what decryptElement returned

vars == <<config, metadata, own, text, message, intact, got>>

-----------------------------------------------------------------------------
\* Metadata: certificates is the number of those in the X509Certificate.

SpKeyDescriptors(c) ==
    LET certificates == 1 + c.intermediates IN
    (IF c.key = "rsa"
     THEN << [use |-> "encryption", key |-> SpKey, certificates |-> certificates,
              methods |-> <<"aes128-gcm", "aes128-cbc", "aes192-cbc", "aes256-cbc",
                            "oaep-mgf1p">>] >>
     ELSE <<>>)
    \o (IF c.signs
        THEN << [use |-> "signing", key |-> SpKey, certificates |-> certificates,
                 methods |-> <<>>] >>
        ELSE <<>>)

\* The first index of s whose element has the property p, or None.
FirstOf(s, P(_)) ==
    LET having == {i \in DOMAIN s : P(s[i])} IN
    IF having = {} THEN None ELSE CHOOSE i \in having : \A j \in having : i <= j

\* spEncryptionKeyDescriptor: the first for encryption with a certificate, or else
\* the first without a use.
SpEncryptionKeyDescriptor(md) ==
    LET labelled == FirstOf(md, LAMBDA k : k.use = "encryption" /\ k.certificates > 0)
        plain == FirstOf(md, LAMBDA k : k.use = "" /\ k.certificates > 0)
    IN IF labelled # None THEN labelled ELSE plain

\* getSPEncryptionCert: the key to encrypt to, None to send the assertion as it is,
\* or Error.  x509.ParseCertificate reads one certificate and nothing after it.
GetSPEncryptionCert(md) ==
    LET i == SpEncryptionKeyDescriptor(md) IN
    CASE i # None -> IF md[i].certificates = 1 THEN md[i].key ELSE Error
      [] i = None /\ (\E j \in DOMAIN md : md[j].use # "signing") -> Error
      [] OTHER -> None

ContentEncryptionMethods == {"aes128-gcm", "aes128-cbc", "aes192-cbc", "aes256-cbc"}

\* contentEncryption: the first method of the chosen descriptor that is known here.
ContentEncryption(md) ==
    LET i == SpEncryptionKeyDescriptor(md)
        first == IF i = None THEN None
                 ELSE FirstOf(md[i].methods, LAMBDA m : m \in ContentEncryptionMethods)
    IN IF first = None THEN "aes128-cbc" ELSE md[i].methods[first]

-----------------------------------------------------------------------------
\* xmlenc: encryption.

\* Mutant of AppendPadding: a whole number of blocks is not padded.
MutantAppendPadding(buffer, blockSize) ==
    LET padding == (blockSize - (buffer.len % blockSize)) % blockSize IN
    [of |-> buffer, len |-> buffer.len + padding, last |-> padding]

\* appendPadding: up to a whole number of blocks, and at least one byte.
AppendPadding(buffer, blockSize) ==
    LET padding == blockSize - (buffer.len % blockSize) IN
    [of |-> buffer, len |-> buffer.len + padding, last |-> padding]

\* The CipherValue: len is its length, and value what the right key makes of it,
\* without the initialization vector.
Cipher(key, mode, len, value) ==
    [key |-> key, mode |-> mode, len |-> len, value |-> value, digest |-> None,
     intact |-> TRUE]

CbcEncrypt(method, key, buffer) ==
    LET padded == AppendPadding(buffer, BlockSize(method)) IN
    Cipher(key, "cbc", BlockSize(method) + padded.len, padded)

GcmEncrypt(key, buffer) == Cipher(key, "gcm", NonceSize + buffer.len + Overhead, buffer)

\* RSA.Encrypt with OAEP: the layers of the EncryptedData, the data first and then
\* the EncryptedKey in its KeyInfo.  cert is the certificate in the EncryptedKey.
Encrypt(rsaKey, method, digest, buffer) ==
    LET key == Bytes("fresh", KeySize(method)) IN
    << [method |-> method, digest |-> None, cert |-> None,
        cipher |-> IF method \in GcmMethod THEN GcmEncrypt(key, buffer)
                   ELSE CbcEncrypt(method, key, buffer)],
       [method |-> "oaep-mgf1p", digest |-> digest, cert |-> rsaKey,
        cipher |-> [Cipher(rsaKey, "oaep-mgf1p", 256, key) EXCEPT !.digest = digest]] >>

\* MakeAssertionEl after the signature.  side is the EncryptedKey beside the
\* EncryptedData, which this identity provider does not use.
MakeAssertionEl(md, buffer) ==
    LET key == GetSPEncryptionCert(md) IN
    CASE key = None -> Clear
      [] key = Error -> Error
      [] OTHER -> [data |-> Encrypt(key, ContentEncryption(md), "sha1", buffer),
                   side |-> <<>>]

-----------------------------------------------------------------------------
\* xmlenc: decryption.

\* decrypters, as the init functions and the application register them.
Decrypters(c) ==
    CbcMethod \cup GcmMethod \cup {"oaep-mgf1p"} \cup (IF c.optIn THEN {"rsa-1_5"} ELSE {})

DigestMethods == {"sha1", "sha256", "sha512", "ripemd160", "legacy-sha256",
                  "legacy-sha512"}

\* The hash behind the two identifiers of one digest method.
Hash(digest) ==
    CASE digest = "legacy-sha256" -> "sha256" [] digest = "legacy-sha512" -> "sha512"
      [] OTHER -> digest

\* validateRSAKeyIfPresent: the certificate of the EncryptedKey, if there is one, is
\* that of the key.
ValidateRSAKeyIfPresent(key, layer) == key = SpKey /\ layer.cert \in {None, key}

\* RSA.Decrypt.  Without a DigestMethod it is SHA-1;
\* rsa-1_5 uses none.
RsaDecrypt(key, layer) ==
    LET c == layer.cipher
        digest == IF layer.digest = None THEN "sha1" ELSE layer.digest
    IN
    IF /\ ValidateRSAKeyIfPresent(key, layer)
       /\ c # None
       /\ digest \in DigestMethods
       /\ c.intact /\ c.key = key /\ c.mode = layer.method
       /\ layer.method = "rsa-1_5" \/ Hash(c.digest) = Hash(digest)
    THEN c.value ELSE Error

\* Mutant of StripPadding: padding may be the whole buffer.
MutantStripPadding(padded) ==
    IF padded.len < 1 \/ padded.last > padded.len \/ padded.last < 1 THEN Error
    ELSE [padded.of EXCEPT !.len = padded.len - padded.last]

\* stripPadding.
StripPadding(padded) ==
    IF padded.len < 1 \/ padded.last > padded.len - 1 \/ padded.last < 1 THEN Error
    ELSE [padded.of EXCEPT !.len = padded.len - padded.last]

\* CBC.Decrypt with a key of the right length.  What another key makes of it is
\* not the content, and is modelled as an error.
CbcDecrypt(key, layer) ==
    LET c == layer.cipher IN
    IF \/ c = None
       \/ c.len < BlockSize(layer.method)
       \/ c.len % BlockSize(layer.method) # 0
    THEN Error
    ELSE IF c.key # key \/ c.mode # "cbc" THEN Error
    ELSE StripPadding(c.value)

\* GCM.Decrypt, in the same way.
GcmDecrypt(key, layer) ==
    LET c == layer.cipher IN
    IF \/ c = None
       \/ c.len < NonceSize + Overhead
       \/ ~c.intact \/ c.key # key \/ c.mode # "gcm"
    THEN Error ELSE c.value

\* Decrypt of one layer: the Decrypter of its method, if that is registered.
DecryptLayer(conf, key, layer) ==
    CASE key = Error \/ layer.method \notin Decrypters(conf) -> Error
      [] layer.method \in Decrypters(conf) \cap RsaMethod -> RsaDecrypt(key, layer)
      [] OTHER -> IF key = SpKey \/ key.len # KeySize(layer.method) THEN Error
                  ELSE IF layer.method \in GcmMethod THEN GcmDecrypt(key, layer)
                  ELSE CbcDecrypt(key, layer)

\* Decrypt: an EncryptedKey in the KeyInfo of a layer gives the key for it.  An RSA
\* layer does not look for one.
Decrypt(conf, key, layers) ==
    LET last == FirstOf(layers, LAMBDA l : l.method \in RsaMethod)
        depth == IF last = None THEN Len(layers) ELSE last
        below[i \in 1..(depth + 1)] ==
            IF i = depth + 1 THEN key ELSE DecryptLayer(conf, below[i + 1], layers[i])
    IN below[1]

\* decryptElement: an EncryptedKey beside the EncryptedData comes first.
DecryptElement(conf, m) ==
    LET key == IF m.side = <<>> THEN SpKey ELSE Decrypt(conf, SpKey, m.side) IN
    IF conf.key # "rsa" \/ key = Error THEN Error ELSE Decrypt(conf, key, m.data)

-----------------------------------------------------------------------------
\* The assertion that the messages of Stray hold.
StrayText == [is |-> "other", len |-> 40]

\* Shapes of metadata, buffers and messages.
Method == RsaMethod \cup CbcMethod \cup GcmMethod
Descriptor ==
    [use : {"encryption", "signing", ""}, key : RsaKey, certificates : Nat, methods : Seq(Method)]
ByteKey == [name : {"fresh", "k"}, len : Nat]
Content == [is : {"assertion", "other", "damaged"}, len : Nat]
Value == Content \cup ByteKey \cup [of : Content \cup ByteKey, len : Nat, last : Nat]
CipherValue ==
    [key : RsaKey \cup ByteKey, mode : {"cbc", "gcm"} \cup RsaMethod, len : Nat, value : Value,
     digest : DigestMethods \cup {"md5", None}, intact : BOOLEAN]
Layer ==
    [method : Method \cup {None}, digest : DigestMethods \cup {"md5", None},
     cert : RsaKey \cup {None}, cipher : CipherValue \cup {None}]
Message == [data : Seq(Layer), side : Seq(Layer)]

\* What a layer holds is x, encrypted in its way.
Holds(layer, x) ==
    layer.cipher # None =>
       IF layer.cipher.mode # "cbc" THEN layer.cipher.value = x
       ELSE layer.method \in CbcMethod =>
              layer.cipher = CbcEncrypt(layer.method, layer.cipher.key, x)

\* Layers as XML encryption has them: RSA is the last.
Layers(layers) == \A i \in DOMAIN layers : layers[i].method \in RsaMethod => i = Len(layers)

\* An EncryptedAssertion of another identity provider.
StrayMessage(m) ==
    /\ m \in Message /\ Len(m.data) >= 1
    /\ Layers(m.data) /\ Layers(m.side)
    /\ Holds(m.data[1], StrayText)

-----------------------------------------------------------------------------
Init ==
    /\ config \in Config
    /\ metadata = None
    /\ own = FALSE
    /\ text = None
    /\ message = None
    /\ intact = TRUE
    /\ got = None

\* The identity provider learns the metadata of the service provider.
Publish ==
    /\ metadata = None
    /\ \/ metadata' = SpKeyDescriptors(config) /\ own' = TRUE
       \/ metadata' \in Foreign /\ own' = FALSE
    /\ UNCHANGED <<config, text, message, intact, got>>

\* It answers with an assertion.
Answer ==
    /\ metadata # None /\ text = None
    /\ \E len \in Length :
          /\ text' = [is |-> "assertion", len |-> len]
          /\ message' = MakeAssertionEl(metadata, text')
    /\ UNCHANGED <<config, metadata, own, intact, got>>

\* Another identity provider answers, in one of the ways that XML encryption has.
AnswerStray ==
    /\ metadata # None /\ text = None
    /\ text' = StrayText
    /\ message' \in Stray
    /\ UNCHANGED <<config, metadata, own, intact, got>>

OnItsWay == message \notin {None, Clear, Error} /\ got = None

\* The CipherValue of the data of m with its end cut off, and altered so that it ends
\* with another byte.  Of GCM nothing altered is read.
Damaged(m, cut, last) ==
    LET c == m.data[1].cipher IN
    [m EXCEPT !.data[1].cipher =
        [c EXCEPT !.len = c.len - cut, !.intact = FALSE,
                  !.value = IF c.mode # "cbc" THEN c.value
                            ELSE [of |-> [is |-> "damaged", len |-> 0],
                                  len |-> IF cut >= c.value.len THEN 0 ELSE c.value.len - cut,
                                  last |-> last]]]

\* It arrives like that.
Damage ==
    /\ OnItsWay /\ intact
    /\ message.data[1].cipher # None
    /\ \E cut \in 0..message.data[1].cipher.len, last \in {0, 1, 15, 16, 31, 32, 255} :
          message' = Damaged(message, cut, last)
    /\ intact' = FALSE
    /\ UNCHANGED <<config, metadata, own, text, got>>

Receive ==
    /\ OnItsWay
    /\ got' = DecryptElement(config, message)
    /\ UNCHANGED <<config, metadata, own, text, message, intact>>

Next == Publish \/ Answer \/ AnswerStray \/ Damage \/ Receive

Spec == Init /\ [][Next]_vars

-----------------------------------------------------------------------------
\* Properties.

\* A service provider that publishes its metadata, with an RSA key and the one
\* certificate of it, gets an answer, and
\* it reads whatever the identity provider encrypts to that key, by whichever
\* metadata: the method and the digest that the one chooses are among those that the
\* other takes, for every length.
Readable ==
    config.key = "rsa" /\ text \notin {None, StrayText} =>
       /\ own /\ config.intermediates = 0 => message # Error
       /\ got # None /\ intact /\ message.data[2].cipher.key = SpKey => got = text

\* What is read is the assertion, whole, unless it was altered under CBC, and then
\* it is shorter than the blocks that arrived: padding is never counted beyond them.
ReadsWhole ==
    got \notin {None, Error} =>
       \/ got = text
       \/ LET c == message.data[1].cipher IN
          /\ ~intact /\ c.mode = "cbc"
          /\ c.len % BlockSize(message.data[1].method) = 0
          /\ 0 < got.len /\ got.len < c.len - BlockSize(message.data[1].method)

\* The content is encrypted in a way that the metadata gives for the very key it is
\* encrypted to, if it gives one that is known here.
MethodOfTheKey ==
    message \notin {None, Clear, Error} /\ text # StrayText =>
       LET key == message.data[2].cipher.key
           method == message.data[1].method
           known(k) == {k.methods[j] : j \in DOMAIN k.methods} \cap ContentEncryptionMethods
       IN
       \E i \in DOMAIN metadata :
          /\ metadata[i].key = key /\ metadata[i].use # "signing"
          /\ IF known(metadata[i]) = {} THEN method = "aes128-cbc"
             ELSE method \in known(metadata[i])

\* A decrypted message was encrypted to the service provider's key, with every key
\* on the way of the length that its method takes, and by PKCS1v15 only after opting
\* in.
KeysFit ==
    got \notin {None, Error} =>
       LET layers == message.data \o message.side IN
       /\ \E i \in DOMAIN layers :
             /\ layers[i].cipher.key = SpKey
             /\ layers[i].method = "rsa-1_5" => config.optIn
             /\ layers[i].method # "rsa-oaep"
       /\ \A i \in DOMAIN layers : layers[i].method \notin RsaMethod =>
             layers[i].cipher.key.len = KeySize(layers[i].method)

=============================================================================
