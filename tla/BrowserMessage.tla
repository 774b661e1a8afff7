--------------------------- MODULE BrowserMessage ---------------------------
(***************************************************************************)
(* A message on its way through a browser, and what protects it there: a   *)
(* signature over the query (RedirectBinding), encryption of the assertion *)
(* in it (AssertionEncryption), or a signature in its XML, which the       *)
(* module MessageProtection adds.  The code keeps no state between them,   *)
(* and a message is followed under one at a time, while the others stay as *)
(* they began.                                                             *)
(***************************************************************************)
EXTENDS RedirectBinding

CONSTANTS
    Config, Foreign, Stray, Length, \* of AssertionEncryption
    RsaKey, SpKey, Clear, None, Error

VARIABLES
    by,                                                         \* what protects the message
    config, metadata, own, text, message, intact, decrypted     \* AssertionEncryption

encVars == <<config, metadata, own, text, message, intact, decrypted>>

ENC == INSTANCE AssertionEncryption WITH got <- decrypted

\* Keys and messages are none of the values that stand for something else, and an
\* assertion is not empty.
ASSUME EncryptionAssumption ==
    /\ Config \subseteq [key : {"rsa", "ec"}, signs : BOOLEAN, intermediates : Nat,
                         optIn : BOOLEAN]
    /\ Foreign \subseteq Seq(ENC!Descriptor)
    /\ Length \subseteq Nat \ {0}
    /\ \A m \in Stray : ENC!StrayMessage(m)
    /\ SpKey \in RsaKey /\ RsaKey \cap ENC!ByteKey = {}
    /\ None # Error /\ Clear \notin {None, Error}
    /\ \A x \in {None, Clear, Error} :
          /\ x \notin RsaKey /\ x \notin Nat /\ x \notin ENC!Message
          /\ x \notin ENC!ByteKey /\ x \notin ENC!Content /\ x \notin ENC!CipherValue

NoQuery ==
    /\ sent = [parameter |-> "SAMLRequest", message |-> "", relay |-> "", key |-> NoKey]
    /\ query = <<>> /\ trusted = {} /\ required = FALSE
    /\ edits = 0 /\ altered = FALSE /\ outcome = Pending
NoEncryption == ENC!Init /\ config = CHOOSE c \in Config : TRUE

BrowserInit ==
    \/ by = "query" /\ Init /\ NoEncryption
    \/ by = "xml" /\ NoQuery /\ NoEncryption
    \/ by = "encryption" /\ NoQuery /\ ENC!Init

BrowserNext ==
    /\ \/ by = "query" /\ Next /\ UNCHANGED encVars
       \/ by = "encryption" /\ ENC!Next /\ UNCHANGED vars
    /\ UNCHANGED by

Browser == BrowserInit /\ [][BrowserNext]_<<by, vars, encVars>>

-----------------------------------------------------------------------------
(* Properties, with those of RedirectBinding.                              *)

\* What an identity provider encrypts to a service provider's key, that one reads (decryptElement):
\* the method is one of the very key that is used (contentEncryption).
Readable == by = "encryption" => ENC!Readable /\ ENC!MethodOfTheKey

\* What is read is the whole assertion, or a damaged one within its blocks (xmlenc CBC and GCM),
\* by keys of the right length, and by PKCS1v15 only on request (xmlenc Decrypt).
ReadsWhole == by = "encryption" => ENC!ReadsWhole /\ ENC!KeysFit

=============================================================================
