------------------------- MODULE MessageProtection -------------------------
(***************************************************************************)
(* How a message is protected on its way through a browser: by a signature *)
(* over the query or by encryption (BrowserMessage), or by a signature in  *)
(* its XML (XmlSignature), whose steps leave the others as they are.       *)
(***************************************************************************)
EXTENDS BrowserMessage

CONSTANT Settings       \* of XmlSignature

VARIABLES setting, doc, roots, signed, written, rewritings, count, verified     \* of XmlSignature

xmlVars == <<setting, doc, roots, signed, written, rewritings, count, verified>>

XML == INSTANCE XmlSignature WITH sent <- written, edits <- rewritings, got <- verified

NoXml ==
    /\ XML!Init
    /\ setting = CHOOSE s \in DOMAIN Settings : TRUE
    /\ roots = CHOOSE r \in Settings[setting].roots : TRUE

ProtectedInit ==
    /\ BrowserInit
    /\ IF by = "xml" THEN XML!Init ELSE NoXml

ProtectedNext ==
    \/ BrowserNext /\ UNCHANGED xmlVars
    \/ by = "xml" /\ XML!Next /\ UNCHANGED <<by, vars, encVars>>

Protected == ProtectedInit /\ [][ProtectedNext]_<<by, vars, xmlVars, encVars>>

-----------------------------------------------------------------------------
(* Properties, with those of BrowserMessage.                               *)

\* What a verification of an XML signature returns is what a trusted key has signed, and so is what
\* encoding/xml reads from it (Validate, verifySignature), unless it was an application's
\* SignatureVerifier that verified, which returns no content; declarations that are left for
\* encoding/xml to read are covered by the signature (unmarshalElement).
VerifiedWasSigned == by = "xml" => XML!VerifiedWasSigned /\ XML!RemainingCovered

\* A document that says the same is still verified after other software has rewritten it
\* (NSDetatch, the exclusive canonicalizer and the limit on visited elements).
RewritingHarmless == by = "xml" => XML!RewritingHarmless

=============================================================================
