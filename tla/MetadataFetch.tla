--------------------------- MODULE MetadataFetch ---------------------------
(***************************************************************************)
(* Bytes that are read under a limit (LimitedRead), of which those that    *)
(* FetchMetadata accepts are a document that ParseMetadata reads and that  *)
(* is then written and read again, as XML and in the Store (Durations).    *)
(* Which bytes make which document does not matter to either.              *)
(***************************************************************************)
EXTENDS LimitedRead, Integers

CONSTANTS
    Width, Second, Minute, Hour, Day, Month, Year, Millisecond,     \* of Durations
    Precise, PreciseWhole, MaxFloat, Held, Stored, MaxRounds, Empty, None, Error,
    Fetched     \* metadata of others

ASSUME DurationAssumption ==
    /\ {Width, Second, Minute, Hour, Day, Month, Year, Millisecond} \subseteq Nat \ {0}
    /\ MaxRounds \in Nat
    /\ 2^(Width - 1) \in Nat \ {0} /\ 2^Width = 2 * 2^(Width - 1)
    /\ {Precise, PreciseWhole, MaxFloat} \subseteq Nat \ {0}
    /\ Minute * Second <= Precise /\ Precise <= PreciseWhole
    /\ 2^(Width - 1) <= MaxFloat

VARIABLES held, file, origin, rounds    \* of Durations

DUR == INSTANCE Durations

\* What is in memory has been accepted as a duration, where it is a text; what is in the
\* Store or fetched need not be.
ASSUME DocumentAssumption ==
    /\ Held \subseteq DUR!Entity \cup DUR!Group
    /\ Stored \subseteq DUR!JsonFile
    /\ Fetched \subseteq DUR!XmlFile
    /\ None # Error /\ None # Empty /\ Error # Empty
    /\ \A x \in {None, Error, Empty} :
          /\ x \notin Int /\ x \notin DUR!Text
          /\ x \notin DUR!Entity /\ x \notin DUR!Group
          /\ x \notin DUR!XmlFile /\ x \notin DUR!JsonFile
          /\ x \notin [wall : Int, zone : Int \cup {None}]

document == <<held, file, origin, rounds>>
NoDocument == held = None /\ file = None

\* Nothing is being read.
AtRest == [reader |-> "metadata", state |-> "accepted", got |-> 0, count |-> 0,
           message |-> [size |-> 0, broken |-> FALSE, status |-> 200, timeout |-> TRUE]]

FetchInit ==
    \/ Init /\ NoDocument /\ origin = None /\ rounds = 0
    \/ /\ reader = AtRest.reader /\ message = AtRest.message /\ state = AtRest.state
       /\ got = AtRest.got /\ count = AtRest.count
       /\ DUR!Init

\* FetchMetadata passes what it has read on to ParseMetadata.
Arrive ==
    /\ reader = "metadata" /\ state = "accepted" /\ NoDocument
    /\ file' \in Fetched
    /\ message' = AtRest.message /\ got' = AtRest.got
    /\ UNCHANGED <<reader, state, count, held, origin, rounds>>

FetchNext ==
    \/ NoDocument /\ Next /\ UNCHANGED document
    \/ Arrive
    \/ DUR!Next /\ UNCHANGED vars

FetchSpec == FetchInit /\ [][FetchNext]_<<vars, document>> /\ Fairness

-----------------------------------------------------------------------------
\* Properties, with those of LimitedRead.

\* Metadata survives being written and read again, as XML and in the Store: an expiry moves by
\* half a millisecond at most and none appears (RelaxedTime), a cacheDuration comes back but for a
\* nanosecond each time (Duration), and the text of an XSDDuration as it was (XSDDuration).
Survives == DUR!Survives

\* A cacheDuration is read as what its text denotes, but for what a float64 loses of the
\* seconds; one that does not fit wraps around (Duration.UnmarshalText).
ReadAsDenoted == DUR!ReadAsDenoted
=============================================================================
